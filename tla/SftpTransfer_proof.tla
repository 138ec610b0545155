------------------------- MODULE SftpTransfer_proof -------------------------
(* Proofs about SftpTransfer, for any transfers, sizes and failures.       *)
EXTENDS SftpTransfer, SequenceTheorems, TLAPS

USE ConcurrentAssumption, UseAssumption

Command == [cmd : {"Start", "Stop"}, file : Transfer]
Reader  == [file : Transfer, op : Steps, aio : Seq(Nat),
            transfers : Nat, requests : Nat, local : Nat]

(* What was received and what is under way is no more than the file has and *)
(* the connection takes, and was asked for; of an upload, what was read of  *)
(* the local file was asked for, or skipped.                                *)
Counts(e) ==
    /\ e.transfers + Len(e.aio) <= Size[e.file]
    /\ e.transfers + Len(e.aio) <= e.requests
    /\ Len(e.aio) <= Concurrent
    /\ e.file \in Upload => /\ e.transfers + Len(e.aio) = e.requests
                            /\ e.requests <= e.local /\ e.local <= Stored[e.file]
    /\ e.file \notin Upload => e.requests <= Size[e.file] + Stored[e.file]

Counted(e) ==
    /\ Counts(e)
    /\ e.op = "OPEN" => e.requests = 0 /\ e.local = 0
    /\ e.op \in {"CLOSE", "FINISH"} => e.transfers = Size[e.file]

(* Nothing of an upload was skipped. *)
Unskipped(e) == e.file \in Upload => e.local = e.requests

(* What is asked next, and of which reader. *)
Next1(e) == IF e.file \in Upload THEN e.local ELSE e.requests

(* The sequence q goes on with the n requests after m, and is r then. *)
Joined(q, m, n, r) ==
    /\ r \in Seq(Nat) /\ Len(r) = Len(q) + n
    /\ \A j \in 1 .. Len(q) : r[j] = q[j]
    /\ \A j \in 1 .. n : r[Len(q) + j] = m + j

(* A reader with the requests q under way makes n more, and is g then. *)
Asks(e, q, n, g) ==
    /\ g \in Reader /\ g.file = e.file
    /\ Joined(q, Next1(e), n, g.aio)
    /\ g.requests = IF e.file \in Upload THEN e.requests + n
                    ELSE MinOf(e.requests + n, Size[e.file] + Stored[e.file])
    /\ Unskipped(g) => Unskipped(e)
    /\ "beginWrite" \notin Failure /\ Unskipped(e) => Unskipped(g)

(* Of up to n requests a reader e makes some, and is g then. *)
AskedFrom(e, n, g) ==
    /\ g.op = e.op /\ g.transfers = e.transfers /\ Counts(g)
    /\ \E k \in 0 .. n : Asks(e, e.aio, k, g)

LEMMA AskFacts ==
    ASSUME NEW e \in Reader, Counts(e), NEW n \in Nat,
           Len(e.aio) + n <= Concurrent, e.transfers + Len(e.aio) + n <= Size[e.file],
           NEW g \in Asked(e, n)
    PROVE  AskedFrom(e, n, g)
  <1>1. /\ e.file \in Transfer /\ e.op \in Steps /\ e.aio \in Seq(Nat) /\ e.transfers \in Nat
        /\ e.requests \in Nat /\ e.local \in Nat /\ Len(e.aio) \in Nat
        /\ Size[e.file] \in Nat /\ Stored[e.file] \in Nat /\ Concurrent \in Nat
    BY TransferAssumption DEF Reader
  <1>2. ASSUME NEW s \in Nat, NEW k \in 0 .. n
        PROVE  Joined(e.aio, s, k, e.aio \o From(s, k))
    <2> DEFINE l == e.aio
               r == From(s, k)
    <2>1. /\ r \in Seq(Nat) /\ Len(r) = k /\ \A j \in 1 .. k : r[j] = s + j
      BY DEF From
    <2>2. l \in Seq(Nat)
      BY <1>1
    <2> HIDE DEF l, r
    <2>3. /\ l \o r \in Seq(Nat) /\ Len(l \o r) = Len(l) + Len(r)
          /\ \A j \in 1 .. Len(l) + Len(r) : (l \o r)[j] = IF j <= Len(l) THEN l[j] ELSE r[j - Len(l)]
      BY <2>1, <2>2, ConcatProperties
    <2>4. PICK z \in Nat : z = Len(l)
      BY <2>2
    <2>5. \A j \in 1 .. z : (l \o r)[j] = l[j]
      BY <2>1, <2>3, <2>4
    <2>6. ASSUME NEW j \in 1 .. k
          PROVE  (l \o r)[z + j] = s + j
      <3>1. z + j \in 1 .. z + k /\ ~(z + j <= z) /\ (z + j) - z = j
        BY <2>4
      <3>2. (l \o r)[z + j] = r[(z + j) - z]
        BY <2>1, <2>3, <2>4, <3>1
      <3> QED  BY <2>1, <3>1, <3>2
    <2>7. l \o r \in Seq(Nat) /\ Len(l \o r) = Len(l) + k
      BY <2>1, <2>3
    <2> QED  BY <2>4, <2>5, <2>6, <2>7 DEF Joined, l, r
  <1>3. CASE e.file \notin Upload
    <2>1. PICK k \in 0 .. n : g = BeginRead(e, k)
      BY <1>3 DEF Asked
    <2> DEFINE to == MinOf(e.requests + k, Size[e.file] + Stored[e.file])
    <2>2. to \in Nat /\ (to = e.requests + k \/ to = Size[e.file] + Stored[e.file])
          /\ e.transfers + Len(e.aio) + k <= to /\ to <= Size[e.file] + Stored[e.file]
      <3>1. PICK b \in Nat, m \in Nat, z \in Nat, w \in Nat, y \in Nat :
               b = e.requests /\ m = Size[e.file] /\ z = Stored[e.file] /\ w = e.transfers /\ y = Len(e.aio)
        BY <1>1
      <3>2. w + y <= b /\ w + y + n <= m
        BY <3>1 DEF Counts
      <3>3. to = MinOf(b + k, m + z) /\ k \in Nat /\ k <= n
        BY <3>1
      <3>4. to \in Nat /\ (to = b + k \/ to = m + z) /\ w + y + k <= to /\ to <= m + z
        BY <3>2, <3>3 DEF MinOf
      <3> QED  BY <3>1, <3>4
    <2>3. g = [e EXCEPT !.aio = e.aio \o From(e.requests, k), !.requests = to]
      BY <2>1 DEF BeginRead
    <2> HIDE DEF to
    <2>4. /\ g.file = e.file /\ g.op = e.op /\ g.transfers = e.transfers /\ g.local = e.local
          /\ g.aio = e.aio \o From(e.requests, k) /\ g.requests = to
      BY <2>3 DEF Reader
    <2>10. g.requests = MinOf(e.requests + k, Size[e.file] + Stored[e.file])
      BY <2>4 DEF to
    <2>5. Joined(e.aio, e.requests, k, g.aio)
      BY <1>1, <1>2, <2>4
    <2>6. g.aio \in Seq(Nat) /\ Len(g.aio) = Len(e.aio) + k /\ k \in Nat /\ k <= n
      BY <2>5 DEF Joined
    <2>7. g \in Reader
      BY <2>2, <2>3, <2>4, <2>6 DEF Reader
    <2>8. Counts(g)
      <3>1. g.transfers + Len(g.aio) <= Size[g.file] /\ Len(g.aio) <= Concurrent
        <4>1. PICK y \in Nat, w \in Nat, h \in Nat, x \in Nat, p \in Nat :
                 y = Len(e.aio) /\ w = e.transfers /\ h = k /\ x = Size[e.file] /\ p = Concurrent
          BY <1>1, <2>6
        <4>2. h <= n /\ y + n <= p /\ w + y + n <= x
          BY <2>6, <4>1
        <4>3. y + h <= p /\ w + (y + h) <= x
          BY <4>2
        <4> QED  BY <2>4, <2>6, <4>1, <4>3
      <3>2. g.transfers + Len(g.aio) <= g.requests
        <4>1. PICK y \in Nat, w \in Nat, h \in Nat : y = Len(e.aio) /\ w = e.transfers /\ h = k
          BY <1>1, <2>6
        <4>2. w + y + h <= to /\ to \in Nat
          BY <2>2, <4>1
        <4>3. w + (y + h) <= to
          BY <4>2
        <4> QED  BY <2>4, <2>6, <4>1, <4>3
      <3>3. g.requests <= Size[g.file] + Stored[g.file]
        BY <2>2, <2>4
      <3> QED  BY <1>3, <2>4, <3>1, <3>2, <3>3 DEF Counts
    <2>9. Asks(e, e.aio, k, g)
      BY <1>3, <2>4, <2>5, <2>7, <2>10 DEF Asks, Next1, Unskipped
    <2> QED  BY <2>4, <2>8, <2>9 DEF AskedFrom
  <1>4. CASE e.file \in Upload
    <2> DEFINE most == MinOf(n, Stored[e.file] - e.local)
    <2>1. most \in 0 .. n /\ e.local + most <= Stored[e.file]
      BY <1>1, <1>4 DEF MinOf, Counts
    <2> HIDE DEF most
    <2>2. PICK k \in 0 .. most, z \in {0, 1} :
             g = BeginWrite(e, k, z) /\ k + z <= most /\ ("beginWrite" \notin Failure => z = 0)
      <3>1. g = BeginWrite(e, most, 0)
            \/ ("beginWrite" \in Failure /\ \E k \in 0 .. most - 1 : g = BeginWrite(e, k, 1))
        BY <1>4 DEF Asked, most
      <3>2. most \in Nat
        BY <2>1
      <3>3. most \in 0 .. most /\ most + 0 <= most /\ \A k \in 0 .. most - 1 : k \in 0 .. most /\ k + 1 <= most
        BY <3>2
      <3> QED  BY <3>1, <3>3
    <2>3. /\ g = [e EXCEPT !.aio = e.aio \o From(e.local, k), !.requests = e.requests + k,
                           !.local = e.local + k + z]
      BY <2>2 DEF BeginWrite
    <2>4. /\ g.file = e.file /\ g.op = e.op /\ g.transfers = e.transfers /\ g.local = e.local + k + z
          /\ g.aio = e.aio \o From(e.local, k) /\ g.requests = e.requests + k
      BY <2>3 DEF Reader
    <2>5. k \in 0 .. n
      BY <2>1, <2>2
    <2>6. Joined(e.aio, e.local, k, g.aio)
      BY <1>1, <1>2, <2>4, <2>5
    <2>7. g.aio \in Seq(Nat) /\ Len(g.aio) = Len(e.aio) + k
      BY <2>6 DEF Joined
    <2>8. PICK b \in Nat, d \in Nat, w \in Nat, y \in Nat, h \in Nat, x \in Nat, u \in Nat, v \in Nat :
             /\ b = e.requests /\ d = e.local /\ w = e.transfers /\ y = Len(e.aio)
             /\ h = k /\ x = z /\ u = Size[e.file] /\ v = Stored[e.file]
      <3>1. k \in Nat /\ z \in Nat
        BY <2>5
      <3> QED  BY <1>1, <3>1
    <2>9. /\ g.transfers = w /\ Len(g.aio) = y + h /\ g.requests = b + h /\ g.local = d + h + x
          /\ h <= n /\ d + h + x <= v
      <3>1. PICK p \in Nat : p = most
        BY <2>1
      <3>2. d + p <= v /\ h + x <= p /\ p <= n
        BY <2>1, <2>2, <2>8, <3>1
      <3>3. h <= n /\ d + h + x <= v
        BY <3>2
      <3> QED  BY <2>4, <2>7, <2>8, <3>3
    <2>10. w + y = b /\ b <= d /\ w + y + n <= u /\ y + n <= Concurrent
      BY <1>4, <2>8 DEF Counts
    <2>11. g \in Reader
      <3>1. b + h \in Nat /\ d + h + x \in Nat
        OBVIOUS
      <3> QED  BY <2>3, <2>4, <2>7, <2>9, <3>1 DEF Reader
    <2>12. Counts(g)
      <3>1. /\ w + (y + h) <= u /\ y + h <= Concurrent
            /\ w + (y + h) = b + h /\ w + (y + h) <= b + h /\ b + h <= d + h + x
        <4>1. PICK q \in Nat : q = Concurrent
          BY <1>1
        <4>2. w + y = b /\ b <= d /\ w + y + n <= u /\ y + n <= q /\ h <= n
          BY <2>9, <2>10, <4>1
        <4>3. y + h <= q /\ w + (y + h) <= u /\ w + (y + h) = b + h /\ b + h <= d + h + x
          BY <4>2
        <4> QED  BY <4>1, <4>3
      <3> QED  BY <1>4, <2>4, <2>8, <2>9, <3>1 DEF Counts
    <2>13. (Unskipped(g) => Unskipped(e)) /\ ("beginWrite" \notin Failure /\ Unskipped(e) => Unskipped(g))
      <3>1. d + h + x = b + h => d = b
        BY <2>10
      <3>2. "beginWrite" \notin Failure => x = 0
        BY <2>2, <2>8
      <3>3. x = 0 /\ d = b => d + h + x = b + h
        OBVIOUS
      <3> QED  BY <2>4, <2>8, <2>9, <3>1, <3>2, <3>3 DEF Unskipped
    <2>14. Asks(e, e.aio, k, g)
      BY <1>4, <2>4, <2>6, <2>11, <2>13 DEF Asks, Next1
    <2> QED  BY <2>4, <2>5, <2>12, <2>14 DEF AskedFrom
  <1> QED  BY <1>3, <1>4

(* Requests of a reader answered, and what it does then. *)
ReadTo(e, a, g) ==
    /\ Counted(g) /\ g.op \in {"READ", "CLOSE", "ERR"}
    /\ a.k \in 0 .. Len(e.aio) /\ a.got \in 0 .. a.k
    /\ g.transfers = e.transfers + a.got
    /\ \E n \in Nat : Asks(e, SubSeq(e.aio, a.k + 1, Len(e.aio)), n, g)

LEMMA ReadFacts ==
    ASSUME NEW e \in Reader, Counted(e), e.op = "READ", NEW a \in Answers(e),
           NEW g \in IF e.file \in Upload THEN AfterWrite(Answered(e, a), a.k)
                                          ELSE AfterRead(Answered(e, a))
    PROVE  ReadTo(e, a, g)
  <1> DEFINE f == Answered(e, a)
             rest == SubSeq(e.aio, a.k + 1, Len(e.aio))
  <1>1. /\ e.file \in Transfer /\ e.op \in Steps /\ e.aio \in Seq(Nat) /\ e.transfers \in Nat
        /\ e.requests \in Nat /\ e.local \in Nat /\ Len(e.aio) \in Nat
        /\ Size[e.file] \in Nat /\ Stored[e.file] \in Nat /\ Concurrent \in Nat
    BY TransferAssumption DEF Reader
  <1>2. PICK k \in Nat, got \in Nat, m \in Nat, w \in Nat :
           /\ k = a.k /\ got = a.got /\ m = Len(e.aio) /\ w = e.transfers
           /\ k <= m /\ got <= k /\ (e.file \in Upload => got = k)
    <2>1. /\ a.k \in 0 .. Len(e.aio) /\ a.got \in 0 .. Len(e.aio) /\ a.got <= a.k
          /\ e.file \in Upload => \A j \in a.got + 1 .. a.k : FALSE
      BY DEF Answers
    <2>2. PICK k \in Nat, got \in Nat, m \in Nat, w \in Nat :
             k = a.k /\ got = a.got /\ m = Len(e.aio) /\ w = e.transfers
      BY <1>1, <2>1
    <2>3. got + 1 \in got + 1 .. k \/ k <= got
      BY <2>2
    <2>4. k <= m /\ got <= k /\ (e.file \in Upload => got = k)
      BY <2>1, <2>2, <2>3
    <2> QED  BY <2>2, <2>4
  <1>3. rest \in Seq(Nat) /\ Len(rest) = m - k
    <2>1. \A j \in k + 1 .. m : e.aio[j] \in Nat
      <3>1. m = Len(e.aio)
        BY <1>2
      <3>2. \A j \in 1 .. m : e.aio[j] \in Nat
        BY <1>1, <3>1, ElementOfSeq
      <3>3. \A j \in k + 1 .. m : j \in 1 .. m
        OBVIOUS
      <3> QED  BY <3>2, <3>3
    <2>2. SubSeq(e.aio, k + 1, m) \in Seq(Nat) /\ Len(SubSeq(e.aio, k + 1, m)) = m - k
      <3>1. k <= m
        BY <1>2
      <3>2. m - k = IF k + 1 <= m THEN m - (k + 1) + 1 ELSE 0
        BY <3>1
      <3>3. k + 1 \in Int /\ m \in Int
        OBVIOUS
      <3> QED  BY <2>1, <3>2, <3>3, SubSeqProperties
    <2> QED  BY <1>2, <2>2
  <1> HIDE DEF rest
  <1>4. /\ f = [e EXCEPT !.aio = rest, !.transfers = e.transfers + a.got,
                         !.op = IF a.why = "again" THEN e.op ELSE "ERR"]
    BY DEF Answered, rest
  <1>5. /\ f.file = e.file /\ f.aio = rest /\ f.transfers = w + got
        /\ f.requests = e.requests /\ f.local = e.local /\ f.op \in {"READ", "ERR"}
    BY <1>2, <1>4 DEF Reader
  <1>6. f \in Reader
    <2>1. w + got \in Nat /\ e.transfers + a.got = w + got
      BY <1>2
    <2>2. (IF a.why = "again" THEN e.op ELSE "ERR") \in Steps
      BY <1>1 DEF Steps
    <2> DEFINE op == IF a.why = "again" THEN e.op ELSE "ERR"
    <2>3. f = [e EXCEPT !.aio = rest, !.transfers = e.transfers + a.got, !.op = op]
      BY <1>4
    <2>4. op \in Steps /\ e.transfers + a.got \in Nat
      BY <2>1, <2>2
    <2> HIDE DEF op, f
    <2> QED  BY <1>3, <2>3, <2>4 DEF Reader
  <1>7. Counts(f)
    <2>1. PICK b \in Nat : b = e.requests
      BY <1>1
    <2>2. /\ w + m <= Size[e.file] /\ w + m <= b /\ m <= Concurrent
          /\ e.file \in Upload => w + m = b /\ b <= e.local /\ e.local <= Stored[e.file]
          /\ e.file \notin Upload => b <= Size[e.file] + Stored[e.file]
      BY <1>2, <2>1 DEF Counted, Counts
    <2>3. PICK c \in Nat : c = Len(f.aio) /\ c = m - k
      BY <1>2, <1>3, <1>5
    <2>4. /\ (w + got) + c <= Size[e.file] /\ (w + got) + c <= b /\ c <= Concurrent
          /\ e.file \in Upload => (w + got) + c = b
      <3>1. PICK x \in Nat : x = Size[e.file] /\ w + m <= x
        BY <1>1, <2>2
      <3>2. (w + got) + c <= w + m /\ c <= m /\ (got = k => (w + got) + c = w + m)
        <4>1. k <= m /\ got <= k /\ c = m - k
          BY <1>2, <2>3
        <4> QED  BY <4>1
      <3>3. (w + got) + c <= x /\ (w + got) + c <= b /\ c <= Concurrent
        BY <1>1, <2>2, <3>1, <3>2
      <3> QED  BY <1>2, <2>2, <3>1, <3>2, <3>3
    <2> QED  BY <1>5, <2>1, <2>2, <2>3, <2>4 DEF Counts
  <1>8. Unskipped(f) <=> Unskipped(e)
    BY <1>5 DEF Unskipped
  <1>9. Next1(f) = Next1(e)
    BY <1>5 DEF Next1
  <1> HIDE DEF f
  <1>10. f.transfers \in Nat /\ f.requests \in Nat /\ f.local \in Nat /\ Len(f.aio) \in Nat /\ f.aio \in Seq(Nat)
    BY <1>6 DEF Reader
  (* The end of the file. *)
  <1>12. ASSUME Complete(f)
         PROVE  LET h == [f EXCEPT !.op = "CLOSE"] IN
                /\ h \in Reader /\ h.file = f.file /\ h.op = "CLOSE" /\ h.aio = f.aio
                /\ h.requests = f.requests /\ h.local = f.local /\ h.transfers = f.transfers
                /\ Counts(h) /\ Counted(h)
    <2> DEFINE h == [f EXCEPT !.op = "CLOSE"]
    <2>1. /\ h \in Reader /\ h.file = f.file /\ h.op = "CLOSE" /\ h.aio = f.aio
          /\ h.requests = f.requests /\ h.local = f.local /\ h.transfers = f.transfers
      BY <1>6 DEF Reader, Steps
    <2> HIDE DEF h
    <2>2. Counts(h)
      BY <1>7, <2>1 DEF Counts
    <2>3. h.transfers = Size[h.file]
      BY <1>12, <2>1 DEF Complete
    <2> QED  BY <2>1, <2>2, <2>3 DEF Counted, h
  (* More is asked of h, which is f or f at its end. *)
  <1>13. ASSUME NEW h \in Reader, h.file = f.file, h.aio = f.aio, h.requests = f.requests,
                h.local = f.local, h.transfers = f.transfers, Counts(h), h.op \in {"READ", "CLOSE", "ERR"},
                h.op = "CLOSE" => h.transfers = Size[h.file],
                NEW n \in Nat, Len(h.aio) + n <= Concurrent, h.transfers + Len(h.aio) + n <= Size[h.file],
                g \in Asked(h, n)
         PROVE  ReadTo(e, a, g)
    <2>1. /\ g.op = h.op /\ g.transfers = h.transfers /\ Counts(g)
          /\ \E c \in 0 .. n : Asks(h, h.aio, c, g)
      <3>1. AskedFrom(h, n, g)
        BY <1>13, AskFacts
      <3> QED  BY <3>1 DEF AskedFrom
    <2>2. PICK c \in Nat : Asks(h, h.aio, c, g)
      BY <2>1
    <2>3. Next1(h) = Next1(e) /\ (Unskipped(h) <=> Unskipped(e))
      BY <1>8, <1>9, <1>13 DEF Next1, Unskipped
    <2>4. Asks(e, rest, c, g)
      BY <1>5, <1>13, <2>2, <2>3 DEF Asks
    <2>5. Counted(g)
      BY <1>13, <2>1, <2>2 DEF Counted, Asks
    <2>6. a.k \in 0 .. Len(e.aio) /\ a.got \in 0 .. a.k /\ g.transfers = e.transfers + a.got
      BY <1>2, <1>5, <1>13, <2>1
    <2> QED  BY <1>13, <2>1, <2>4, <2>5, <2>6 DEF ReadTo, rest
  <1>14. CASE e.file \in Upload
    <2> DEFINE h == IF a.k > 0 /\ Complete(f) THEN [f EXCEPT !.op = "CLOSE"] ELSE f
               n == MinOf(Concurrent - Len(h.aio), Size[h.file] - h.requests)
    <2>1. /\ h \in Reader /\ h.file = f.file /\ h.aio = f.aio /\ h.requests = f.requests
          /\ h.local = f.local /\ h.transfers = f.transfers /\ Counts(h) /\ h.op \in {"READ", "CLOSE", "ERR"}
          /\ h.op = "CLOSE" => h.transfers = Size[h.file]
      BY <1>5, <1>6, <1>7, <1>12 DEF Counted
    <2>2. g \in Asked(h, n)
      BY <1>14 DEF AfterWrite, f
    <2> HIDE DEF h
    <2>3. n \in Nat /\ Len(h.aio) + n <= Concurrent /\ h.transfers + Len(h.aio) + n <= Size[h.file]
      <3>1. PICK y \in Nat, b \in Nat, v \in Nat, x \in Nat :
               y = Len(h.aio) /\ b = h.requests /\ v = h.transfers /\ x = Size[h.file]
        BY <1>1, <1>5, <1>10, <2>1
      <3>2. v + y = b /\ b <= x /\ y <= Concurrent
        BY <1>5, <1>14, <2>1, <3>1 DEF Counts
      <3>3. PICK p \in Nat, q \in Nat, z \in Nat : z = Concurrent /\ p = z - y /\ q = x - b
        <4>1. Concurrent - y \in Nat /\ x - b \in Nat
          BY <1>1, <3>1, <3>2
        <4> QED  BY <1>1, <4>1
      <3>4. n = MinOf(p, q)
        BY <3>1, <3>3
      <3>5. n \in Nat /\ n <= p /\ n <= q
        BY <3>4 DEF MinOf
      <3>6. y + n <= z /\ v + y + n <= x
        <4>1. PICK j \in Nat : j = n
          BY <3>5
        <4>2. p = z - y /\ q = x - b /\ v + y = b /\ b <= x /\ j <= p /\ j <= q
          BY <3>2, <3>3, <3>5, <4>1
        <4>3. y + j <= z /\ v + y + j <= x
          BY <4>2
        <4> QED  BY <4>1, <4>3
      <3> QED  BY <3>1, <3>3, <3>5, <3>6
    <2> QED  BY <1>13, <2>1, <2>2, <2>3
  <1>15. CASE e.file \notin Upload /\ (Complete(f) \/ f.aio # <<>>)
    <2>1. /\ g \in Reader /\ g.file = f.file /\ g.aio = f.aio /\ g.requests = f.requests
          /\ g.local = f.local /\ g.transfers = f.transfers /\ Counted(g) /\ g.op \in {"READ", "CLOSE", "ERR"}
      <3>1. CASE Complete(f)
        BY <1>12, <1>15, <3>1 DEF AfterRead, f
      <3>2. CASE ~Complete(f)
        BY <1>5, <1>6, <1>7, <1>15, <3>2 DEF AfterRead, f, Counted
      <3> QED  BY <3>1, <3>2
    <2>2. Asks(e, rest, 0, g)
      <3>1. Joined(rest, Next1(e), 0, g.aio)
        BY <1>3, <1>5, <2>1 DEF Joined
      <3>2. g.requests = IF e.file \in Upload THEN e.requests + 0
                         ELSE MinOf(e.requests + 0, Size[e.file] + Stored[e.file])
        <4>1. e.requests + 0 = e.requests
          BY <1>1
        <4>2. e.file \notin Upload => MinOf(e.requests, Size[e.file] + Stored[e.file]) = e.requests
          <5>1. PICK b \in Nat, x \in Nat, v \in Nat : b = e.requests /\ x = Size[e.file] /\ v = Stored[e.file]
            BY <1>1
          <5>2. b <= x + v
            BY <1>15, <5>1 DEF Counted, Counts
          <5>3. MinOf(b, x + v) = b
            BY <5>2 DEF MinOf
          <5> QED  BY <5>1, <5>3
        <4> QED  BY <1>5, <2>1, <4>1, <4>2
      <3> QED  BY <1>5, <1>15, <2>1, <3>1, <3>2 DEF Asks, Unskipped
    <2>3. a.k \in 0 .. Len(e.aio) /\ a.got \in 0 .. a.k /\ g.transfers = e.transfers + a.got
      BY <1>2, <1>5, <2>1
    <2> QED  BY <2>1, <2>2, <2>3 DEF ReadTo, rest
  <1>16. CASE e.file \notin Upload /\ ~Complete(f) /\ f.aio = <<>>
    <2> DEFINE n == MinOf(Concurrent, Size[f.file] - f.transfers)
    <2>1. g \in Asked(f, n)
      BY <1>16 DEF AfterRead, f
    <2>2. n \in Nat /\ Len(f.aio) + n <= Concurrent /\ f.transfers + Len(f.aio) + n <= Size[f.file]
      <3>1. PICK v \in Nat, x \in Nat : v = f.transfers /\ x = Size[f.file] /\ v <= x
        <4>1. f.transfers + Len(f.aio) <= Size[f.file] /\ Len(f.aio) = 0
          BY <1>7, <1>16 DEF Counts
        <4> QED  BY <1>1, <1>5, <1>10, <4>1
      <3>2. x - v \in Nat /\ n = MinOf(Concurrent, x - v)
        BY <3>1
      <3>3. n \in Nat /\ n <= Concurrent /\ n <= x - v
        BY <1>1, <3>2 DEF MinOf
      <3> QED  BY <1>1, <1>16, <3>1, <3>3
    <2> QED  BY <1>5, <1>6, <1>7, <1>13, <2>1, <2>2
  <1> QED  BY <1>14, <1>15, <1>16

(* Every reader counts its requests. *)
Counting == \A i \in 1 .. Len(files) : Counted(files[i])

Reads(t)     == \E i \in 1 .. Len(files) : Has(t, i)
OneStart(t)  == \A i, j \in 1 .. Len(queue) :
                    queue[i] = Event("Start", t) /\ queue[j] = Event("Start", t) => i = j
OneReader(t) == \A i, j \in 1 .. Len(files) : Has(t, i) /\ Has(t, j) => i = j

(* A transfer is asked for once or has one reader, and is shown at work then. *)
Single ==
    \A t \in Transfer :
        /\ OneStart(t) /\ OneReader(t)
        /\ ~(Wanted(t) /\ Reads(t))
        /\ Wanted(t) \/ Reads(t) => state[t] \in Working

Inv == TypeOK /\ Counting /\ Single

(* What is posted and taken. *)
LEMMA QueueFacts ==
    ASSUME queue \in Seq(Command)
    PROVE  /\ \A u \in Transfer, c \in {"Start", "Stop"} : Send(c, u) =>
                /\ queue' \in Seq(Command)
                /\ \A t \in Transfer :
                     /\ Wanted(t)' => Wanted(t) \/ (c = "Start" /\ t = u)
                     /\ OneStart(t) /\ (c = "Start" /\ t = u => ~Wanted(t)) => OneStart(t)'
           /\ \A c \in {"Start", "Stop"} : Take(c) =>
                /\ queue' \in Seq(Command) /\ Head(queue).file \in Transfer
                /\ c = "Start" => Wanted(Head(queue).file)
                /\ \A t \in Transfer :
                     /\ Wanted(t)' => Wanted(t)
                     /\ OneStart(t) => OneStart(t)'
                     /\ OneStart(t) /\ c = "Start" /\ Head(queue).file = t => ~Wanted(t)'
  <1>1. ASSUME NEW u \in Transfer, NEW c \in {"Start", "Stop"}, Send(c, u), stage \in {"open", "failed"}
        PROVE  /\ queue' \in Seq(Command)
               /\ \A t \in Transfer :
                    /\ Wanted(t)' => Wanted(t) \/ (c = "Start" /\ t = u)
                    /\ OneStart(t) /\ (c = "Start" /\ t = u => ~Wanted(t)) => OneStart(t)'
    <2>1. PICK n \in Nat : n = Len(queue)
      OBVIOUS
    <2>2. /\ queue' \in Seq(Command) /\ Len(queue') = n + 1
          /\ \A i \in 1 .. n : queue'[i] = queue[i]
          /\ queue'[n + 1] = Event(c, u)
      BY <1>1, <2>1, AppendProperties DEF Send, Command, Event
    <2>3. \A t : Event(c, u) = Event("Start", t) => c = "Start" /\ t = u
      BY DEF Event
    <2>4. ASSUME NEW t \in Transfer
          PROVE  /\ Wanted(t)' => Wanted(t) \/ (c = "Start" /\ t = u)
                 /\ OneStart(t) /\ (c = "Start" /\ t = u => ~Wanted(t)) => OneStart(t)'
      <3>1. Wanted(t)' => Wanted(t) \/ (c = "Start" /\ t = u)
        BY <2>1, <2>2, <2>3 DEF Wanted
      <3>2. ASSUME OneStart(t), c = "Start" /\ t = u => ~Wanted(t)
            PROVE  OneStart(t)'
        <4>1. CASE c = "Start" /\ t = u
          <5>1. \A i \in 1 .. n : queue'[i] # Event("Start", t)
            BY <2>1, <2>2, <3>2, <4>1 DEF Wanted
          <5>2. \A i \in 1 .. n + 1 : i \in 1 .. n \/ i = n + 1
            BY <2>1
          <5> QED  BY <2>2, <5>1, <5>2 DEF OneStart
        <4>2. CASE ~(c = "Start" /\ t = u)
          <5>1. queue'[n + 1] # Event("Start", t)
            BY <2>2, <2>3, <4>2
          <5>2. \A i \in 1 .. n + 1 : i \in 1 .. n \/ i = n + 1
            BY <2>1
          <5> QED  BY <2>1, <2>2, <3>2, <5>1, <5>2 DEF OneStart
        <4> QED  BY <4>1, <4>2
      <3> QED  BY <3>1, <3>2
    <2> QED  BY <2>2, <2>4
  <1>2. ASSUME NEW c \in {"Start", "Stop"}, Take(c)
        PROVE  /\ queue' \in Seq(Command) /\ Head(queue).file \in Transfer
               /\ c = "Start" => Wanted(Head(queue).file)
               /\ \A t \in Transfer :
                    /\ Wanted(t)' => Wanted(t)
                    /\ OneStart(t) => OneStart(t)'
                    /\ OneStart(t) /\ c = "Start" /\ Head(queue).file = t => ~Wanted(t)'
    <2>1. PICK n \in Nat : n = Len(queue)
      OBVIOUS
    <2>2. /\ queue' \in Seq(Command) /\ Len(queue') = n - 1 /\ n > 0
          /\ \A i \in 1 .. n - 1 : queue'[i] = queue[i + 1]
      BY <1>2, <2>1, HeadTailProperties DEF Take
    <2>3. queue[1] \in Command /\ queue[1] = Head(queue) /\ queue[1].cmd = c
      BY <1>2, <2>1, <2>2 DEF Take
    <2>4. queue[1].file \in Transfer /\ queue[1] = Event(c, queue[1].file)
      BY <2>3 DEF Command, Event
    <2>5. ASSUME NEW t \in Transfer
          PROVE  /\ Wanted(t)' => Wanted(t)
                 /\ OneStart(t) => OneStart(t)'
                 /\ OneStart(t) /\ c = "Start" /\ Head(queue).file = t => ~Wanted(t)'
      <3>1. \A i \in 1 .. n - 1 : i \in 1 .. n /\ i + 1 \in 1 .. n /\ i + 1 # 1
        BY <2>1
      <3>2. Wanted(t)' => Wanted(t)
        BY <2>1, <2>2, <3>1 DEF Wanted
      <3>3. OneStart(t) => OneStart(t)'
        BY <2>1, <2>2, <3>1 DEF OneStart
      <3>4. ASSUME OneStart(t), c = "Start", Head(queue).file = t
            PROVE  ~Wanted(t)'
        BY <2>1, <2>2, <2>3, <2>4, <3>1, <3>4 DEF OneStart, Wanted
      <3> QED  BY <3>2, <3>3, <3>4
    <2>6. c = "Start" => Wanted(Head(queue).file)
      BY <2>1, <2>2, <2>3, <2>4 DEF Wanted
    <2> QED  BY <2>2, <2>3, <2>4, <2>5, <2>6
  <1>3. ASSUME NEW u \in Transfer, NEW c \in {"Start", "Stop"}, Send(c, u), stage \notin {"open", "failed"}
        PROVE  queue' = queue
    BY <1>3 DEF Send
  <1>4. ASSUME NEW u \in Transfer, NEW c \in {"Start", "Stop"}, Send(c, u)
        PROVE  /\ queue' \in Seq(Command)
               /\ \A t \in Transfer :
                    /\ Wanted(t)' => Wanted(t) \/ (c = "Start" /\ t = u)
                    /\ OneStart(t) /\ (c = "Start" /\ t = u => ~Wanted(t)) => OneStart(t)'
    <2>1. CASE stage \in {"open", "failed"}
      BY <1>1, <1>4, <2>1
    <2>2. CASE stage \notin {"open", "failed"}
      BY <1>3, <1>4, <2>2 DEF Wanted, OneStart
    <2> QED  BY <2>1, <2>2
  <1> QED  BY <1>2, <1>4

(* A reader more, one changed and one less: what the others see. *)
LEMMA FileFacts ==
    ASSUME files \in Seq(Reader)
    PROVE  /\ \A e \in Reader : files' = Append(files, e) =>
                /\ files' \in Seq(Reader)
                /\ \A j \in 1 .. Len(files') :
                     files'[j] = e \/ \E k \in 1 .. Len(files) : files'[j] = files[k]
                /\ \A t \in Transfer :
                     /\ Reads(t)' => Reads(t) \/ t = e.file
                     /\ OneReader(t) /\ (t = e.file => ~Reads(t)) => OneReader(t)'
           /\ \A i \in 1 .. Len(files), e \in Reader : SetFile(i, e) /\ e.file = files[i].file =>
                /\ files' \in Seq(Reader) /\ Len(files') = Len(files)
                /\ \A j \in 1 .. Len(files) : files'[j] = IF j = i THEN e ELSE files[j]
                /\ \A t \in Transfer :
                     /\ Reads(t)' => Reads(t)
                     /\ OneReader(t) => OneReader(t)'
           /\ \A i \in 1 .. Len(files) : files' = RemoveAt(files, i) =>
                /\ files' \in Seq(Reader)
                /\ \A j \in 1 .. Len(files') : \E k \in 1 .. Len(files) : k # i /\ files'[j] = files[k]
                /\ \A t \in Transfer :
                     /\ Reads(t)' => Reads(t)
                     /\ OneReader(t) => OneReader(t)'
                     /\ OneReader(t) /\ t = files[i].file => ~Reads(t)'
  <1>1. PICK n \in Nat : n = Len(files)
    OBVIOUS
  <1>2. ASSUME NEW e \in Reader, files' = Append(files, e)
        PROVE  /\ files' \in Seq(Reader)
               /\ \A j \in 1 .. Len(files') :
                    files'[j] = e \/ \E k \in 1 .. Len(files) : files'[j] = files[k]
               /\ \A t \in Transfer :
                    /\ Reads(t)' => Reads(t) \/ t = e.file
                    /\ OneReader(t) /\ (t = e.file => ~Reads(t)) => OneReader(t)'
    <2>1. /\ files' \in Seq(Reader) /\ Len(files') = n + 1
          /\ \A j \in 1 .. n : files'[j] = files[j]
          /\ files'[n + 1] = e
      BY <1>1, <1>2, AppendProperties
    <2>2. \A j \in 1 .. n + 1 : j \in 1 .. n \/ j = n + 1
      BY <1>1
    <2>3. \A j \in 1 .. Len(files') : files'[j] = e \/ \E k \in 1 .. Len(files) : files'[j] = files[k]
      BY <1>1, <2>1, <2>2
    <2>4. ASSUME NEW t \in Transfer
          PROVE  /\ Reads(t)' => Reads(t) \/ t = e.file
                 /\ OneReader(t) /\ (t = e.file => ~Reads(t)) => OneReader(t)'
      <3>1. Reads(t)' => Reads(t) \/ t = e.file
        BY <1>1, <2>1, <2>2 DEF Reads, Has
      <3>2. ASSUME OneReader(t), t = e.file => ~Reads(t)
            PROVE  OneReader(t)'
        <4>1. CASE t = e.file
          <5>1. \A j \in 1 .. n : files'[j].file # t
            BY <1>1, <2>1, <3>2, <4>1 DEF Reads, Has
          <5> QED  BY <2>1, <2>2, <5>1 DEF OneReader, Has
        <4>2. CASE t # e.file
          BY <1>1, <2>1, <2>2, <3>2, <4>2 DEF OneReader, Has
        <4> QED  BY <4>1, <4>2
      <3> QED  BY <3>1, <3>2
    <2> QED  BY <2>1, <2>3, <2>4
  <1>3. ASSUME NEW i \in 1 .. Len(files), NEW e \in Reader, SetFile(i, e), e.file = files[i].file
        PROVE  /\ files' \in Seq(Reader) /\ Len(files') = Len(files)
               /\ \A j \in 1 .. Len(files) : files'[j] = IF j = i THEN e ELSE files[j]
               /\ \A t \in Transfer :
                    /\ Reads(t)' => Reads(t)
                    /\ OneReader(t) => OneReader(t)'
    <2>1. /\ files' \in Seq(Reader) /\ Len(files') = Len(files)
          /\ \A j \in 1 .. Len(files) : files'[j] = IF j = i THEN e ELSE files[j]
      BY <1>3, ExceptSeq DEF SetFile
    <2>2. \A j \in 1 .. Len(files) : files'[j].file = files[j].file
      BY <1>3, <2>1
    <2> QED  BY <2>1, <2>2 DEF Reads, OneReader, Has
  <1>4. ASSUME NEW i \in 1 .. Len(files), files' = RemoveAt(files, i)
        PROVE  /\ files' \in Seq(Reader)
               /\ \A j \in 1 .. Len(files') : \E k \in 1 .. Len(files) : k # i /\ files'[j] = files[k]
               /\ \A t \in Transfer :
                    /\ Reads(t)' => Reads(t)
                    /\ OneReader(t) => OneReader(t)'
                    /\ OneReader(t) /\ t = files[i].file => ~Reads(t)'
    <2> DEFINE at(j) == IF j < i THEN j ELSE j + 1
    <2>1. /\ files' \in Seq(Reader) /\ Len(files') = n - 1
          /\ \A j \in 1 .. n - 1 : files'[j] = files[at(j)]
      <3> DEFINE p == SubSeq(files, 1, i - 1)
                 q == SubSeq(files, i + 1, n)
      <3>1. /\ p \in Seq(Reader) /\ Len(p) = i - 1
            /\ \A j \in 1 .. i - 1 : p[j] = files[j]
        BY <1>1
      <3>2. /\ q \in Seq(Reader) /\ Len(q) = n - i
            /\ \A j \in 1 .. n - i : q[j] = files[i + j]
        BY <1>1
      <3>3. files' = p \o q
        BY <1>1, <1>4 DEF RemoveAt
      <3> HIDE DEF p, q
      <3>4. /\ p \o q \in Seq(Reader) /\ Len(p \o q) = Len(p) + Len(q)
            /\ \A j \in 1 .. Len(p) + Len(q) : (p \o q)[j] = IF j <= Len(p) THEN p[j] ELSE q[j - Len(p)]
        BY <3>1, <3>2, ConcatProperties
      <3>5. ASSUME NEW j \in 1 .. n - 1
            PROVE  (p \o q)[j] = files[at(j)]
        <4>1. CASE j < i
          BY <1>1, <3>1, <3>2, <3>4, <4>1
        <4>2. CASE ~(j < i)
          <5>1. (p \o q)[j] = q[j - (i - 1)]
            BY <1>1, <3>1, <3>2, <3>4, <4>2
          <5>2. j - (i - 1) \in 1 .. n - i /\ i + (j - (i - 1)) = j + 1
            BY <1>1, <4>2
          <5>3. q[j - (i - 1)] = files[i + (j - (i - 1))]
            BY <3>2, <5>2
          <5> QED  BY <4>2, <5>1, <5>2, <5>3
        <4> QED  BY <4>1, <4>2
      <3>6. Len(p \o q) = n - 1
        BY <1>1, <3>1, <3>2, <3>4
      <3> HIDE DEF at
      <3> QED  BY <3>3, <3>4, <3>5, <3>6
    <2>2. /\ \A j \in 1 .. n - 1 : at(j) \in 1 .. n /\ at(j) # i
          /\ \A j, k \in 1 .. n - 1 : at(j) = at(k) => j = k
      BY <1>1
    <2> HIDE DEF at
    <2>3. \A j \in 1 .. Len(files') : \E k \in 1 .. Len(files) : k # i /\ files'[j] = files[k]
      BY <1>1, <2>1, <2>2
    <2>4. ASSUME NEW t \in Transfer
          PROVE  /\ Reads(t)' => Reads(t)
                 /\ OneReader(t) => OneReader(t)'
                 /\ OneReader(t) /\ t = files[i].file => ~Reads(t)'
      <3>1. Reads(t)' => Reads(t)
        BY <2>3 DEF Reads, Has
      <3>2. OneReader(t) => OneReader(t)'
        <4>1. ASSUME OneReader(t), NEW j \in 1 .. n - 1, NEW k \in 1 .. n - 1,
                     files'[j].file = t, files'[k].file = t
              PROVE  j = k
          <5>1. files[at(j)].file = t /\ files[at(k)].file = t /\ at(j) \in 1 .. n /\ at(k) \in 1 .. n
            BY <2>1, <2>2, <4>1
          <5>2. at(j) = at(k)
            BY <1>1, <4>1, <5>1 DEF OneReader, Has
          <5> QED  BY <2>2, <5>2
        <4> QED  BY <2>1, <4>1 DEF OneReader, Has
      <3>3. OneReader(t) /\ t = files[i].file => ~Reads(t)'
        BY <2>3 DEF OneReader, Reads, Has
      <3> QED  BY <3>1, <3>2, <3>3
    <2> QED  BY <2>1, <2>3, <2>4
  <1> QED  BY <1>2, <1>3, <1>4

(* A reader that has opened its files. *)
LEMMA OpenFacts ==
    ASSUME NEW e \in Reader, Counted(e), e.op = "OPEN",
           NEW g \in Asked([e EXCEPT !.op = "READ"], MinOf(Concurrent, Size[e.file]))
    PROVE  /\ g.op = "READ" /\ Counted(g) /\ g.transfers = 0 /\ e.requests = 0 /\ Unskipped(e)
           /\ \E n \in Nat : Asks(e, <<>>, n, g)
  <1> DEFINE f == [e EXCEPT !.op = "READ"]
             n == MinOf(Concurrent, Size[e.file])
  <1>1. /\ e.file \in Transfer /\ e.aio \in Seq(Nat) /\ e.transfers \in Nat /\ Len(e.aio) \in Nat
        /\ Size[e.file] \in Nat /\ Concurrent \in Nat
    BY TransferAssumption DEF Reader
  <1>2. /\ e.requests = 0 /\ e.local = 0 /\ e.transfers + Len(e.aio) <= e.requests
        /\ Counts(e) /\ Unskipped(e)
    BY DEF Counted, Counts, Unskipped
  <1>3. e.transfers = 0 /\ Len(e.aio) = 0 /\ e.aio = <<>>
    BY <1>1, <1>2
  <1>4. /\ f \in Reader /\ f.file = e.file /\ f.op = "READ" /\ f.aio = e.aio
        /\ f.requests = e.requests /\ f.local = e.local /\ f.transfers = e.transfers
    BY DEF Reader, Steps
  <1>5. n \in Nat /\ n <= Concurrent /\ n <= Size[e.file]
    BY <1>1 DEF MinOf
  <1> HIDE DEF f, n
  <1>6. Counts(f)
    BY <1>2, <1>4 DEF Counts
  <1>7. Len(f.aio) + n <= Concurrent /\ f.transfers + Len(f.aio) + n <= Size[f.file]
    BY <1>1, <1>3, <1>4, <1>5
  <1>8. g \in Asked(f, n)
    BY DEF f, n
  <1>9. AskedFrom(f, n, g)
    BY <1>4, <1>5, <1>6, <1>7, <1>8, AskFacts
  <1>10. PICK k \in 0 .. n : Asks(f, f.aio, k, g)
    BY <1>9 DEF AskedFrom
  <1>11. k \in Nat /\ Asks(e, <<>>, k, g)
    BY <1>3, <1>4, <1>5, <1>10 DEF Asks, Next1, Unskipped
  <1>12. g.op = "READ" /\ g.transfers = 0 /\ Counts(g)
    BY <1>3, <1>4, <1>9 DEF AskedFrom
  <1> QED  BY <1>2, <1>11, <1>12 DEF Counted

(* Every variable keeps its type and every reader its counts, and clicks,  *)
(* posted events and readers that end leave one of them to a transfer.     *)
THEOREM TransferSound == Spec => [](TypeOK /\ Counting /\ Single)
  <1>1. Init => Inv
    <2>1. SUFFICES ASSUME Init PROVE Inv
      OBVIOUS
    <2>2. Len(queue) = 0 /\ Len(files) = 0
      BY <2>1 DEF Init
    <2>3. TypeOK
      <3>1. state \in [Transfer -> Working \cup CanStart \cup {"Finish"}]
        BY <2>1 DEF Init, CanStart
      <3>2. shown \in [Transfer -> Nat] /\ content \in [Transfer -> Seq(Nat)]
        BY <2>1, EmptySeq DEF Init
      <3>4. clicks \in 0 .. MaxClicks
        BY <2>1 DEF Init
      <3>5. click \subseteq Transfer /\ stage \in Stages
        BY <2>1 DEF Init, Stages
      <3>3. /\ queue \in Seq([cmd : {"Start", "Stop"}, file : Transfer])
            /\ files \in Seq([file : Transfer, op : Steps, aio : Seq(Nat),
                               transfers : Nat, requests : Nat, local : Nat])
        BY <2>1, EmptySeq DEF Init
      <3> QED  BY <2>2, <3>1, <3>2, <3>3, <3>4, <3>5 DEF TypeOK
    <2> QED  BY <2>2, <2>3 DEF Inv, Counting, Single, OneStart, OneReader, Wanted, Reads
  <1>2. ASSUME Inv, [Next]_vars
        PROVE  Inv'
    <2>1. /\ state \in [Transfer -> Working \cup CanStart \cup {"Finish"}]
          /\ shown \in [Transfer -> Nat] /\ clicks \in 0 .. MaxClicks /\ click \subseteq Transfer
          /\ stage \in Stages /\ content \in [Transfer -> Seq(Nat)]
          /\ queue \in Seq(Command) /\ files \in Seq(Reader)
      BY <1>2 DEF Inv, TypeOK, Command, Reader
    <2>2. Counting /\ Single
      BY <1>2 DEF Inv
    <2>3. \A i \in 1 .. Len(files) : files[i] \in Reader /\ files[i].file \in Transfer /\ Counted(files[i])
      <3>1. \A i \in 1 .. Len(files) : files[i] \in Reader
        BY <2>1, ElementOfSeq
      <3>2. \A e \in Reader : e.file \in Transfer
        BY DEF Reader
      <3> QED  BY <2>2, <3>1, <3>2 DEF Counting
    <2>4. ASSUME state' \in [Transfer -> Working \cup CanStart \cup {"Finish"}],
                 shown' \in [Transfer -> Nat], clicks' \in 0 .. MaxClicks, click' \subseteq Transfer,
                 stage' \in Stages, content' \in [Transfer -> Seq(Nat)],
                 queue' \in Seq(Command), files' \in Seq(Reader),
                 \A j \in 1 .. Len(files') : Counted(files'[j])
          PROVE  TypeOK' /\ Counting'
      <3>1. \A j \in 1 .. Len(files') : Len(files'[j].aio) <= Concurrent
        BY <2>4 DEF Counted, Counts
      <3> QED  BY <2>4, <3>1 DEF TypeOK, Counting, Command, Reader
    <2>5. \A t \in Transfer, s \in Working \cup CanStart \cup {"Finish"} : SetState(t, s) =>
            /\ state' \in [Transfer -> Working \cup CanStart \cup {"Finish"}]
            /\ state'[t] = s /\ \A u \in Transfer : u # t => state'[u] = state[u]
      BY <2>1 DEF SetState
    (* A step that changes no reader. *)
    <2>6. ASSUME UNCHANGED files
          PROVE  /\ files' \in Seq(Reader) /\ \A j \in 1 .. Len(files') : Counted(files'[j])
                 /\ \A t \in Transfer : (Reads(t)' <=> Reads(t)) /\ (OneReader(t)' <=> OneReader(t))
      BY <2>1, <2>3, <2>6 DEF Reads, OneReader, Has
    <2>7. ASSUME UNCHANGED queue
          PROVE  /\ queue' \in Seq(Command)
                 /\ \A t \in Transfer : (Wanted(t)' <=> Wanted(t)) /\ (OneStart(t)' <=> OneStart(t))
      BY <2>1, <2>7 DEF Wanted, OneStart
    <2>8. CASE UNCHANGED vars
      BY <1>2, <2>6, <2>7, <2>8 DEF vars, Inv, TypeOK, Counting, Single
    <2>9. CASE Connect \/ ProcessFails
      <3>1. UNCHANGED <<state, shown, clicks, click, queue, files, content>> /\ stage' \in Stages
        BY <2>9 DEF Connect, ProcessFails, Stages
      <3> QED  BY <2>1, <2>2, <2>4, <2>6, <2>7, <3>1 DEF Inv, Single
    <2>23. CASE OnStop
      <3>1. /\ UNCHANGED <<state, shown, clicks, click, content>> /\ stage' \in Stages
            /\ queue' = <<>> /\ files' = <<>> /\ Len(queue') = 0 /\ Len(files') = 0
        BY <2>23 DEF OnStop, Stages
      <3>2. queue' \in Seq(Command) /\ files' \in Seq(Reader)
        BY <3>1, EmptySeq
      <3>3. TypeOK' /\ Counting'
        BY <2>1, <2>4, <3>1, <3>2
      <3>4. Single'
        BY <3>1 DEF Single, OneStart, OneReader, Wanted, Reads
      <3> QED  BY <3>3, <3>4 DEF Inv
    <2>10. ASSUME NEW t \in Transfer, ClickStop(t)
           PROVE  Inv'
      <3>1. queue' \in Seq(Command) /\ \A u \in Transfer : (Wanted(u)' => Wanted(u)) /\ (OneStart(u) => OneStart(u)')
        BY <2>1, <2>10, QueueFacts DEF ClickStop
      <3>2. UNCHANGED <<state, shown, stage, files, content>> /\ clicks' \in 0 .. MaxClicks /\ click' \subseteq Transfer
        BY <2>1, <2>10 DEF ClickStop
      <3>3. TypeOK' /\ Counting'
        BY <2>1, <2>4, <2>6, <3>1, <3>2
      <3>4. Single'
        BY <2>2, <2>6, <3>1, <3>2 DEF Single
      <3> QED  BY <3>3, <3>4 DEF Inv
    <2>11. ASSUME NEW t \in Transfer, Start(t), state[t] \in CanStart, UNCHANGED <<shown, stage, files, content>>,
                  clicks' \in 0 .. MaxClicks, click' \subseteq Transfer
           PROVE  Inv'
      <3>1. ~Wanted(t) /\ ~Reads(t)
        BY <2>2, <2>11 DEF Single, Working, CanStart
      <3>2. /\ queue' \in Seq(Command)
            /\ \A u \in Transfer : (Wanted(u)' => Wanted(u) \/ u = t) /\ (OneStart(u) => OneStart(u)')
        BY <2>1, <2>11, <3>1, QueueFacts DEF Start
      <3>3. /\ state' \in [Transfer -> Working \cup CanStart \cup {"Finish"}]
            /\ state'[t] \in Working /\ \A u \in Transfer : u # t => state'[u] = state[u]
        BY <2>1, <2>11 DEF Start, Working
      <3>4. TypeOK' /\ Counting'
        BY <2>1, <2>4, <2>6, <2>11, <3>2, <3>3
      <3>5. Single'
        BY <2>2, <2>6, <2>11, <3>1, <3>2, <3>3 DEF Single
      <3> QED  BY <3>4, <3>5 DEF Inv
    <2>12. ASSUME NEW t \in Transfer, ClickStart(t)
           PROVE  Inv'
      BY <2>1, <2>11, <2>12 DEF ClickStart
    <2>13. ASSUME NEW t \in Transfer, ClickAgain(t)
           PROVE  Inv'
      <3>1. CASE state[t] \in CanStart
        BY <2>1, <2>11, <2>13, <3>1 DEF ClickAgain
      <3>2. CASE state[t] \notin CanStart
        <4>1. UNCHANGED <<state, queue, shown, clicks, stage, files, content>> /\ click' \subseteq Transfer
          BY <2>13, <3>2 DEF ClickAgain
        <4> QED  BY <2>1, <2>2, <2>4, <2>6, <2>7, <4>1 DEF Inv, Single
      <3> QED  BY <3>1, <3>2
    <2>14. CASE SlotStart
      <3> DEFINE t == Head(queue).file
                 e == [file |-> t, op |-> "OPEN", aio |-> <<>>, transfers |-> 0, requests |-> 0, local |-> 0]
      <3>1. /\ queue' \in Seq(Command) /\ t \in Transfer /\ Wanted(t)
            /\ \A u \in Transfer : /\ Wanted(u)' => Wanted(u)
                                   /\ OneStart(u) => OneStart(u)'
                                   /\ OneStart(u) /\ t = u => ~Wanted(u)'
        BY <2>1, <2>14, QueueFacts DEF SlotStart
      <3>2. SetState(t, "Opening") /\ files' = Append(files, e) /\ UNCHANGED <<shown, clicks, click, stage, content>>
        BY <2>14 DEF SlotStart
      <3> HIDE DEF t
      <3>3. e \in Reader /\ e.file = t
        BY <3>1 DEF Reader, Steps
      <3>4. Counted(e)
        <4>1. Size[t] \in Nat /\ Stored[t] \in Nat /\ Len(<<>>) = 0 /\ Concurrent \in Nat
          BY <3>1, TransferAssumption
        <4>2. Size[t] + Stored[t] >= 0
          BY <4>1
        <4> QED  BY <3>3, <4>1, <4>2 DEF Counted, Counts
      <3> HIDE DEF e
      <3>5. /\ files' \in Seq(Reader)
            /\ \A j \in 1 .. Len(files') : files'[j] = e \/ \E k \in 1 .. Len(files) : files'[j] = files[k]
            /\ \A u \in Transfer : /\ Reads(u)' => Reads(u) \/ u = t
                                   /\ OneReader(u) /\ (u = t => ~Reads(u)) => OneReader(u)'
        BY <2>1, <3>2, <3>3, FileFacts
      <3>6. \A j \in 1 .. Len(files') : Counted(files'[j])
        BY <2>3, <3>4, <3>5
      <3>7. /\ state' \in [Transfer -> Working \cup CanStart \cup {"Finish"}]
            /\ state'[t] \in Working /\ \A u \in Transfer : u # t => state'[u] = state[u]
        BY <2>5, <3>1, <3>2 DEF Working
      <3>8. TypeOK' /\ Counting'
        BY <2>1, <2>4, <3>1, <3>2, <3>5, <3>6, <3>7
      <3>9. Single'
        BY <2>2, <3>1, <3>5, <3>7 DEF Single
      <3> QED  BY <3>8, <3>9 DEF Inv
    (* A reader is removed, and its transfer shown as not at work. *)
    <2>15. ASSUME NEW i \in 1 .. Len(files), NEW s \in CanStart \cup {"Finish"},
                  files' = RemoveAt(files, i), SetState(files[i].file, s),
                  UNCHANGED <<shown, clicks, click, stage, content>>, queue' \in Seq(Command),
                  \A u \in Transfer : (Wanted(u)' => Wanted(u)) /\ (OneStart(u) => OneStart(u)')
           PROVE  Inv'
      <3>1. /\ files' \in Seq(Reader)
            /\ \A j \in 1 .. Len(files') : \E k \in 1 .. Len(files) : k # i /\ files'[j] = files[k]
            /\ \A t \in Transfer : /\ Reads(t)' => Reads(t)
                                   /\ OneReader(t) => OneReader(t)'
                                   /\ OneReader(t) /\ t = files[i].file => ~Reads(t)'
        BY <2>1, <2>15, FileFacts
      <3>2. /\ state' \in [Transfer -> Working \cup CanStart \cup {"Finish"}]
            /\ \A u \in Transfer : u # files[i].file => state'[u] = state[u]
        BY <2>3, <2>5, <2>15
      <3>3. TypeOK' /\ Counting'
        BY <2>1, <2>3, <2>4, <2>15, <3>1, <3>2
      <3>4. Reads(files[i].file)
        BY <2>3 DEF Reads, Has
      <3>5. Single'
        BY <2>2, <2>3, <2>15, <3>1, <3>2, <3>4 DEF Single
      <3> QED  BY <3>3, <3>5 DEF Inv
    <2>16. CASE SlotStop
      <3> DEFINE t == Head(queue).file
                 i == SelectInSeq(files, LAMBDA e : e.file = t)
      <3>1. /\ queue' \in Seq(Command) /\ t \in Transfer
            /\ \A u \in Transfer : (Wanted(u)' => Wanted(u)) /\ (OneStart(u) => OneStart(u)')
        BY <2>1, <2>16, QueueFacts DEF SlotStop
      <3>2. UNCHANGED <<shown, clicks, click, stage, content>>
        BY <2>16 DEF SlotStop
      <3>3. CASE i = 0
        <4>1. UNCHANGED <<state, files>>
          BY <2>16, <3>3 DEF SlotStop
        <4> QED  BY <2>1, <2>2, <2>4, <2>6, <3>1, <3>2, <4>1 DEF Inv, Single
      <3>4. CASE i # 0
        <4>1. SetState(t, "Stop") /\ files' = RemoveAt(files, i)
          BY <2>16, <3>4 DEF SlotStop
        <4>2. i \in 1 .. Len(files) /\ files[i].file = t
          <5> DEFINE I == {j \in 1 .. Len(files) : files[j].file = t}
          <5>1. I # {} /\ i = Min(I)
            BY <3>4 DEF SelectInSeq
          <5>2. PICK j \in I : TRUE
            BY <5>1
          <5>3. I = {j}
            BY <2>2, <3>1 DEF Single, OneReader, Has
          <5>4. j \in Nat /\ j <= j
            OBVIOUS
          <5> HIDE DEF I
          <5>5. Min(I) = j
            BY <5>3, <5>4 DEF Min
          <5> QED  BY <5>1, <5>2, <5>5 DEF I
        <4> QED  BY <2>15, <3>1, <3>2, <4>1, <4>2 DEF CanStart
      <3> QED  BY <3>3, <3>4
    (* A reader changes, and its transfer stays at work. *)
    <2>17. ASSUME NEW i \in 1 .. Len(files), NEW e \in Reader, Counted(e), e.file = files[i].file, SetFile(i, e),
                  UNCHANGED <<clicks, click, stage, queue>>,
                  shown' \in [Transfer -> Nat], content' \in [Transfer -> Seq(Nat)],
                  UNCHANGED state \/ \E s \in Working : SetState(e.file, s)
           PROVE  Inv'
      <3>1. /\ files' \in Seq(Reader) /\ Len(files') = Len(files)
            /\ \A j \in 1 .. Len(files) : files'[j] = IF j = i THEN e ELSE files[j]
            /\ \A t \in Transfer : (Reads(t)' => Reads(t)) /\ (OneReader(t) => OneReader(t)')
        BY <2>1, <2>17, FileFacts
      <3>2. \A j \in 1 .. Len(files') : Counted(files'[j])
        BY <2>3, <2>17, <3>1
      <3>3. /\ state' \in [Transfer -> Working \cup CanStart \cup {"Finish"}]
            /\ \A u \in Transfer : state'[u] = state[u] \/ state'[u] \in Working
        BY <2>1, <2>3, <2>5, <2>17
      <3>4. TypeOK' /\ Counting'
        BY <2>1, <2>4, <2>17, <3>1, <3>2, <3>3
      <3>5. Single'
        BY <2>2, <2>7, <2>17, <3>1, <3>3 DEF Single
      <3> QED  BY <3>4, <3>5 DEF Inv
    <2>18. ASSUME NEW i \in 1 .. Len(files), Open(i)
           PROVE  Inv'
      <3> DEFINE e == files[i]
      <3>1. e \in Reader /\ Counted(e) /\ e.op = "OPEN" /\ UNCHANGED <<shown, clicks, click, stage, queue>>
        BY <2>3, <2>18 DEF Open
      <3>2. content' \in [Transfer -> Seq(Nat)]
        <4>1. <<>> \in Seq(Nat) /\ e.file \in Transfer
          BY <2>3
        <4>2. content' = content \/ content' = [content EXCEPT ![e.file] = <<>>]
          BY <2>18 DEF Open
        <4> QED  BY <2>1, <4>1, <4>2
      <3>3. CASE SetFile(i, [e EXCEPT !.op = "ERR"]) /\ UNCHANGED state
        <4>1. /\ [e EXCEPT !.op = "ERR"] \in Reader /\ [e EXCEPT !.op = "ERR"].file = e.file
              /\ Counted([e EXCEPT !.op = "ERR"])
          BY <3>1 DEF Reader, Steps, Counted, Counts
        <4> QED  BY <2>1, <2>17, <3>1, <3>2, <3>3, <4>1
      <3>4. CASE /\ \E f \in Asked([e EXCEPT !.op = "READ"], MinOf(Concurrent, Size[e.file])) : SetFile(i, f)
                 /\ SetState(e.file, "Transferring")
        <4>1. PICK f \in Asked([e EXCEPT !.op = "READ"], MinOf(Concurrent, Size[e.file])) : SetFile(i, f)
          BY <3>4
        <4>2. f \in Reader /\ f.file = e.file /\ Counted(f)
          BY <3>1, OpenFacts DEF Asks
        <4> QED  BY <2>1, <2>17, <3>1, <3>2, <3>4, <4>1, <4>2 DEF Working
      <3> QED  BY <2>18, <3>3, <3>4 DEF Open
    <2>19. ASSUME NEW i \in 1 .. Len(files), Read(i)
           PROVE  Inv'
      <3> DEFINE e == files[i]
      <3>1. e \in Reader /\ Counted(e) /\ e.op = "READ" /\ UNCHANGED <<state, clicks, click, stage, queue>>
        BY <2>3, <2>19 DEF Read
      <3> DEFINE next(a) == IF e.file \in Upload THEN AfterWrite(Answered(e, a), a.k)
                                                ELSE AfterRead(Answered(e, a))
                 written(a) == IF a.why = "write" THEN a.got - 1 ELSE a.got
      <3>11. PICK a \in Answers(e) :
               /\ \E f \in next(a) : SetFile(i, f)
               /\ content' = [content EXCEPT ![e.file] = @ \o SubSeq(e.aio, 1, written(a))]
               /\ shown' = [shown EXCEPT ![e.file] = IF e.file \in Upload THEN @ ELSE @ + written(a)]
        BY <2>19 DEF Read
      <3>2. PICK g \in next(a) : SetFile(i, g)
        BY <3>11
      <3>3. g \in Reader /\ g.file = e.file /\ Counted(g) /\ a.k \in 0 .. Len(e.aio) /\ a.got \in 0 .. a.k
        <4>1. ReadTo(e, a, g)
          BY <3>1, ReadFacts
        <4> QED  BY <4>1 DEF ReadTo, Asks
      <3> DEFINE w == written(a)
      <3>4. e.aio \in Seq(Nat) /\ Len(e.aio) \in Nat /\ e.file \in Transfer
        BY <3>1 DEF Reader
      <3>5. w \in 0 .. Len(e.aio)
        <4>1. a.why = "write" => a.got = a.k /\ a.k > 0
          BY DEF Answers
        <4> QED  BY <3>3, <3>4, <4>1
      <3>6. content' = [content EXCEPT ![e.file] = @ \o SubSeq(e.aio, 1, w)]
        BY <3>11
      <3>7. shown' = [shown EXCEPT ![e.file] = IF e.file \in Upload THEN @ ELSE @ + w]
        BY <3>11
      <3> HIDE DEF w
      <3>8. SubSeq(e.aio, 1, w) \in Seq(Nat)
        BY <3>4, <3>5
      <3>9. content' \in [Transfer -> Seq(Nat)]
        <4>1. content[e.file] \o SubSeq(e.aio, 1, w) \in Seq(Nat)
          BY <2>1, <3>4, <3>8, ConcatProperties
        <4> QED  BY <2>1, <3>4, <3>6, <4>1
      <3>10. shown' \in [Transfer -> Nat]
        <4>1. w \in Nat /\ shown[e.file] + w \in Nat
          BY <2>1, <3>4, <3>5
        <4> QED  BY <2>1, <3>4, <3>7, <4>1
      <3> QED  BY <2>17, <3>1, <3>2, <3>3, <3>9, <3>10
    <2>20. ASSUME NEW i \in 1 .. Len(files), Close(i)
           PROVE  Inv'
      <3>1. /\ [files[i] EXCEPT !.op = "FINISH"] \in Reader /\ [files[i] EXCEPT !.op = "FINISH"].file = files[i].file
            /\ Counted([files[i] EXCEPT !.op = "FINISH"])
        BY <2>3, <2>20 DEF Close, Reader, Steps, Counted, Counts
      <3> QED  BY <2>1, <2>17, <2>20, <3>1 DEF Close, Working
    <2>21. ASSUME NEW i \in 1 .. Len(files), Finish(i) \/ Fail(i)
           PROVE  Inv'
      BY <2>1, <2>7, <2>15, <2>21 DEF Finish, Fail, CanStart
    <2>22. ASSUME NEW t \in Transfer, Async(t)
           PROVE  Inv'
      BY <2>18, <2>19, <2>20, <2>21, <2>22 DEF Async
    <2> QED  BY <1>2, <2>8, <2>9, <2>10, <2>12, <2>13, <2>14, <2>16, <2>22, <2>23 DEF Next
  <1> QED  BY <1>1, <1>2, PTL DEF Spec, Inv

(* A transfer that is not shown at work has no reader and is not about to  *)
(* have one, none has two, and one that is shown as finished stays so.     *)
THEOREM WorkShown == Spec => []WorkIsShown /\ FinishIsFinal
  <1>1. TypeOK /\ Counting /\ Single => WorkIsShown
    BY DEF Single, WorkIsShown, Reads, OneReader
  <1>2. TypeOK /\ Counting /\ Single /\ [Next]_vars
            => [\A t \in Transfer : state[t] = "Finish" => state'[t] = "Finish"]_vars
    <2> SUFFICES ASSUME TypeOK, Counting, Single, Next, NEW t \in Transfer, state[t] = "Finish"
                 PROVE  state'[t] = "Finish"
      BY DEF vars
    <2>1. /\ state \in [Transfer -> Working \cup CanStart \cup {"Finish"}]
          /\ queue \in Seq(Command) /\ files \in Seq(Reader)
      BY DEF TypeOK, Command, Reader
    <2>2. ~Wanted(t) /\ \A i \in 1 .. Len(files) : files[i].file # t
      BY DEF Single, Working, Reads, Has
    <2>3. ASSUME NEW u, NEW s, SetState(u, s), u # t
          PROVE  state'[t] = "Finish"
      BY <2>1, <2>3 DEF SetState
    <2>4. ASSUME NEW u \in Transfer, ClickStart(u) \/ ClickStop(u) \/ ClickAgain(u)
          PROVE  state'[t] = "Finish"
      BY <2>1, <2>4 DEF ClickStart, ClickStop, ClickAgain, Start, CanStart
    <2>5. CASE SlotStart
      BY <2>1, <2>2, <2>3, <2>5, QueueFacts DEF SlotStart
    <2>6. CASE SlotStop
      <3> DEFINE u == Head(queue).file
                 i == SelectInSeq(files, LAMBDA e : e.file = u)
      <3>1. CASE i = 0
        BY <2>6, <3>1 DEF SlotStop
      <3>2. CASE i # 0
        <4>1. SetState(u, "Stop")
          BY <2>6, <3>2 DEF SlotStop
        <4>2. \E j \in 1 .. Len(files) : files[j].file = u
          BY <3>2 DEF SelectInSeq
        <4> QED  BY <2>2, <2>3, <4>1, <4>2
      <3> QED  BY <3>1, <3>2
    <2>7. ASSUME NEW u \in Transfer, Async(u)
          PROVE  state'[t] = "Finish"
      <3>1. PICK i \in 1 .. Len(files) : Open(i) \/ Read(i) \/ Close(i) \/ Finish(i) \/ Fail(i)
        BY <2>7 DEF Async
      <3> QED  BY <2>2, <2>3, <3>1 DEF Open, Read, Close, Finish, Fail
    <2>8. CASE Connect \/ ProcessFails \/ OnStop
      BY <2>8 DEF Connect, ProcessFails, OnStop
    <2> QED  BY <2>4, <2>5, <2>6, <2>7, <2>8 DEF Next
  <1> QED  BY <1>1, <1>2, TransferSound, PTL DEF Spec, FinishIsFinal

(* What was received is copied, and what is under way comes next: in line, *)
(* or nothing of it as the source has ended.                               *)
InLine(e) ==
    /\ e.requests = e.transfers + Len(e.aio) /\ e.transfers <= Stored[e.file]
    /\ \A j \in 1 .. Len(e.aio) : e.aio[j] = e.transfers + j
Exhausted(e) ==
    /\ e.file \notin Upload /\ e.transfers = Stored[e.file] /\ e.requests >= Stored[e.file]
    /\ \A j \in 1 .. Len(e.aio) : e.aio[j] > Stored[e.file]
Held(e, c) ==
    e.op \in {"READ", "CLOSE", "FINISH"} =>
        /\ "beginWrite" \notin Failure => Unskipped(e)
        /\ Unskipped(e) => c = From(0, e.transfers) /\ (InLine(e) \/ Exhausted(e))

Copied == \A i \in 1 .. Len(files) : Held(files[i], content[files[i].file])

(* If what is received can be written and no answer is short before the end *)
(* of the source, and if writes are asked for without error or no local     *)
(* file is longer than it was listed, a transfer that is shown as finished  *)
(* has copied the whole file, in order.                                     *)
THEOREM CopiesComplete ==
    ASSUME "write" \notin Failure, "short" \notin Failure,
           "beginWrite" \notin Failure \/ \A t \in Upload : Stored[t] <= Size[t]
    PROVE  Spec => []FinishIsComplete
  <1>1. Init => Copied /\ FinishIsComplete
    BY DEF Init, Copied, FinishIsComplete
  <1>3. \A m, k \in Nat : /\ From(m, k) \in Seq(Nat) /\ Len(From(m, k)) = k
                          /\ \A j \in 1 .. k : From(m, k)[j] = m + j
    <2> SUFFICES ASSUME NEW m \in Nat, NEW k \in Nat
                 PROVE  /\ From(m, k) \in Seq(Nat) /\ Len(From(m, k)) = k
                        /\ \A j \in 1 .. k : From(m, k)[j] = m + j
      OBVIOUS
    <2>1. From(m, k) = [j \in 1 .. k |-> m + j] /\ \A j \in 1 .. k : m + j \in Nat
      BY DEF From
    <2>2. From(m, k) \in [1 .. k -> Nat]
      BY <2>1
    <2> QED  BY <2>1, <2>2
  (* Requests made by a reader of which the rest q is under way. *)
  <1>4. ASSUME NEW e \in Reader, NEW q \in Seq(Nat), NEW n \in Nat, NEW g, Asks(e, q, n, g),
               Counts(g), Unskipped(g), g.transfers <= Stored[e.file],
               e.requests = g.transfers + Len(q), \A j \in 1 .. Len(q) : q[j] = g.transfers + j
        PROVE  InLine(g)
    <2>1. PICK T \in Nat, L \in Nat, R \in Nat, S \in Nat, Z \in Nat :
             T = g.transfers /\ L = Len(q) /\ R = e.requests /\ S = Stored[e.file] /\ Z = Size[e.file]
      <3>1. g \in Reader
        BY <1>4 DEF Asks
      <3>2. g.transfers \in Nat /\ e.requests \in Nat /\ e.file \in Transfer /\ Len(q) \in Nat
        BY <3>1 DEF Reader
      <3>3. Stored[e.file] \in Nat /\ Size[e.file] \in Nat
        BY <3>2, TransferAssumption
      <3> QED  BY <3>2, <3>3
    <2>2. /\ g.file = e.file /\ Unskipped(e) /\ Len(g.aio) = L + n
          /\ \A j \in 1 .. L : g.aio[j] = q[j]
          /\ \A j \in 1 .. n : g.aio[L + j] = Next1(e) + j
      BY <1>4, <2>1 DEF Asks, Joined
    <2>3. Next1(e) = R
      BY <2>1, <2>2 DEF Next1, Unskipped
    <2>4. R = T + L /\ T <= S /\ T + (L + n) <= Z
      BY <1>4, <2>1, <2>2 DEF Counts
    <2>5. g.requests = R + n
      <3>1. MinOf(R + n, Z + S) = R + n
        BY <2>4 DEF MinOf
      <3> QED  BY <1>4, <2>1, <3>1 DEF Asks
    <2>6. ASSUME NEW j \in 1 .. L + n
          PROVE  g.aio[j] = T + j
      <3>1. CASE j <= L
        BY <1>4, <2>1, <2>2, <3>1
      <3>2. CASE ~(j <= L)
        <4>1. j - L \in 1 .. n /\ L + (j - L) = j
          BY <3>2
        <4>2. g.aio[L + (j - L)] = R + (j - L)
          BY <2>2, <2>3, <4>1
        <4>3. R + (j - L) = T + j
          BY <2>4, <3>2
        <4> QED  BY <4>1, <4>2, <4>3
      <3> QED  BY <3>1, <3>2
    <2>7. g.requests = T + (L + n)
      BY <2>4, <2>5
    <2> QED  BY <2>1, <2>2, <2>4, <2>6, <2>7 DEF InLine
  <1>5. ASSUME NEW e \in Reader, NEW q \in Seq(Nat), NEW n \in Nat, NEW g, Asks(e, q, n, g),
               e.file \notin Upload, g.transfers = Stored[e.file],
               e.requests >= Stored[e.file], \A j \in 1 .. Len(q) : q[j] > Stored[e.file]
        PROVE  Exhausted(g)
    <2>1. PICK L \in Nat, R \in Nat, S \in Nat, Z \in Nat :
             L = Len(q) /\ R = e.requests /\ S = Stored[e.file] /\ Z = Size[e.file]
      BY <1>5, TransferAssumption DEF Reader
    <2>2. /\ g.file = e.file /\ Len(g.aio) = L + n
          /\ \A j \in 1 .. L : g.aio[j] = q[j]
          /\ \A j \in 1 .. n : g.aio[L + j] = R + j
      BY <1>5, <2>1 DEF Asks, Joined, Next1
    <2>3. g.requests >= S
      <3>1. MinOf(R + n, Z + S) >= S
        BY <1>5, <2>1 DEF MinOf
      <3> QED  BY <1>5, <2>1, <3>1 DEF Asks
    <2>4. ASSUME NEW j \in 1 .. L + n
          PROVE  g.aio[j] > S
      <3>1. CASE j <= L
        <4>1. j \in 1 .. L /\ j \in 1 .. Len(q)
          BY <2>1, <3>1
        <4> QED  BY <1>5, <2>1, <2>2, <4>1
      <3>2. CASE ~(j <= L)
        <4>1. j - L \in 1 .. n /\ L + (j - L) = j
          BY <3>2
        <4>2. g.aio[L + (j - L)] = R + (j - L)
          BY <2>2, <4>1
        <4>3. R + (j - L) > S
          BY <1>5, <2>1, <4>1
        <4> QED  BY <4>1, <4>2, <4>3
      <3> QED  BY <3>1, <3>2
    <2> QED  BY <1>5, <2>1, <2>2, <2>3, <2>4 DEF Exhausted
  (* Answers in full continue what is copied; the first other one ends it. *)
  <1>6. ASSUME NEW e \in Reader, Counted(e), NEW a \in Answers(e), NEW g, ReadTo(e, a, g), Unskipped(g),
               NEW c, c = From(0, e.transfers), InLine(e) \/ Exhausted(e)
        PROVE  c \o SubSeq(e.aio, 1, a.got) = From(0, g.transfers) /\ (InLine(g) \/ Exhausted(g))
    <2> DEFINE q == SubSeq(e.aio, a.k + 1, Len(e.aio))
    <2>1. PICK T \in Nat, L \in Nat, R \in Nat, S \in Nat, k \in Nat, o \in Nat :
             /\ T = e.transfers /\ L = Len(e.aio) /\ R = e.requests /\ S = Stored[e.file]
             /\ k = a.k /\ o = a.got /\ k <= L /\ o <= k
      <3>1. /\ e.transfers \in Nat /\ Len(e.aio) \in Nat /\ e.requests \in Nat /\ Stored[e.file] \in Nat
            /\ a.k \in 0 .. Len(e.aio) /\ a.got \in 0 .. a.k
        BY <1>6, TransferAssumption DEF Reader, ReadTo
      <3>2. a.k \in Nat /\ a.got \in Nat /\ a.k <= Len(e.aio) /\ a.got <= a.k
        BY <3>1
      <3> QED  BY <3>1, <3>2
    <2>2. /\ e.aio \in Seq(Nat) /\ g.transfers = T + o /\ Counts(g) /\ g.file = e.file
          /\ \A j \in 1 .. L : e.aio[j] \in Nat
      BY <1>6, <2>1, ElementOfSeq DEF Reader, ReadTo, Counted, Asks
    <2>3. /\ \A j \in 1 .. o : e.file \in Upload \/ e.aio[j] <= S
          /\ \A j \in o + 1 .. k : e.file \notin Upload /\ e.aio[j] > S
      BY <1>6, <2>1 DEF Answers
    <2>4. q \in Seq(Nat) /\ Len(q) = L - k /\ \A j \in 1 .. L - k : q[j] = e.aio[k + j]
      <3>1. \A j \in k + 1 .. L : e.aio[j] \in Nat
        BY <2>1, <2>2
      <3>2. /\ SubSeq(e.aio, k + 1, L) \in Seq(Nat) /\ Len(SubSeq(e.aio, k + 1, L)) = L - k
            /\ \A j \in 1 .. L - k : SubSeq(e.aio, k + 1, L)[j] = e.aio[k + j]
        <4>1. k <= L /\ e.aio \in Seq(Nat) /\ L = Len(e.aio)
          BY <2>1, <2>2
        <4>2. k + 1 \in 1 .. L + 1 /\ L \in k .. L
          BY <4>1
        <4>3. \A j \in 1 .. L - k : (k + 1) + j - 1 = k + j
          OBVIOUS
        <4> QED  BY <3>1, <4>1, <4>2, <4>3, SubSeqProperties
      <3> QED  BY <2>1, <3>2
    <2>5. PICK n \in Nat : Asks(e, q, n, g)
      BY <1>6 DEF ReadTo
    <2> HIDE DEF q
    <2>6. SubSeq(e.aio, 1, o) \in Seq(Nat) /\ Len(SubSeq(e.aio, 1, o)) = o
          /\ \A j \in 1 .. o : SubSeq(e.aio, 1, o)[j] = e.aio[j]
      <3>1. \A j \in 1 .. o : e.aio[j] \in Nat
        BY <2>1, <2>2
      <3>2. /\ o = (IF 1 <= o THEN o - 1 + 1 ELSE 0) /\ 1 \in Int /\ o \in Int
            /\ o - 1 + 1 = o /\ \A j \in 1 .. o : 1 + j - 1 = j
        OBVIOUS
      <3> QED  BY <3>1, <3>2, SubSeqProperties
    <2>7. CASE InLine(e)
      <3>1. R = T + L /\ T <= S /\ \A j \in 1 .. L : e.aio[j] = T + j
        BY <2>1, <2>7 DEF InLine
      <3>2. c \o SubSeq(e.aio, 1, o) = From(0, T + o)
        <4> DEFINE p == SubSeq(e.aio, 1, o)
        <4>1. c \in Seq(Nat) /\ Len(c) = T /\ \A j \in 1 .. T : c[j] = j
          <5>1. c = From(0, T) /\ 0 \in Nat
            BY <1>6, <2>1
          <5>2. \A j \in 1 .. T : 0 + j = j
            OBVIOUS
          <5> QED  BY <1>3, <5>1, <5>2
        <4>2. p \in Seq(Nat) /\ Len(p) = o /\ \A j \in 1 .. o : p[j] = T + j
          <5>1. \A j \in 1 .. o : j \in 1 .. L
            BY <2>1
          <5>2. p \in Seq(Nat) /\ Len(p) = o /\ \A j \in 1 .. o : p[j] = e.aio[j]
            BY <2>6
          <5> HIDE DEF p
          <5> QED  BY <3>1, <5>1, <5>2
        <4> HIDE DEF p
        <4>3. /\ c \o p \in Seq(Nat) /\ Len(c \o p) = T + o
              /\ \A j \in 1 .. T + o : (c \o p)[j] = IF j <= T THEN c[j] ELSE p[j - T]
          <5>1. c \in Seq(Nat) /\ p \in Seq(Nat) /\ Len(c) = T /\ Len(p) = o
            BY <4>1, <4>2
          <5> QED  BY <5>1, ConcatProperties
        <4>4. /\ From(0, T + o) \in Seq(Nat) /\ Len(From(0, T + o)) = T + o
              /\ \A j \in 1 .. T + o : From(0, T + o)[j] = j
          <5>1. T + o \in Nat /\ 0 \in Nat /\ \A j \in 1 .. T + o : 0 + j = j
            OBVIOUS
          <5> QED  BY <1>3, <5>1
        <4>5. ASSUME NEW j \in 1 .. T + o
              PROVE  (c \o p)[j] = From(0, T + o)[j]
          <5>1. CASE j <= T
            BY <4>1, <4>3, <4>4, <5>1
          <5>2. CASE ~(j <= T)
            <6>1. j - T \in 1 .. o /\ T + (j - T) = j
              BY <5>2
            <6> QED  BY <4>2, <4>3, <4>4, <5>2, <6>1
          <5> QED  BY <5>1, <5>2
        <4> QED  BY <4>3, <4>4, <4>5, SeqEqual DEF p
      <3>3. T + o <= S
        <4>1. CASE o = 0
          BY <3>1, <4>1
        <4>2. CASE o # 0 /\ e.file \notin Upload
          <5>1. o \in 1 .. o /\ o \in 1 .. L
            BY <2>1, <4>2
          <5> QED  BY <2>3, <3>1, <4>2, <5>1
        <4>3. CASE e.file \in Upload
          <5>1. PICK d \in Nat : d = e.local
            BY <1>6 DEF Reader
          <5>2. R <= d /\ d <= S
            BY <1>6, <2>1, <4>3, <5>1 DEF Counted, Counts
          <5>3. o <= L /\ R = T + L
            BY <2>1, <3>1
          <5> QED  BY <5>2, <5>3
        <4> QED  BY <4>1, <4>2, <4>3
      <3>4. CASE o = k
        <4>1. R = (T + o) + (L - k) /\ \A j \in 1 .. L - k : q[j] = (T + o) + j
          <5>1. \A j \in 1 .. L - k : k + j \in 1 .. L
            BY <2>1
          <5>2. \A j \in 1 .. L - k : q[j] = T + (k + j)
            BY <2>4, <3>1, <5>1
          <5>3. R = (T + o) + (L - k)
            BY <2>1, <3>1, <3>4
          <5>4. \A j \in 1 .. L - k : T + (k + j) = (T + o) + j
            BY <2>1, <3>4
          <5> QED  BY <5>2, <5>3, <5>4
        <4>2. InLine(g)
          BY <1>4, <1>6, <2>1, <2>2, <2>4, <2>5, <3>3, <4>1
        <4> QED  BY <2>1, <2>2, <3>2, <4>2
      <3>5. CASE o # k
        <4>1. o + 1 \in o + 1 .. k /\ o + 1 \in 1 .. L
          BY <2>1, <3>5
        <4>2. e.file \notin Upload /\ T + (o + 1) > S
          BY <2>3, <3>1, <4>1
        <4>3. T + o = S /\ R >= S
          <5>1. o <= L /\ R = T + L
            BY <2>1, <3>1
          <5> QED  BY <3>3, <4>2, <5>1
        <4>4. ASSUME NEW j \in 1 .. L - k
              PROVE  q[j] > S
          <5>1. k + j \in 1 .. L /\ T + (k + j) > S
            <6>1. k <= L /\ o <= k
              BY <2>1
            <6> QED  BY <4>3, <6>1
          <5> QED  BY <2>4, <3>1, <5>1
        <4>5. Exhausted(g)
          BY <1>5, <2>1, <2>2, <2>4, <2>5, <4>2, <4>3, <4>4
        <4> QED  BY <2>1, <2>2, <3>2, <4>5
      <3> QED  BY <3>4, <3>5
    <2>8. CASE Exhausted(e)
      <3>1. e.file \notin Upload /\ T = S /\ R >= S /\ \A j \in 1 .. L : e.aio[j] > S
        BY <2>1, <2>8 DEF Exhausted
      <3>2. o = 0
        <4> SUFFICES ASSUME o # 0 PROVE FALSE
          OBVIOUS
        <4>1. 1 \in 1 .. o /\ 1 \in 1 .. L
          BY <2>1
        <4>2. e.aio[1] <= S /\ e.aio[1] > S /\ e.aio[1] \in Nat
          BY <2>2, <2>3, <3>1, <4>1
        <4> QED  BY <4>2
      <3>3. g.transfers = S /\ g.transfers = T
        BY <2>2, <3>1, <3>2
      <3>4. ASSUME NEW j \in 1 .. L - k
            PROVE  q[j] > S
        <4>1. k + j \in 1 .. L
          BY <2>1
        <4> QED  BY <2>4, <3>1, <4>1
      <3>5. Exhausted(g)
        BY <1>5, <2>1, <2>4, <2>5, <3>1, <3>3, <3>4
      <3>6. c \o SubSeq(e.aio, 1, o) = c
        <4>1. SubSeq(e.aio, 1, o) = <<>>
          BY <2>6, <3>2
        <4>2. c \in Seq(Nat)
          <5>1. c = From(0, T) /\ 0 \in Nat
            BY <1>6, <2>1
          <5> QED  BY <1>3, <5>1
        <4> QED  BY <4>1, <4>2, ConcatEmptySeq
      <3> QED  BY <1>6, <2>1, <3>3, <3>5, <3>6
    <2> QED  BY <1>6, <2>7, <2>8
  <1>2. ASSUME TypeOK, Counting, Single, Copied, FinishIsComplete, [Next]_vars
        PROVE  Copied' /\ FinishIsComplete'
    <2>1. /\ state \in [Transfer -> Working \cup CanStart \cup {"Finish"}]
          /\ content \in [Transfer -> Seq(Nat)]
          /\ queue \in Seq(Command) /\ files \in Seq(Reader)
      BY <1>2 DEF TypeOK, Command, Reader
    <2>2. \A i \in 1 .. Len(files) : /\ files[i] \in Reader /\ files[i].file \in Transfer
                                     /\ Counted(files[i]) /\ state[files[i].file] # "Finish"
      <3>1. \A i \in 1 .. Len(files) : files[i] \in Reader
        BY <2>1, ElementOfSeq
      <3>2. \A e \in Reader : e.file \in Transfer
        BY DEF Reader
      <3>3. \A i \in 1 .. Len(files) : state[files[i].file] \in Working
        BY <1>2, <3>1, <3>2 DEF Single, Reads, Has
      <3> QED  BY <1>2, <3>1, <3>2, <3>3 DEF Counting, Working
    <2>3. \A i, j \in 1 .. Len(files) : files[i].file = files[j].file => i = j
      BY <1>2, <2>2 DEF Single, OneReader, Has
    <2>4. \A i \in 1 .. Len(files) : Held(files[i], content[files[i].file])
      BY <1>2 DEF Copied
    <2>5. (\A j \in 1 .. Len(files') : Held(files'[j], content'[files'[j].file])) => Copied'
      BY DEF Copied, Held, Unskipped, InLine, Exhausted
    <2>6. ASSUME UNCHANGED content, \A t \in Transfer : state'[t] = "Finish" => state[t] = "Finish"
          PROVE  FinishIsComplete'
      BY <1>2, <2>6 DEF FinishIsComplete
    <2>7. ASSUME UNCHANGED <<files, content>>
          PROVE  Copied'
      BY <2>4, <2>5, <2>7
    <2>8. \A t \in Transfer : \A s : SetState(t, s) => \A u \in Transfer : state'[u] = IF u = t THEN s ELSE state[u]
      BY <2>1 DEF SetState
    <2>9. CASE UNCHANGED vars \/ Connect \/ ProcessFails
      BY <2>6, <2>7, <2>9 DEF vars, Connect, ProcessFails
    <2>21. CASE OnStop
      <3>1. Len(files') = 0 /\ UNCHANGED <<state, content>>
        BY <2>21 DEF OnStop
      <3> QED  BY <2>5, <2>6, <3>1
    <2>10. ASSUME NEW t \in Transfer, ClickStart(t) \/ ClickStop(t) \/ ClickAgain(t)
           PROVE  Copied' /\ FinishIsComplete'
      <3>1. UNCHANGED <<files, content>>
        BY <2>10 DEF ClickStart, ClickStop, ClickAgain
      <3>2. \A u \in Transfer : state'[u] = "Finish" => state[u] = "Finish"
        BY <2>1, <2>10 DEF ClickStart, ClickStop, ClickAgain, Start
      <3> QED  BY <2>6, <2>7, <3>1, <3>2
    <2>11. CASE SlotStart
      <3> DEFINE t == Head(queue).file
                 e == [file |-> t, op |-> "OPEN", aio |-> <<>>, transfers |-> 0, requests |-> 0, local |-> 0]
      <3>1. t \in Transfer
        BY <2>1, <2>11, QueueFacts DEF SlotStart
      <3>2. SetState(t, "Opening") /\ files' = Append(files, e) /\ UNCHANGED content
        BY <2>11 DEF SlotStart
      <3> HIDE DEF t
      <3>3. e \in Reader /\ Held(e, content[e.file])
        BY <3>1 DEF Reader, Steps, Held
      <3> HIDE DEF e
      <3>4. \A j \in 1 .. Len(files') : files'[j] = e \/ \E k \in 1 .. Len(files) : files'[j] = files[k]
        BY <2>1, <3>2, <3>3, FileFacts
      <3>5. Copied'
        BY <2>4, <2>5, <3>2, <3>3, <3>4
      <3>6. FinishIsComplete'
        BY <2>6, <2>8, <3>1, <3>2
      <3> QED  BY <3>5, <3>6
    (* A reader is removed. *)
    <2>12. ASSUME NEW i \in 1 .. Len(files), files' = RemoveAt(files, i), UNCHANGED content
           PROVE  Copied'
      <3>1. \A j \in 1 .. Len(files') : \E k \in 1 .. Len(files) : k # i /\ files'[j] = files[k]
        BY <2>1, <2>12, FileFacts
      <3> QED  BY <2>4, <2>5, <2>12, <3>1
    <2>13. CASE SlotStop
      <3> DEFINE t == Head(queue).file
                 i == SelectInSeq(files, LAMBDA e : e.file = t)
      <3>1. t \in Transfer /\ UNCHANGED content
        BY <2>1, <2>13, QueueFacts DEF SlotStop
      <3>2. CASE i = 0
        <4>1. UNCHANGED <<state, files>>
          BY <2>13, <3>2 DEF SlotStop
        <4> QED  BY <2>6, <2>7, <3>1, <4>1
      <3>3. CASE i # 0
        <4>1. SetState(t, "Stop") /\ files' = RemoveAt(files, i)
          BY <2>13, <3>3 DEF SlotStop
        <4>2. i \in 1 .. Len(files)
          <5> DEFINE I == {j \in 1 .. Len(files) : files[j].file = t}
          <5>1. I # {} /\ i = Min(I)
            BY <3>3 DEF SelectInSeq
          <5>2. PICK j \in I : TRUE
            BY <5>1
          <5>3. I = {j}
            BY <2>3
          <5>4. j \in Nat /\ j <= j
            OBVIOUS
          <5> HIDE DEF I
          <5>5. Min(I) = j
            BY <5>3, <5>4 DEF Min
          <5> QED  BY <5>1, <5>2, <5>5 DEF I
        <4>3. Copied'
          BY <2>12, <3>1, <4>1, <4>2
        <4>4. FinishIsComplete'
          <5> HIDE DEF t
          <5> QED  BY <2>6, <2>8, <3>1, <4>1
        <4> QED  BY <4>3, <4>4
      <3> QED  BY <3>2, <3>3
    (* A reader changes, with what its file holds. *)
    <2>14. ASSUME NEW i \in 1 .. Len(files), NEW e \in Reader, e.file = files[i].file, SetFile(i, e),
                  \A t \in Transfer : t # e.file => content'[t] = content[t],
                  Held(e, content'[e.file]),
                  UNCHANGED state \/ \E s \in Working : SetState(e.file, s)
           PROVE  Copied' /\ FinishIsComplete'
      <3>1. /\ Len(files') = Len(files)
            /\ \A j \in 1 .. Len(files) : files'[j] = IF j = i THEN e ELSE files[j]
        BY <2>1, <2>14, FileFacts
      <3>2. Copied'
        <4> SUFFICES ASSUME NEW j \in 1 .. Len(files') PROVE Held(files'[j], content'[files'[j].file])
          BY <2>5
        <4>1. CASE j = i
          BY <2>14, <3>1, <4>1
        <4>2. CASE j # i
          BY <2>2, <2>3, <2>4, <2>14, <3>1, <4>2
        <4> QED  BY <4>1, <4>2
      <3>3. FinishIsComplete'
        <4> SUFFICES ASSUME NEW t \in Transfer, state'[t] = "Finish" PROVE content'[t] = From(0, Size[t])
          BY DEF FinishIsComplete
        <4>1. t # e.file /\ state[t] = "Finish"
          BY <2>2, <2>8, <2>14 DEF Working
        <4> QED  BY <1>2, <2>14, <4>1 DEF FinishIsComplete
      <3> QED  BY <3>2, <3>3
    <2>15. ASSUME NEW i \in 1 .. Len(files), Open(i)
           PROVE  Copied' /\ FinishIsComplete'
      <3> DEFINE e == files[i]
      <3>1. e \in Reader /\ Counted(e) /\ e.op = "OPEN" /\ e.file \in Transfer
        BY <2>2, <2>15 DEF Open
      <3>2. \A t \in Transfer : t # e.file => content'[t] = content[t]
        BY <2>1, <2>15 DEF Open
      <3>3. CASE SetFile(i, [e EXCEPT !.op = "ERR"]) /\ UNCHANGED state
        <4>1. /\ [e EXCEPT !.op = "ERR"] \in Reader /\ [e EXCEPT !.op = "ERR"].file = e.file
              /\ [e EXCEPT !.op = "ERR"].op = "ERR"
          BY <3>1 DEF Reader, Steps
        <4> QED  BY <2>14, <3>2, <3>3, <4>1 DEF Held
      <3>4. CASE /\ \E f \in Asked([e EXCEPT !.op = "READ"], MinOf(Concurrent, Size[e.file])) : SetFile(i, f)
                 /\ content' = [content EXCEPT ![e.file] = <<>>]
                 /\ SetState(e.file, "Transferring")
        <4>1. PICK f \in Asked([e EXCEPT !.op = "READ"], MinOf(Concurrent, Size[e.file])) : SetFile(i, f)
          BY <3>4
        <4>2. /\ f.op = "READ" /\ Counted(f) /\ f.transfers = 0 /\ e.requests = 0 /\ Unskipped(e)
              /\ \E n \in Nat : Asks(e, <<>>, n, f)
          BY <3>1, OpenFacts
        <4>3. PICK n \in Nat : Asks(e, <<>>, n, f)
          BY <4>2
        <4>4. f \in Reader /\ f.file = e.file /\ ("beginWrite" \notin Failure => Unskipped(f))
          BY <4>2, <4>3 DEF Asks
        <4>5. content'[f.file] = From(0, f.transfers)
          BY <2>1, <3>1, <3>4, <4>2, <4>4 DEF From
        <4>6. ASSUME Unskipped(f)
              PROVE  InLine(f)
          <5>1. <<>> \in Seq(Nat) /\ Len(<<>>) = 0 /\ Stored[e.file] \in Nat
            BY <3>1, TransferAssumption
          <5>2. f.transfers <= Stored[e.file] /\ Counts(f)
            BY <4>2, <5>1 DEF Counted
          <5>3. \A j \in 1 .. Len(<<>>) : <<>>[j] = f.transfers + j
            BY <5>1
          <5>4. e.requests = f.transfers + Len(<<>>) /\ <<>> \in Seq(Nat)
            BY <4>2, <5>1
          <5> HIDE DEF e
          <5> QED  BY <1>4, <3>1, <4>3, <4>6, <5>2, <5>3, <5>4
        <4>7. Held(f, content'[f.file])
          BY <4>4, <4>5, <4>6 DEF Held
        <4> QED  BY <2>14, <3>2, <3>4, <4>1, <4>4, <4>7 DEF Working
      <3> QED  BY <2>15, <3>3, <3>4 DEF Open
    <2>16. ASSUME NEW i \in 1 .. Len(files), Read(i)
           PROVE  Copied' /\ FinishIsComplete'
      <3> DEFINE e == files[i]
                 next(a) == IF e.file \in Upload THEN AfterWrite(Answered(e, a), a.k)
                                                ELSE AfterRead(Answered(e, a))
      <3>1. e \in Reader /\ Counted(e) /\ e.op = "READ" /\ e.file \in Transfer /\ UNCHANGED state
        BY <2>2, <2>16 DEF Read
      <3>2. PICK a \in Answers(e) :
              /\ \E f \in next(a) : SetFile(i, f)
              /\ content' = [content EXCEPT ![e.file] =
                               @ \o SubSeq(e.aio, 1, IF a.why = "write" THEN a.got - 1 ELSE a.got)]
        BY <2>16 DEF Read
      <3>3. PICK g \in next(a) : SetFile(i, g)
        BY <3>2
      <3>4. ReadTo(e, a, g)
        <4>1. g \in IF e.file \in Upload THEN AfterWrite(Answered(e, a), a.k)
                                          ELSE AfterRead(Answered(e, a))
          OBVIOUS
        <4> HIDE DEF e, next
        <4> QED  BY <3>1, <4>1, ReadFacts
      <3>5. a.why # "write"
        BY DEF Answers
      <3>6. content' = [content EXCEPT ![e.file] = content[e.file] \o SubSeq(e.aio, 1, a.got)]
        BY <3>2, <3>5
      <3> HIDE DEF e, next
      <3>7. PICK n \in Nat : Asks(e, SubSeq(e.aio, a.k + 1, Len(e.aio)), n, g)
        BY <3>4 DEF ReadTo
      <3>8. /\ g \in Reader /\ g.file = e.file
            /\ Unskipped(g) => Unskipped(e)
            /\ "beginWrite" \notin Failure /\ Unskipped(e) => Unskipped(g)
        BY <3>7 DEF Asks
      <3>9. /\ content'[e.file] = content[e.file] \o SubSeq(e.aio, 1, a.got)
            /\ \A t \in Transfer : t # e.file => content'[t] = content[t]
        BY <2>1, <3>1, <3>6
      <3>10. /\ "beginWrite" \notin Failure => Unskipped(e)
             /\ Unskipped(e) => content[e.file] = From(0, e.transfers) /\ (InLine(e) \/ Exhausted(e))
        BY <2>4, <3>1 DEF Held, e
      <3>11. ASSUME Unskipped(g)
             PROVE  content'[e.file] = From(0, g.transfers) /\ (InLine(g) \/ Exhausted(g))
        <4>1. content[e.file] = From(0, e.transfers) /\ (InLine(e) \/ Exhausted(e))
          BY <3>8, <3>10, <3>11
        <4>2. /\ content[e.file] \o SubSeq(e.aio, 1, a.got) = From(0, g.transfers)
              /\ InLine(g) \/ Exhausted(g)
          BY <1>6, <3>1, <3>4, <3>11, <4>1
        <4> QED  BY <3>9, <4>2
      <3>12. Held(g, content'[g.file])
        BY <3>8, <3>10, <3>11 DEF Held
      <3> QED  BY <2>14, <3>1, <3>3, <3>8, <3>9, <3>12 DEF e
    <2>17. ASSUME NEW i \in 1 .. Len(files), Close(i)
           PROVE  Copied' /\ FinishIsComplete'
      <3> DEFINE e == [files[i] EXCEPT !.op = "FINISH"]
      <3>1. /\ e \in Reader /\ e.file = files[i].file /\ e.aio = files[i].aio
            /\ e.requests = files[i].requests /\ e.local = files[i].local
            /\ e.transfers = files[i].transfers
        BY <2>2 DEF Reader, Steps
      <3>2. SetFile(i, e) /\ SetState(files[i].file, "Closing") /\ UNCHANGED content /\ files[i].op = "CLOSE"
        BY <2>17 DEF Close
      <3> HIDE DEF e
      <3>3. Held(e, content[e.file])
        BY <2>4, <3>1, <3>2 DEF Held, Unskipped, InLine, Exhausted
      <3> QED  BY <2>14, <3>1, <3>2, <3>3 DEF Working
    <2>18. ASSUME NEW i \in 1 .. Len(files), Finish(i)
           PROVE  Copied' /\ FinishIsComplete'
      <3> DEFINE e == files[i]
      <3>1. e.op = "FINISH" /\ files' = RemoveAt(files, i) /\ SetState(e.file, "Finish") /\ UNCHANGED content
        BY <2>18 DEF Finish
      <3>2. /\ e.file \in Transfer /\ e.aio \in Seq(Nat) /\ e.transfers \in Nat /\ e.requests \in Nat
            /\ e.local \in Nat /\ Size[e.file] \in Nat /\ Len(e.aio) \in Nat
        BY <2>2, TransferAssumption DEF Reader
      <3>3. e.transfers = Size[e.file] /\ Held(e, content[e.file])
        BY <2>2, <2>4, <3>1 DEF Counted
      <3>4. Unskipped(e)
        <4>1. CASE "beginWrite" \notin Failure
          BY <3>1, <3>3, <4>1 DEF Held
        <4>2. ASSUME e.file \in Upload, Stored[e.file] <= Size[e.file]
              PROVE  e.local = e.requests
          <5>1. PICK T \in Nat, L \in Nat, R \in Nat, d \in Nat, S \in Nat :
                   T = e.transfers /\ L = Len(e.aio) /\ R = e.requests /\ d = e.local /\ S = Stored[e.file]
            BY <3>2, TransferAssumption
          <5>2. T + L = R /\ R <= d /\ d <= S /\ S <= T
            BY <2>2, <3>3, <4>2, <5>1 DEF Counted, Counts
          <5> QED  BY <5>1, <5>2
        <4> QED  BY <4>1, <4>2 DEF Unskipped
      <3>5. content[e.file] = From(0, Size[e.file])
        BY <3>1, <3>3, <3>4 DEF Held
      <3>6. FinishIsComplete'
        <4> SUFFICES ASSUME NEW t \in Transfer, state'[t] = "Finish" PROVE content'[t] = From(0, Size[t])
          BY DEF FinishIsComplete
        <4> QED  BY <1>2, <2>8, <3>1, <3>2, <3>5 DEF FinishIsComplete
      <3> QED  BY <2>12, <3>1, <3>6
    <2>19. ASSUME NEW i \in 1 .. Len(files), Fail(i)
           PROVE  Copied' /\ FinishIsComplete'
      BY <2>2, <2>6, <2>8, <2>12, <2>19 DEF Fail
    <2>20. ASSUME NEW t \in Transfer, Async(t)
           PROVE  Copied' /\ FinishIsComplete'
      BY <2>15, <2>16, <2>17, <2>18, <2>19, <2>20 DEF Async
    <2> QED  BY <1>2, <2>9, <2>10, <2>11, <2>13, <2>20, <2>21 DEF Next
  <1> QED  BY <1>1, <1>2, TransferSound, PTL DEF Spec
==============================================================================
