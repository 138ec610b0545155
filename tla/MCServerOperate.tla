-------------------------- MODULE MCServerOperate --------------------------
(* Instances of ServerOperate for TLC: the outcomes of OnStart of each kind *)
(* of server.                                                              *)
EXTENDS ServerOperate

FtpOutcomes  == {"listen", "error"}
SftpOutcomes == {"listen", "silent"}
AllListen    == {"listen"}
=============================================================================
