-------------------------------- MODULE MCDb --------------------------------
(***************************************************************************)
(* Instances of Db for TLC.  Half a second per tick, so that a deadline in *)
(* the middle of a second is rounded down; "007" is a word that set stores *)
(* as the integer 7 and gives back as another word.                        *)
(***************************************************************************)
EXTENDS Db

MCVals == {"7", "007"}
MCEncoded == [v \in Vals |-> "7"]
MCNumeric == {"7", "007"}
StringCommands == {"set", "append", "get", "strlen", "getrange"}
ListCommands == {"lpush", "lpop", "lgetall", "llen"}
HashCommands == {"hadd", "hdel", "hgetall"}
SetCommands == {"sadd", "sdel", "sgetall"}
OsetCommands == {"oadd", "odel", "ogetall"}
LifeCommands == {"del", "expire", "pexpire", "object"}
AllCommands == StringCommands \cup ListCommands \cup HashCommands
                 \cup SetCommands \cup OsetCommands \cup LifeCommands

MCTtls == {-2, 0, 2, 4}
MCMilliTtls == {1, 3}
=============================================================================
