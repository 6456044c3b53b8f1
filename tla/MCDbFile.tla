------------------------------ MODULE MCDbFile ------------------------------
(***************************************************************************)
(* Instances of DbFile for TLC.  Words are short numbers: set drops the    *)
(* zeros in front of a text, and takes no text at all for 0.               *)
(***************************************************************************)
EXTENDS DbFile

Words == {"1", "01", "0", ""}
OneWord == {"1", "0", ""}
SentWords == {"01"}
OneSent == {"1"}
WordEncoded == [v \in Vals |-> IF v \in {"1", "01"} THEN "1" ELSE "0"]

(* The text without its zeros in front. *)
WordReread == [t \in Texts |->
    LET ones == {i \in DOMAIN t : t[i] \in {"1", "01"}}
        first == CHOOSE i \in ones : \A j \in ones : i <= j
        kept == << "1" >> \o SubSeq(t, first + 1, Len(t))
    IN IF ones = {} THEN << "0" >> ELSE SelectSeq(kept, LAMBDA v : v # "")]

(* What is left of a word is a beginning of it, of a number below 256 nothing. *)
Beginnings == [v \in Vals |-> IF v = "01" THEN {"", "0"} ELSE {""}]
NumberBeginnings == [t \in Texts |-> {<< "0" >>}]
NoNames == [k \in Keys |-> {}]
PairNames == [k \in Keys |-> IF k = "k1" THEN {"k"} ELSE {}]

MCFileOf == [n \in SaveNames |-> "dump.sdb"]

FileCommands == {"append", "set", "lpush", "hadd", "sadd", "oadd", "odel",
                 "expire", "del", "save", "load"}
PairCommands == {"oadd", "lpush", "expire", "save", "load"}
OsetCommands == {"oadd", "odel", "save", "load"}
NoTtls == {}
MCTtls == {1}
=============================================================================
