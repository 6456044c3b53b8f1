---------------------------- MODULE StringObject ----------------------------
(***************************************************************************)
(* One string object and its two encodings (core/SDBObject.hpp: set,       *)
(* append, print, getStrLen, getRange; util/FileUtil.hpp for an integer    *)
(* that goes through a file).  A text is a sequence of characters, here    *)
(* the digits of a small base, a minus sign and a letter; the integers of  *)
(* a file and the lengths of getRange keep their widths.                   *)
(*                                                                         *)
(* What module Db calls Encoded, and DbFile Reread, is text(set(...)).     *)
(***************************************************************************)
EXTENDS Integers, Sequences

CONSTANTS
    Base,           \* digits are 0 .. Base - 1
    Minus, Letter,  \* the other characters
    Short,          \* set looks only at texts up to this length, 18
    Inputs,         \* the texts clients send
    MaxLen,         \* bound: the longest text append makes
    Widths,         \* the widths a file has for integers, 8, 16, 32 and 64
    SizeWidth,      \* the width of size_t
    Bounds          \* the arguments of getrange

(* b to the n. *)
Power(b, n) == LET p[i \in 0 .. n] == IF i = 0 THEN 1 ELSE b * p[i - 1] IN p[n]

ASSUME BaseAssumption == Base \in Nat \ {0, 1} /\ Short \in Nat \ {0}
ASSUME InputsAssumption ==
    Inputs \subseteq Seq((0 .. Base - 1) \cup {Minus, Letter}) \ {<< >>}
ASSUME WidthsAssumption ==
    /\ Widths \subseteq Nat
    /\ \E w \in Widths : /\ \A v \in Widths : v <= w
                        /\ 2 * Power(Base, Short) <= Power(2, w)
ASSUME SizeAssumption ==
    /\ SizeWidth \in Nat \ {0} /\ MaxLen \in Nat
    /\ MaxLen <= Power(2, SizeWidth - 1) /\ Short < Power(2, SizeWidth - 1)
    /\ Bounds \subseteq -Power(2, SizeWidth - 1) .. (Power(2, SizeWidth - 1) - 1)

VARIABLES
    objtype,    \* null until the first set or append
    enctype,    \* int or raw
    istr, str,  \* the members of the union
    heap,       \* texts allocated and not deleted
    wrote,      \* history: the text clients mean the object to have
    mangled     \* history: a text was set that set does not keep

object == << objtype, enctype, istr, str >>
vars == << object, heap, wrote, mangled >>

Digits == 0 .. Base - 1
Texts == Seq(Digits \cup {Minus, Letter})

(* An integer fits in what the longest numeral can say. *)
StringTypeOK ==
    /\ objtype \in {"null", "string"}
    /\ enctype \in {"int", "raw"}
    /\ istr \in (1 - Power(Base, Short)) .. (Power(Base, Short) - 1)
    /\ str \in Texts
    /\ heap \in Nat
    /\ wrote \in Texts
    /\ mangled \in BOOLEAN

(* CreateStrObject *)
Init ==
    /\ objtype = "null" /\ enctype = "int" /\ istr = 0
    /\ str = << >> /\ heap = 0
    /\ wrote = << >> /\ mangled = FALSE
-----------------------------------------------------------------------------
IsNegative(s) == s[1] = Minus
Unsigned(s) == IF IsNegative(s) THEN Tail(s) ELSE s

(* set's loop, which a minus sign alone passes too. *)
IsNumber(s) == \A i \in DOMAIN Unsigned(s) : Unsigned(s)[i] \in Digits

Value(s) ==
    LET u == Unsigned(s)
        res[i \in 0 .. Len(u)] == IF i = 0 THEN 0 ELSE res[i - 1] * Base + u[i]
    IN IF IsNegative(s) THEN 0 - res[Len(u)] ELSE res[Len(u)]

(* std::to_string *)
Magnitude(n) == IF n < 0 THEN 0 - n ELSE n
Numeral(n) ==
    LET width == CHOOSE k \in 1 .. Short :
                    /\ Magnitude(n) < Power(Base, k)
                    /\ k > 1 => Magnitude(n) >= Power(Base, k - 1)
        digits == [i \in 1 .. width |->
                     (Magnitude(n) \div Power(Base, width - i)) % Base]
    IN IF n < 0 THEN << Minus >> \o digits ELSE digits

(* What print prints. *)
text == IF enctype = "int" THEN Numeral(istr) ELSE str
-----------------------------------------------------------------------------
(* The union holds an integer, or a text of its own on the heap; what was on *)
(* the heap before is deleted.                                               *)
Owns == IF enctype = "raw" THEN 1 ELSE 0

(* Bug: a text that makes room for an integer is not deleted. *)
leaksText(n) ==
    /\ objtype' = "string" /\ enctype' = "int" /\ istr' = n /\ str' = << >>
    /\ UNCHANGED heap

HoldInteger(n) ==
    /\ objtype' = "string" /\ enctype' = "int" /\ istr' = n /\ str' = << >>
    /\ heap' = heap - Owns

HoldText(s) ==
    /\ objtype' = "string" /\ enctype' = "raw" /\ istr' = 0 /\ str' = s
    /\ heap' = heap - Owns + 1

(* A text that is longer than 18 stays the number 0 that res began as. *)
set(s) ==
    IF Len(s) > Short THEN HoldInteger(0)
    ELSE IF IsNumber(s) THEN HoldInteger(Value(s)) ELSE HoldText(s)

(* The texts that set keeps: not too long, and no numeral but the one that   *)
(* is printed for its number.                                                *)
Kept(s) == Len(s) <= Short /\ (IsNumber(s) => s = Numeral(Value(s)))

Meant(s) ==
    /\ mangled' = ~Kept(s)
    /\ wrote' = IF Kept(s) THEN s ELSE << >>

doSset(s) == set(s) /\ Meant(s)

(* Bug: an integer is forgotten when it becomes a text. *)
dropsInteger == IF enctype = "int" THEN << >> ELSE str

(* What append appends to. *)
Before == IF objtype = "null" THEN << >> ELSE text

doAppend(s) ==
    /\ Len(Before) + Len(s) <= MaxLen
    /\ HoldText(Before \o s)
    /\ wrote' = IF mangled THEN << >> ELSE wrote \o s
    /\ UNCHANGED mangled

(* The key is deleted and created again. *)
doDel ==
    /\ objtype' = "null" /\ enctype' = "int" /\ istr' = 0 /\ str' = << >>
    /\ heap' = heap - Owns
    /\ wrote' = << >> /\ mangled' = FALSE
-----------------------------------------------------------------------------
(* An integer is written unsigned, in as few bytes as it needs, and read     *)
(* back into a long (saveInteger, loadInteger).                              *)
LongWidth == CHOOSE w \in Widths : \A v \in Widths : v <= w
Wide(n) == n % Power(2, LongWidth)

getIntegerEncoding(data) == CHOOSE w \in Widths :
    data <= Power(2, w) - 1 /\ \A v \in Widths : data <= Power(2, v) - 1 => w <= v

saveInteger(n) ==
    [width |-> getIntegerEncoding(Wide(n)),
     bits |-> Wide(n) % Power(2, getIntegerEncoding(Wide(n)))]

loadInteger(f) ==
    IF f.width = LongWidth /\ f.bits >= Power(2, LongWidth - 1)
    THEN f.bits - Power(2, LongWidth) ELSE f.bits

(* The object goes into a file and comes back: a text is set once more. *)
reload ==
    /\ objtype = "string"
    /\ IF enctype = "int"
       THEN HoldInteger(loadInteger(saveInteger(istr))) /\ UNCHANGED << wrote, mangled >>
       ELSE /\ set(str)
            /\ mangled' = (mangled \/ ~Kept(str))
            /\ wrote' = IF mangled' THEN << >> ELSE wrote

Next ==
    \/ \E s \in Inputs : doSset(s) \/ doAppend(s)
    \/ doDel
    \/ reload

Spec == Init /\ [][Next]_vars
-----------------------------------------------------------------------------
(* Bug: the sign is not counted. *)
countsDigitsOnly ==
    LET count[n \in 0 .. Power(Base, Short)] ==
            IF n = 0 THEN 0 ELSE 1 + count[n \div Base]
    IN IF enctype = "raw" THEN Len(str) ELSE count[Magnitude(istr)]

getStrLen ==
    LET count[n \in 0 .. Power(Base, Short)] ==
            IF n = 0 THEN 0 ELSE 1 + count[n \div Base]
    IN IF enctype = "raw" THEN Len(str)
       ELSE count[Magnitude(istr)] + (IF istr < 0 THEN 1 ELSE 0)

SizeT(n) == n % Power(2, SizeWidth)

(* std::string::substr *)
substr(s, pos, n) == SubSeq(s, pos + 1, pos + (IF n < Len(s) - pos THEN n ELSE Len(s) - pos))

(* Bug: the last character is left out. *)
rangeExcludesEnd(start, end) ==
    IF SizeT(start) >= Len(text) THEN << >>
    ELSE substr(text, SizeT(start), SizeT(SizeT(end) - SizeT(start)))

(* The bounds are converted to size_t, and the length may wrap around. *)
getRange(start, end) ==
    IF SizeT(start) >= Len(text) THEN << >>
    ELSE substr(text, SizeT(start), SizeT(SizeT(end) - SizeT(start) + 1))
-----------------------------------------------------------------------------
(* The object owns one text while it is raw and none while it is an integer, *)
(* through every change of encoding: nothing leaks, nothing is deleted twice *)
(* (set, append, free).                                                      *)
OwnsItsText == heap = Owns /\ (enctype = "raw" => objtype = "string")

(* Both: what the union holds is of the kind that the encoding says. *)
StringInv == StringTypeOK /\ OwnsItsText

(* The object reads as what the clients wrote, set and appended, through     *)
(* both encodings and files, until a text is set that set does not keep.     *)
ReadsAsWritten == objtype = "string" /\ ~mangled => text = wrote

(* strlen is the length of what get prints, but for the integer 0, in which  *)
(* the loop finds no digit (getStrLen).                                      *)
LengthAgrees ==
    objtype = "string" =>
        getStrLen = IF enctype = "int" /\ istr = 0 THEN 0 ELSE Len(text)

(* getrange gives the part between its bounds, both included; a start below  *)
(* zero is beyond the end of any text, and an end that is before the start   *)
(* by more than one, below zero too, wraps around to the end of the text.    *)
RangeAgrees ==
    objtype = "string" =>
        \A start, end \in Bounds :
            LET last == IF end < start - 1 THEN Len(text) - 1 ELSE end IN
            getRange(start, end) =
                IF start < 0 THEN << >>
                ELSE SubSeq(text, start + 1, IF last < Len(text) THEN last + 1 ELSE Len(text))
=============================================================================
