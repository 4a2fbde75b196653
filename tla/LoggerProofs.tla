----------------------------- MODULE LoggerProofs ------------------------------
(***************************************************************************)
(* Proofs about Logger: whatever interrupts the printing of a message, a   *)
(* further failure included, every output that is on gets all of it.       *)
(***************************************************************************)
EXTENDS Logger, SequenceTheorems, TLAPS

(***************************************************************************)
(* The inductive invariant.  An output has got what the parts that are     *)
(* done say, and of the part in progress what stands before the item.      *)
(***************************************************************************)
Said(s, p) == IF p = "header" THEN Header ELSE <<Sites[s].fmt[1]>> \o Sites[s].args

(* Of a call from s with t still to be printed, the first of them from     *)
(* item i on: what has got to o.                                           *)
GotPart(s, t, i, p, o) ==
  IF t # <<>> /\ t[1] = <<p, o>> THEN SubSeq(Said(s, p), 1, i - 1)
  ELSE IF \E k \in DOMAIN t : t[k] = <<p, o>> THEN <<>>
  ELSE Said(s, p)
Got(s, t, i, o) == GotPart(s, t, i, "header", o) \o GotPart(s, t, i, "message", o)

(* What the kernel has said before a panic over undefined behaviour.       *)
Prior(s, why) == IF s = "panic" /\ why = "undefined" THEN Location ELSE <<>>

Printed == site # None /\ Sites[site].lvl >= level

(* The words, the strings and the numbers that are printed.                *)
Units == {"[", "date", "level", "Welcome", "Flags", "flags", "serial", "Panic", "exception", "Aborted",
          "expression", "line", "Undefined", "kind", "file", "col", "Adding", "name", "id", "Error",
          "bus", "drive", "lba"}

Causes == {None, "failure", "undefined", "format"}

TypeOK ==
  /\ level \in Levels /\ output \in SUBSET Outputs
  /\ site \in DOMAIN Sites \union {None}
  /\ todo \in Seq({"header", "message"} \X output)
  /\ thr \in {"empty", "full"}
  /\ text \in [Outputs -> Seq(Units)]
  /\ cause \in Causes

(* The kernel stops by the sites that are meant for it, and by no other.   *)
SiteOfCause ==
  /\ cause = None => site \notin Fatal
  /\ cause = "failure" => site \in {"panic", "abort"}
  /\ cause = "undefined" => site \in {"ubsan", "panic"}
  /\ cause = "format" => site = "abort"

(* The parts are different, the headers first, each with its message, and  *)
(* the serial port before the screen.                                      *)
Ordered(t) ==
  /\ \A j, k \in DOMAIN t :
       j < k => t[j] # t[k] /\ (t[k][1] = "header" => t[j][1] = "header")
  /\ \A k \in DOMAIN t :
       t[k][1] = "header" => \E j \in DOMAIN t : t[j] = <<"message", t[k][2]>>
  /\ \A j, k \in DOMAIN t : j < k /\ t[j][1] = t[k][1] => t[k][2] # "serial"
PartsOrdered == Ordered(todo) /\ (todo # <<>> => Printed)

(* Every format begins with a word, and all the rest are options.          *)
ArgumentOf(i) == IF i = 1 THEN 1 ELSE i - 1
ItemShape ==
  /\ item \in Nat \ {0} /\ ap = ArgumentOf(item)
  /\ todo # <<>> => item =< Len(Said(site, part)) + 1

TextSoFar ==
  \A o \in Outputs :
    IF o \in output /\ Printed
    THEN IF cause = None THEN text[o] = Got(site, todo, item, o)
         ELSE IsSuffix(Prior(site, cause) \o Got(site, todo, item, o), text[o])
    ELSE site # None /\ cause = None => text[o] = <<>>

(* No output has got more of a read error than its first word.             *)
HasMessage(t, o) == \E k \in DOMAIN t : t[k] = <<"message", o>>

ReadErrorPending ==
  site = "readerror" /\ Printed =>
    /\ \A o \in output : HasMessage(todo, o)
    /\ todo # <<>> /\ part = "message" => item =< 2

(* After it the outputs have got what the failed assertion has said yet.   *)
BreaksOff ==
  cause = "format" =>
    \A o \in output : text[o] = BrokenOff(o) \o Got(site, todo, item, o)

IInv == /\ TypeOK /\ SiteOfCause /\ PartsOrdered /\ ItemShape /\ TextSoFar
        /\ ReadErrorPending /\ BreaksOff

-------------------------------------------------------------------------------
(***************************************************************************)
(* Sequences that end with a sequence.                                     *)
(***************************************************************************)
(* What IsSuffix says, without the sequences read backwards.               *)
LEMMA SuffixByElements ==
  ASSUME NEW S, NEW s \in Seq(S), NEW t \in Seq(S)
  PROVE  IsSuffix(s, t) <=>
           /\ Len(s) =< Len(t)
           /\ \A k \in 1 .. Len(s) : s[k] = t[Len(t) - Len(s) + k]
<1> DEFINE rs == Reverse(s)
           rt == Reverse(t)
<1>1. Len(s) \in Nat /\ Len(t) \in Nat
  OBVIOUS
<1>2. /\ rs \in Seq(S) /\ Len(rs) = Len(s) /\ \A k \in 1 .. Len(s) : rs[k] = s[Len(s) - k + 1]
      /\ rt \in Seq(S) /\ Len(rt) = Len(t) /\ \A k \in 1 .. Len(t) : rt[k] = t[Len(t) - k + 1]
  BY <1>1 DEF Reverse
<1> HIDE DEF rs, rt
<1>3. IsSuffix(s, t) <=> Len(rs) =< Len(rt) /\ SubSeq(rs, 1, Len(rs)) = SubSeq(rt, 1, Len(rs))
  BY DEF IsSuffix, IsPrefix, rs, rt
<1>4. CASE Len(s) =< Len(t)
  <2>1. /\ SubSeq(rs, 1, Len(s)) = rs
        /\ SubSeq(rt, 1, Len(s)) \in Seq(S) /\ Len(SubSeq(rt, 1, Len(s))) = Len(s)
        /\ \A k \in 1 .. Len(s) : SubSeq(rt, 1, Len(s))[k] = rt[k]
    BY <1>1, <1>2, <1>4
  <2>2. rs = SubSeq(rt, 1, Len(s)) <=> \A k \in 1 .. Len(s) : rs[k] = rt[k]
    BY <1>1, <1>2, <2>1, SeqEqual
  <2>3. (\A k \in 1 .. Len(s) : rs[k] = rt[k]) <=>
        (\A k \in 1 .. Len(s) : s[Len(s) - k + 1] = t[Len(t) - k + 1])
    <3>1. ASSUME NEW k \in 1 .. Len(s)
          PROVE  rs[k] = s[Len(s) - k + 1] /\ rt[k] = t[Len(t) - k + 1]
      <4>1. k \in 1 .. Len(t)
        BY <1>1, <1>4
      <4>2. QED
        BY <1>2, <4>1
    <3>2. QED
      BY <3>1
  <2>4. ASSUME \A k \in 1 .. Len(s) : s[Len(s) - k + 1] = t[Len(t) - k + 1], NEW k \in 1 .. Len(s)
        PROVE  s[k] = t[Len(t) - Len(s) + k]
    <3>1. PICK j : j = Len(s) - k + 1
      OBVIOUS
    <3>2. j \in 1 .. Len(s) /\ Len(s) - j + 1 = k /\ Len(t) - j + 1 = Len(t) - Len(s) + k
      BY <1>1, <3>1
    <3>3. QED
      BY <2>4, <3>2
  <2>5. ASSUME \A k \in 1 .. Len(s) : s[k] = t[Len(t) - Len(s) + k], NEW k \in 1 .. Len(s)
        PROVE  s[Len(s) - k + 1] = t[Len(t) - k + 1]
    <3>1. PICK j : j = Len(s) - k + 1
      OBVIOUS
    <3>2. j \in 1 .. Len(s) /\ Len(t) - Len(s) + j = Len(t) - k + 1
      BY <1>1, <3>1
    <3>3. QED
      BY <2>5, <3>1, <3>2
  <2>6. QED
    BY <1>2, <1>3, <1>4, <2>1, <2>2, <2>3, <2>4, <2>5
<1>5. QED
  BY <1>1, <1>2, <1>3, <1>4

LEMMA EmptySuffix == ASSUME NEW S, NEW t \in Seq(S) PROVE IsSuffix(<<>>, t)
<1>1. <<>> \in Seq(S) /\ Len(<<>>) = 0 /\ Len(t) \in Nat
  OBVIOUS
<1>2. PICK s \in Seq(S) : s = <<>>
  BY <1>1
<1>3. Len(s) =< Len(t) /\ \A k \in 1 .. Len(s) : s[k] = t[Len(t) - Len(s) + k]
  BY <1>1, <1>2
<1>4. QED
  BY <1>2, <1>3, SuffixByElements

LEMMA SuffixAppended ==
  ASSUME NEW S, NEW s \in Seq(S), NEW t \in Seq(S), NEW e \in S, IsSuffix(s, t)
  PROVE  IsSuffix(Append(s, e), Append(t, e))
<1> DEFINE u == Append(s, e)
           v == Append(t, e)
<1>1. Len(s) \in Nat /\ Len(t) \in Nat
  OBVIOUS
<1>2. /\ Len(s) =< Len(t)
      /\ \A k \in 1 .. Len(s) : s[k] = t[Len(t) - Len(s) + k]
  BY SuffixByElements
<1>3. /\ u \in Seq(S) /\ Len(u) = Len(s) + 1 /\ u[Len(s) + 1] = e
      /\ v \in Seq(S) /\ Len(v) = Len(t) + 1 /\ v[Len(t) + 1] = e
      /\ \A k \in 1 .. Len(s) : u[k] = s[k]
      /\ \A k \in 1 .. Len(t) : v[k] = t[k]
  BY AppendProperties
<1> HIDE DEF u, v
<1>4. \A k \in 1 .. Len(u) : u[k] = v[Len(v) - Len(u) + k]
  <2>1. ASSUME NEW k \in 1 .. Len(s)
        PROVE  u[k] = v[Len(v) - Len(u) + k]
    <3>1. Len(v) - Len(u) + k = Len(t) - Len(s) + k /\ Len(t) - Len(s) + k \in 1 .. Len(t)
      BY <1>1, <1>2, <1>3
    <3>2. QED
      BY <1>2, <1>3, <3>1
  <2>2. Len(v) - Len(u) + (Len(s) + 1) = Len(t) + 1
    BY <1>1, <1>3
  <2>3. QED
    BY <1>1, <1>3, <2>1, <2>2
<1>5. IsSuffix(u, v)
  <2>1. Len(u) =< Len(v)
    BY <1>1, <1>2, <1>3
  <2>2. QED
    BY <1>3, <1>4, <2>1, SuffixByElements
<1>6. QED
  BY <1>5 DEF u, v

(* A sequence put together of its elements.                                *)
LEMMA OneMore ==
  ASSUME NEW S, NEW u \in Seq(S), NEW e \in S, NEW w \in Seq(S),
         Len(w) = Len(u) + 1, \A i \in 1 .. Len(u) : w[i] = u[i], w[Len(u) + 1] = e
  PROVE  u \o <<e>> = w
<1>1. /\ Append(u, e) \in Seq(S) /\ Len(Append(u, e)) = Len(u) + 1 /\ Len(u) \in Nat
      /\ \A i \in 1 .. Len(u) : Append(u, e)[i] = u[i]
      /\ Append(u, e)[Len(u) + 1] = e
  BY AppendProperties
<1>2. PICK x \in Seq(S) : x = Append(u, e)
  BY <1>1
<1>3. \A i \in 1 .. Len(x) : x[i] = w[i]
  BY <1>1, <1>2
<1>4. x = w
  BY <1>1, <1>2, <1>3, SeqEqual
<1>5. QED
  BY <1>2, <1>4, AppendIsConcat

LEMMA OneBefore ==
  ASSUME NEW S, NEW e \in S, NEW u \in Seq(S), NEW w \in Seq(S),
         Len(w) = 1 + Len(u), w[1] = e, \A i \in 1 .. Len(u) : w[i + 1] = u[i]
  PROVE  <<e>> \o u = w
<1>1. <<e>> \in Seq(S) /\ Len(<<e>>) = 1 /\ <<e>>[1] = e /\ Len(u) \in Nat
  OBVIOUS
<1>2. PICK x : x = <<e>> \o u
  OBVIOUS
<1>3. /\ x \in Seq(S) /\ Len(x) = 1 + Len(u)
      /\ \A i \in 1 .. 1 + Len(u) : x[i] = IF i <= 1 THEN <<e>>[i] ELSE u[i - 1]
  BY <1>1, <1>2, ConcatProperties
<1>4. ASSUME NEW i \in 1 .. Len(x) PROVE x[i] = w[i]
  <2>1. CASE i = 1
    BY <1>1, <1>3, <2>1
  <2>2. CASE i # 1
    <3>1. i - 1 \in 1 .. Len(u) /\ (i - 1) + 1 = i /\ ~(i <= 1)
      BY <1>1, <1>3, <2>2
    <3>2. QED
      BY <1>3, <3>1
  <2>3. QED
    BY <2>1, <2>2
<1>5. x = w
  BY <1>1, <1>3, <1>4, SeqEqual
<1>6. QED
  BY <1>2, <1>5

LEMMA Tuples ==
  ASSUME NEW S, NEW a \in S, NEW b \in S, NEW c \in S, NEW d \in S
  PROVE  /\ <<a>> \in Seq(S) /\ Len(<<a>>) = 1
         /\ <<a, b>> \in Seq(S) /\ Len(<<a, b>>) = 2
         /\ <<a, b, c>> \in Seq(S) /\ Len(<<a, b, c>>) = 3
         /\ <<a, b, c, d>> \in Seq(S) /\ Len(<<a, b, c, d>>) = 4
  OBVIOUS

LEMMA TuplesJoined ==
  ASSUME NEW S, NEW a \in S, NEW b \in S, NEW c \in S, NEW d \in S
  PROVE  /\ <<a>> \o <<b>> = <<a, b>>
         /\ ((<<a>> \o <<b>>) \o <<c>>) \o <<d>> = <<a, b, c, d>>
<1>1. <<a>> \o <<b>> = <<a, b>>
  <2>1. /\ <<a>> \in Seq(S) /\ <<a, b>> \in Seq(S)
        /\ Len(<<a, b>>) = Len(<<a>>) + 1 /\ <<a, b>>[Len(<<a>>) + 1] = b
    BY Tuples
  <2>2. \A i \in 1 .. Len(<<a>>) : <<a, b>>[i] = <<a>>[i]
    BY Tuples
  <2>3. QED
    BY <2>1, <2>2, OneMore
<1>2. <<a, b>> \o <<c>> = <<a, b, c>>
  <2>1. /\ <<a, b>> \in Seq(S) /\ <<a, b, c>> \in Seq(S)
        /\ Len(<<a, b, c>>) = Len(<<a, b>>) + 1 /\ <<a, b, c>>[Len(<<a, b>>) + 1] = c
    BY Tuples
  <2>2. \A i \in 1 .. Len(<<a, b>>) : <<a, b, c>>[i] = <<a, b>>[i]
    BY Tuples
  <2>3. QED
    BY <2>1, <2>2, OneMore
<1>3. <<a, b, c>> \o <<d>> = <<a, b, c, d>>
  <2>1. /\ <<a, b, c>> \in Seq(S) /\ <<a, b, c, d>> \in Seq(S)
        /\ Len(<<a, b, c, d>>) = Len(<<a, b, c>>) + 1 /\ <<a, b, c, d>>[Len(<<a, b, c>>) + 1] = d
    BY Tuples
  <2>2. \A i \in 1 .. Len(<<a, b, c>>) : <<a, b, c, d>>[i] = <<a, b, c>>[i]
    <3>1. \A i \in 1 .. 3 : i = 1 \/ i = 2 \/ i = 3
      OBVIOUS
    <3>2. QED
      BY <3>1, Tuples
  <2>3. QED
    BY <2>1, <2>2, OneMore
<1>4. QED
  BY <1>1, <1>2, <1>3

-------------------------------------------------------------------------------
(***************************************************************************)
(* The formats of the kernel.                                              *)
(***************************************************************************)
(* Every format is a word and then options, one for each argument; the     *)
(* loop knows them all but the first of a read error (logger.c:66-98,      *)
(* serial.c:109-149, ata.c:141).                                           *)
FormatOf(s, p)    == IF p = "header" THEN <<"[", "%d", "%s">> ELSE Sites[s].fmt
ArgumentsOf(s, p) == IF p = "header" THEN <<"date", "level">> ELSE Sites[s].args

LEMMA SiteFacts ==
  ASSUME NEW s \in DOMAIN Sites
  PROVE  /\ s \in {"welcome", "device", "ata", "readerror", "panic", "abort", "ubsan"}
         /\ Sites[s].lvl \in Levels /\ (s \in Fatal => Sites[s].lvl = 4)
         /\ Len(Sites[s].args) \in Nat /\ Sites[s].args \in Seq(Units)
         /\ Len(Sites[s].fmt) = Len(Sites[s].args) + 1 /\ DOMAIN Sites[s].fmt = 1 .. Len(Sites[s].fmt)
         /\ DOMAIN Sites[s].args = 1 .. Len(Sites[s].args)
         /\ Sites[s].fmt[1] \in Units \ Option
         /\ \A i \in 2 .. Len(Sites[s].fmt) :
              /\ Sites[s].fmt[i] \in Option
              /\ Sites[s].fmt[i] \in Unsupported <=> s = "readerror" /\ i = 2
<1>1. s \in {"welcome", "device", "ata", "readerror", "panic", "abort", "ubsan"}
  BY DEF Sites
<1>2. CASE s = "welcome"
  <2>1. /\ Sites[s].lvl = 1 /\ Sites[s].args = <<>>
        /\ Sites[s].fmt = <<"Welcome">>
    BY <1>2 DEF Sites
  <2>2. /\ Len(Sites[s].args) = 0 /\ Sites[s].args \in Seq(Units)
        /\ Len(Sites[s].fmt) = 1
        /\ DOMAIN Sites[s].fmt = 1 .. 1 /\ DOMAIN Sites[s].args = 1 .. 0
    BY <2>1 DEF Units
  <2>3. \A i \in 2 .. 1 : FALSE
    OBVIOUS
  <2>4. \A i \in 2 .. 1 : Sites[s].fmt[i] \in {"%s", "%d", "%u", "%x"}
    BY <2>1, <2>3
  <2>5. QED
    BY <1>1, <1>2, <2>1, <2>2, <2>4 DEF Levels, Fatal, Option, Unsupported, Units
<1>3. CASE s = "ata"
  <2>1. /\ Sites[s].lvl = 1 /\ Sites[s].args = <<"flags", "serial">>
        /\ Sites[s].fmt = <<"Flags", "%x", "%s">>
    BY <1>3 DEF Sites
  <2>2. /\ Len(Sites[s].args) = 2 /\ Sites[s].args \in Seq(Units)
        /\ Len(Sites[s].fmt) = 3
        /\ DOMAIN Sites[s].fmt = 1 .. 3 /\ DOMAIN Sites[s].args = 1 .. 2
    BY <2>1 DEF Units
  <2>3. \A i \in 2 .. 3 : i = 2 \/ i = 3
    OBVIOUS
  <2>4. \A i \in 2 .. 3 : Sites[s].fmt[i] \in {"%s", "%d", "%u", "%x"}
    BY <2>1, <2>3
  <2>5. QED
    BY <1>1, <1>3, <2>1, <2>2, <2>4 DEF Levels, Fatal, Option, Unsupported, Units
<1>4. CASE s = "panic"
  <2>1. /\ Sites[s].lvl = 4 /\ Sites[s].args = <<"exception">>
        /\ Sites[s].fmt = <<"Panic", "%s">>
    BY <1>4 DEF Sites
  <2>2. /\ Len(Sites[s].args) = 1 /\ Sites[s].args \in Seq(Units)
        /\ Len(Sites[s].fmt) = 2
        /\ DOMAIN Sites[s].fmt = 1 .. 2 /\ DOMAIN Sites[s].args = 1 .. 1
    BY <2>1 DEF Units
  <2>3. \A i \in 2 .. 2 : i = 2
    OBVIOUS
  <2>4. \A i \in 2 .. 2 : Sites[s].fmt[i] \in {"%s", "%d", "%u", "%x"}
    BY <2>1, <2>3
  <2>5. QED
    BY <1>1, <1>4, <2>1, <2>2, <2>4 DEF Levels, Fatal, Option, Unsupported, Units
<1>5. CASE s = "abort"
  <2>1. /\ Sites[s].lvl = 4 /\ Sites[s].args = <<"expression", "line">>
        /\ Sites[s].fmt = <<"Aborted", "%s", "%d">>
    BY <1>5 DEF Sites
  <2>2. /\ Len(Sites[s].args) = 2 /\ Sites[s].args \in Seq(Units)
        /\ Len(Sites[s].fmt) = 3
        /\ DOMAIN Sites[s].fmt = 1 .. 3 /\ DOMAIN Sites[s].args = 1 .. 2
    BY <2>1 DEF Units
  <2>3. \A i \in 2 .. 3 : i = 2 \/ i = 3
    OBVIOUS
  <2>4. \A i \in 2 .. 3 : Sites[s].fmt[i] \in {"%s", "%d", "%u", "%x"}
    BY <2>1, <2>3
  <2>5. QED
    BY <1>1, <1>5, <2>1, <2>2, <2>4 DEF Levels, Fatal, Option, Unsupported, Units
<1>6. CASE s = "ubsan"
  <2>1. /\ Sites[s].lvl = 4 /\ Sites[s].args = <<"kind", "file", "line", "col">>
        /\ Sites[s].fmt = <<"Undefined", "%s", "%s", "%d", "%d">>
    BY <1>6 DEF Sites
  <2>2. /\ Len(Sites[s].args) = 4 /\ Sites[s].args \in Seq(Units)
        /\ Len(Sites[s].fmt) = 5
        /\ DOMAIN Sites[s].fmt = 1 .. 5 /\ DOMAIN Sites[s].args = 1 .. 4
    BY <2>1 DEF Units
  <2>3. \A i \in 2 .. 5 : i = 2 \/ i = 3 \/ i = 4 \/ i = 5
    OBVIOUS
  <2>4. \A i \in 2 .. 5 : Sites[s].fmt[i] \in {"%s", "%d", "%u", "%x"}
    BY <2>1, <2>3
  <2>5. QED
    BY <1>1, <1>6, <2>1, <2>2, <2>4 DEF Levels, Fatal, Option, Unsupported, Units
<1>7. CASE s = "device"
  <2>1. /\ Sites[s].lvl = 1 /\ Sites[s].args = <<"name", "id">>
        /\ Sites[s].fmt = <<"Adding", "%s", "%d">>
    BY <1>7 DEF Sites
  <2>2. /\ Len(Sites[s].args) = 2 /\ Sites[s].args \in Seq(Units)
        /\ Len(Sites[s].fmt) = 3
        /\ DOMAIN Sites[s].fmt = 1 .. 3 /\ DOMAIN Sites[s].args = 1 .. 2
    BY <2>1 DEF Units
  <2>3. \A i \in 2 .. 3 : i = 2 \/ i = 3
    OBVIOUS
  <2>4. \A i \in 2 .. 3 : Sites[s].fmt[i] \in {"%s", "%d", "%u", "%x"}
    BY <2>1, <2>3
  <2>5. QED
    BY <1>1, <1>7, <2>1, <2>2, <2>4 DEF Levels, Fatal, Option, Unsupported, Units
<1>8. CASE s = "readerror"
  <2>1. /\ Sites[s].lvl = 3 /\ Sites[s].args = <<"bus", "drive", "lba">>
        /\ Sites[s].fmt = <<"Error", "%0", "%s", "%d">>
    BY <1>8 DEF Sites, ReadError
  <2>2. /\ Len(Sites[s].args) = 3 /\ Sites[s].args \in Seq(Units)
        /\ Len(Sites[s].fmt) = 4
        /\ DOMAIN Sites[s].fmt = 1 .. 4 /\ DOMAIN Sites[s].args = 1 .. 3
    BY <2>1 DEF Units
  <2>3. \A i \in 2 .. 4 : i = 2 \/ i = 3 \/ i = 4
    OBVIOUS
  <2>4. /\ \A i \in 2 .. 4 : Sites[s].fmt[i] \in Option
        /\ \A i \in 2 .. 4 : Sites[s].fmt[i] \in Unsupported <=> i = 2
    BY <2>1, <2>3 DEF Option, Unsupported
  <2>5. QED
    BY <1>1, <1>8, <2>1, <2>2, <2>4 DEF Levels, Fatal, Option, Unsupported, Units
<1>9. QED
  BY <1>1, <1>2, <1>3, <1>4, <1>5, <1>6, <1>7, <1>8

(* What a part says, unit by unit: its word, and its arguments in order.   *)
LEMMA SaidFacts ==
  ASSUME NEW s \in DOMAIN Sites, NEW p \in {"header", "message"}
  PROVE  /\ Said(s, p) \in Seq(Units) /\ Len(Said(s, p)) \in Nat \ {0}
         /\ DOMAIN FormatOf(s, p) = 1 .. Len(Said(s, p))
         /\ Said(s, p)[1] = FormatOf(s, p)[1] /\ FormatOf(s, p)[1] \notin Option
         /\ \A i \in 2 .. Len(Said(s, p)) :
              /\ FormatOf(s, p)[i] \in Option
              /\ FormatOf(s, p)[i] \in Unsupported <=> s = "readerror" /\ p = "message" /\ i = 2
              /\ i - 1 \in DOMAIN ArgumentsOf(s, p)
              /\ ArgumentsOf(s, p)[i - 1] = Said(s, p)[i]
<1>1. CASE p = "header"
  <2>1. /\ Said(s, p) = <<"[", "date", "level">> /\ FormatOf(s, p) = <<"[", "%d", "%s">>
        /\ ArgumentsOf(s, p) = <<"date", "level">>
    BY <1>1 DEF Said, FormatOf, ArgumentsOf, Header
  <2>2. /\ Said(s, p) \in Seq(Units) /\ Len(Said(s, p)) = 3
        /\ DOMAIN FormatOf(s, p) = 1 .. 3 /\ DOMAIN ArgumentsOf(s, p) = 1 .. 2
    BY <2>1 DEF Units
  <2>3. \A i \in 2 .. 3 : i = 2 \/ i = 3
    OBVIOUS
  <2>4. QED
    BY <1>1, <2>1, <2>2, <2>3 DEF Option, Unsupported
<1>2. CASE p = "message"
  <2> DEFINE w == Sites[s].fmt[1]
             a == Sites[s].args
  <2>1. Said(s, p) = <<w>> \o a /\ FormatOf(s, p) = Sites[s].fmt /\ ArgumentsOf(s, p) = a
    BY <1>2 DEF Said, FormatOf, ArgumentsOf
  <2>2. w \in Units \ Option /\ a \in Seq(Units) /\ Len(a) \in Nat /\ DOMAIN a = 1 .. Len(a)
    BY SiteFacts
  <2> HIDE DEF w, a
  <2>3. <<w>> \in Seq(Units) /\ Len(<<w>>) = 1 /\ <<w>>[1] = w
    BY <2>2
  <2>4. /\ Said(s, p) \in Seq(Units) /\ Len(Said(s, p)) = 1 + Len(a)
        /\ \A i \in 1 .. 1 + Len(a) : Said(s, p)[i] = IF i <= 1 THEN <<w>>[i] ELSE a[i - 1]
    BY <2>1, <2>2, <2>3, ConcatProperties
  <2>5. /\ DOMAIN FormatOf(s, p) = 1 .. Len(Said(s, p)) /\ Said(s, p)[1] = FormatOf(s, p)[1]
        /\ \A i \in 2 .. Len(Said(s, p)) :
             /\ FormatOf(s, p)[i] \in Option
             /\ FormatOf(s, p)[i] \in Unsupported <=> s = "readerror" /\ i = 2
    <3>1. /\ Sites[s].fmt[1] = w /\ Len(Sites[s].fmt) = Len(a) + 1
          /\ DOMAIN Sites[s].fmt = 1 .. Len(Sites[s].fmt)
          /\ \A i \in 2 .. Len(Sites[s].fmt) :
               /\ Sites[s].fmt[i] \in Option
               /\ Sites[s].fmt[i] \in Unsupported <=> s = "readerror" /\ i = 2
      BY SiteFacts DEF w, a
    <3>2. Said(s, p)[1] = w
      BY <2>2, <2>3, <2>4
    <3>3. Len(Said(s, p)) = Len(Sites[s].fmt) /\ FormatOf(s, p) = Sites[s].fmt
      BY <2>1, <2>2, <2>4, <3>1
    <3>4. QED
      BY <3>1, <3>2, <3>3, Zenon
  <2>6. ASSUME NEW i \in 2 .. Len(Said(s, p))
        PROVE  i - 1 \in DOMAIN a /\ a[i - 1] = Said(s, p)[i]
    BY <2>2, <2>4
  <2>7. Said(s, p)[1] = w
    BY <2>2, <2>3, <2>4
  <2>8. QED
    BY <1>2, <2>1, <2>2, <2>4, <2>5, <2>6, <2>7
<1>3. QED
  BY <1>1, <1>2

-------------------------------------------------------------------------------
(***************************************************************************)
(* What an output has got, as the printing goes on.                        *)
(***************************************************************************)
PartsOf(out) == {"header", "message"} \X out

LEMMA GotIsSeq ==
  ASSUME NEW s \in DOMAIN Sites, NEW t, NEW i \in Nat \ {0}, NEW o,
         t # <<>> => i =< Len(Said(s, t[1][1])) + 1
  PROVE  /\ \A p \in {"header", "message"} : GotPart(s, t, i, p, o) \in Seq(Units)
         /\ Got(s, t, i, o) \in Seq(Units)
<1>1. ASSUME NEW p \in {"header", "message"} PROVE GotPart(s, t, i, p, o) \in Seq(Units)
  <2>1. Said(s, p) \in Seq(Units) /\ <<>> \in Seq(Units)
    BY SaidFacts
  <2>2. ASSUME t # <<>>, t[1] = <<p, o>> PROVE SubSeq(Said(s, p), 1, i - 1) \in Seq(Units)
    <3>1. t[1][1] = p
      BY <2>2
    <3>2. i - 1 =< Len(Said(s, p)) /\ i - 1 \in Int /\ Len(Said(s, p)) \in Nat
      BY <2>1, <2>2, <3>1
    <3>3. \A k \in 1 .. i - 1 : Said(s, p)[k] \in Units
      BY <2>1, <3>2, ElementOfSeq
    <3>4. QED
      BY <3>2, <3>3, SubSeqProperties
  <2>3. QED
    BY <2>1, <2>2 DEF GotPart
<1>2. QED
  BY <1>1, ConcatProperties DEF Got

LEMMA NothingGot ==
  ASSUME NEW s \in DOMAIN Sites, NEW t, NEW o,
         \A p \in {"header", "message"} : \E k \in DOMAIN t : t[k] = <<p, o>>
  PROVE  Got(s, t, 1, o) = <<>>
<1>1. \A p \in {"header", "message"} : SubSeq(Said(s, p), 1, 1 - 1) = <<>>
  BY SubSeqEmpty
<1>2. \A p \in {"header", "message"} : GotPart(s, t, 1, p, o) = <<>>
  BY <1>1 DEF GotPart
<1>3. <<>> \o <<>> = <<>>
  OBVIOUS
<1>4. QED
  BY <1>2, <1>3 DEF Got

(* Nothing has been printed of a call that begins.                         *)
LEMMA Begins ==
  ASSUME NEW s \in DOMAIN Sites, NEW out \in SUBSET Outputs
  PROVE  /\ Parts(out) \in Seq(PartsOf(out)) /\ Ordered(Parts(out))
         /\ \A o \in out : Got(s, Parts(out), 1, o) = <<>>
         /\ \A o \in out : HasMessage(Parts(out), o)
<1>1. out = {} \/ out = {"serial"} \/ out = {"screen"} \/ out = {"serial", "screen"}
  BY DEF Outputs
<1>2. CASE out = {}
  <2>1. Parts(out) = <<>>
    BY <1>2 DEF Parts, IfOn
  <2>2. DOMAIN Parts(out) = {} /\ Parts(out) \in Seq(PartsOf(out))
    BY <2>1
  <2>3. QED
    BY <1>2, <2>2 DEF Ordered
<1>3. ASSUME NEW o, out = {o}, o \in Outputs
      PROVE  Parts(out) = << <<"header", o>>, <<"message", o>> >>
  <2> DEFINE a == <<"header", o>>
             b == <<"message", o>>
             S == PartsOf(out)
  <2>1. a \in S /\ b \in S
    BY <1>3 DEF PartsOf
  <2>2. <<a>> \o <<b>> = <<a, b>> /\ <<a>> \in Seq(S) /\ <<b>> \in Seq(S)
    BY <2>1, Tuples, TuplesJoined
  <2>3. CASE o = "serial"
    <3>1. Parts(out) = ((<<a>> \o <<>>) \o <<b>>) \o <<>>
      BY <1>3, <2>3 DEF Parts, IfOn
    <3>2. QED
      BY <2>1, <2>2, <3>1, ConcatEmptySeq, ConcatProperties
  <2>4. CASE o = "screen"
    <3>1. Parts(out) = ((<<>> \o <<a>>) \o <<>>) \o <<b>>
      BY <1>3, <2>4 DEF Parts, IfOn
    <3>2. QED
      BY <2>1, <2>2, <3>1, ConcatEmptySeq, ConcatProperties
  <2>5. QED
    BY <1>3, <2>3, <2>4 DEF Outputs
<1>4. ASSUME NEW o, out = {o}, o \in Outputs
      PROVE  /\ Parts(out) \in Seq(PartsOf(out)) /\ Ordered(Parts(out))
             /\ Got(s, Parts(out), 1, o) = <<>> /\ HasMessage(Parts(out), o)
  <2> DEFINE a == <<"header", o>>
             b == <<"message", o>>
  <2>1. a \in PartsOf(out) /\ b \in PartsOf(out)
    BY <1>4 DEF PartsOf
  <2>2. /\ Parts(out) = <<a, b>> /\ Parts(out) \in Seq(PartsOf(out)) /\ DOMAIN Parts(out) = 1 .. 2
        /\ 1 \in DOMAIN Parts(out) /\ 2 \in DOMAIN Parts(out)
    <3>1. Parts(out) = <<a, b>>
      BY <1>3, <1>4
    <3>2. <<a, b>> \in Seq(PartsOf(out)) /\ DOMAIN <<a, b>> = 1 .. 2
      BY <2>1, Tuples
    <3>3. QED
      BY <3>1, <3>2
  <2>3. \A i \in 1 .. 2 : i = 1 \/ i = 2
    OBVIOUS
  <2>4. Ordered(Parts(out))
    BY <2>2, <2>3 DEF Ordered
  <2>5. \A p \in {"header", "message"} : \E k \in DOMAIN Parts(out) : Parts(out)[k] = <<p, o>>
    BY <2>2
  <2>6. QED
    BY <2>2, <2>4, <2>5, NothingGot DEF HasMessage
<1>5. CASE out = {"serial", "screen"}
  <2> DEFINE a == <<"header", "serial">>
             b == <<"header", "screen">>
             c == <<"message", "serial">>
             d == <<"message", "screen">>
             S == PartsOf(out)
  <2>1. a \in S /\ b \in S /\ c \in S /\ d \in S
    BY <1>5 DEF PartsOf
  <2>2. Parts(out) = ((<<a>> \o <<b>>) \o <<c>>) \o <<d>>
    BY <1>5 DEF Parts, IfOn
  <2>3. Parts(out) = <<a, b, c, d>>
    BY <2>1, <2>2, TuplesJoined
  <2>4. Parts(out) \in Seq(S) /\ DOMAIN Parts(out) = 1 .. 4
    BY <2>1, <2>3, Tuples
  <2>5. \A i \in 1 .. 4 : i = 1 \/ i = 2 \/ i = 3 \/ i = 4
    OBVIOUS
  <2>6. Ordered(Parts(out))
    BY <2>3, <2>4, <2>5 DEF Ordered
  <2>7. 1 \in DOMAIN Parts(out) /\ 2 \in DOMAIN Parts(out) /\ 3 \in DOMAIN Parts(out)
        /\ 4 \in DOMAIN Parts(out)
    BY <2>4
  <2>8. ASSUME NEW o \in out
        PROVE  Got(s, Parts(out), 1, o) = <<>> /\ HasMessage(Parts(out), o)
    <3>1. ASSUME NEW p \in {"header", "message"}
          PROVE  \E k \in DOMAIN Parts(out) : Parts(out)[k] = <<p, o>>
      <4>1. <<p, o>> = a \/ <<p, o>> = b \/ <<p, o>> = c \/ <<p, o>> = d
        BY <1>5
      <4>2. Parts(out)[1] = a /\ Parts(out)[2] = b /\ Parts(out)[3] = c /\ Parts(out)[4] = d
        BY <2>3
      <4>3. QED
        BY <2>7, <4>1, <4>2
    <3>2. QED
      BY <3>1, NothingGot DEF HasMessage
  <2>9. QED
    BY <2>4, <2>6, <2>8
<1>6. QED
  BY <1>1, <1>2, <1>4, <1>5 DEF Outputs

(* A unit printed is a unit more of the part in progress.                  *)
LEMMA Prints ==
  ASSUME NEW s \in DOMAIN Sites, NEW out \in SUBSET Outputs, NEW t \in Seq(PartsOf(out)),
         t # <<>>, Ordered(t), NEW i \in 1 .. Len(Said(s, t[1][1]))
  PROVE  /\ t[1] \in PartsOf(out)
         /\ Got(s, t, i + 1, t[1][2]) = Append(Got(s, t, i, t[1][2]), Said(s, t[1][1])[i])
         /\ \A o \in Outputs \ {t[1][2]} : Got(s, t, i + 1, o) = Got(s, t, i, o)
<1>1. PICK p \in {"header", "message"}, d \in out : t[1] = <<p, d>> /\ t[1][1] = p /\ t[1][2] = d
  BY ElementOfSeq DEF PartsOf
<1>2. /\ Said(s, p) \in Seq(Units) /\ Len(Said(s, p)) \in Nat /\ i \in 1 .. Len(Said(s, p))
      /\ Said(s, p)[i] \in Units
  BY <1>1, SaidFacts, ElementOfSeq
<1>3. \A o \in Outputs \ {d} : Got(s, t, i + 1, o) = Got(s, t, i, o)
  <2>1. ASSUME NEW o \in Outputs \ {d} PROVE Got(s, t, i + 1, o) = Got(s, t, i, o)
    <3>1. \A q : t[1] # <<q, o>>
      BY <1>1
    <3>2. \A q : GotPart(s, t, i + 1, q, o) = GotPart(s, t, i, q, o)
      BY <3>1 DEF GotPart
    <3>3. QED
      BY <3>2 DEF Got
  <2>2. QED
    BY <2>1
<1>4. GotPart(s, t, i + 1, p, d) = Append(GotPart(s, t, i, p, d), Said(s, p)[i])
  <2>1. /\ GotPart(s, t, i + 1, p, d) = SubSeq(Said(s, p), 1, i)
        /\ GotPart(s, t, i, p, d) = SubSeq(Said(s, p), 1, i - 1)
    BY <1>1, <1>2 DEF GotPart
  <2>2. SubSeq(Said(s, p), 1, i) = SubSeq(Said(s, p), 1, i - 1) \o <<Said(s, p)[i]>>
    BY <1>2, SubSeqRecursiveSecond
  <2>3. SubSeq(Said(s, p), 1, i - 1) \in Seq(Units)
    <3>1. \A k \in 1 .. i - 1 : Said(s, p)[k] \in Units
      BY <1>2, ElementOfSeq
    <3>2. QED
      BY <1>2, <3>1, SubSeqProperties
  <2>4. QED
    BY <1>2, <2>1, <2>2, <2>3, AppendIsConcat
<1>5. \A q \in {"header", "message"} : GotPart(s, t, i, q, d) \in Seq(Units)
  BY <1>1, <1>2, GotIsSeq
<1>6. ASSUME p = "message" PROVE Got(s, t, i + 1, d) = Append(Got(s, t, i, d), Said(s, p)[i])
  <2>1. GotPart(s, t, i + 1, "header", d) = GotPart(s, t, i, "header", d)
    BY <1>1, <1>6 DEF GotPart
  <2> DEFINE h == GotPart(s, t, i, "header", d)
             m == GotPart(s, t, i, "message", d)
             u == Said(s, p)[i]
  <2>2. Got(s, t, i + 1, d) = h \o Append(m, u) /\ Got(s, t, i, d) = h \o m
    BY <1>4, <1>6, <2>1 DEF Got
  <2>3. h \in Seq(Units) /\ m \in Seq(Units) /\ u \in Units
    BY <1>2, <1>5
  <2> HIDE DEF h, m, u
  <2>4. h \o (m \o <<u>>) = (h \o m) \o <<u>> /\ h \o m \in Seq(Units)
    BY <2>3, Tuples, ConcatAssociative, ConcatProperties
  <2>5. h \o Append(m, u) = Append(h \o m, u)
    BY <2>3, <2>4, AppendIsConcat
  <2>6. Got(s, t, i + 1, d) = Append(Got(s, t, i, d), u)
    BY <2>2, <2>5
  <2>7. QED
    BY <2>6 DEF u
<1>7. ASSUME p = "header" PROVE Got(s, t, i + 1, d) = Append(Got(s, t, i, d), Said(s, p)[i])
  <2>1. 1 \in DOMAIN t
    BY EmptySeq
  <2>2. \E k \in DOMAIN t : t[k] = <<"message", d>>
    BY <1>1, <1>7, <2>1 DEF Ordered
  <2>3. GotPart(s, t, i, "message", d) = <<>> /\ GotPart(s, t, i + 1, "message", d) = <<>>
    BY <1>1, <1>7, <2>2 DEF GotPart
  <2> DEFINE h == GotPart(s, t, i, "header", d)
             u == Said(s, p)[i]
  <2>4. Got(s, t, i + 1, d) = Append(h, u) \o <<>> /\ Got(s, t, i, d) = h \o <<>>
    BY <1>2, <1>4, <1>7, <2>3 DEF Got
  <2>5. h \in Seq(Units) /\ u \in Units
    BY <1>2, <1>5
  <2> HIDE DEF h, u
  <2>6. Append(h, u) \o <<>> = Append(h, u) /\ h \o <<>> = h
    BY <2>5, ConcatEmptySeq, AppendProperties
  <2>7. Got(s, t, i + 1, d) = Append(Got(s, t, i, d), u)
    BY <2>4, <2>6
  <2>8. QED
    BY <2>7 DEF u
<1>8. Got(s, t, i + 1, d) = Append(Got(s, t, i, d), Said(s, p)[i])
  BY <1>6, <1>7
<1>9. t[1] \in PartsOf(out)
  BY ElementOfSeq, EmptySeq
<1>10. QED
  BY <1>1, <1>3, <1>8, <1>9, Zenon

(* A part that is done is followed by the beginning of the next one.       *)
LEMMA Returns ==
  ASSUME NEW s \in DOMAIN Sites, NEW out \in SUBSET Outputs, NEW t \in Seq(PartsOf(out)),
         t # <<>>, Ordered(t)
  PROVE  /\ Tail(t) \in Seq(PartsOf(out)) /\ Ordered(Tail(t))
         /\ \A o \in Outputs :
              Got(s, Tail(t), 1, o) = Got(s, t, Len(Said(s, t[1][1])) + 1, o)
         /\ \A o : HasMessage(t, o) /\ t[1][1] = "header" => HasMessage(Tail(t), o)
<1> DEFINE r == Tail(t)
<1>1. /\ r \in Seq(PartsOf(out)) /\ Len(t) \in Nat \ {0} /\ Len(r) = Len(t) - 1
      /\ \A k \in 1 .. Len(r) : r[k] = t[k + 1]
      /\ DOMAIN t = 1 .. Len(t) /\ DOMAIN r = 1 .. Len(r)
  BY HeadTailProperties, EmptySeq, LenProperties
<1> HIDE DEF r
<1>2. \A k \in DOMAIN r : k + 1 \in DOMAIN t /\ r[k] = t[k + 1] /\ k + 1 > 1
  BY <1>1
<1>3. \A k \in DOMAIN t \ {1} : k - 1 \in DOMAIN r /\ r[k - 1] = t[k]
  <2>1. ASSUME NEW k \in DOMAIN t \ {1} PROVE k - 1 \in DOMAIN r /\ r[k - 1] = t[k]
    <3>1. k - 1 \in 1 .. Len(r) /\ (k - 1) + 1 = k
      BY <1>1
    <3>2. QED
      BY <1>1, <3>1
  <2>2. QED
    BY <2>1
<1>4. 1 \in DOMAIN t /\ \A k \in DOMAIN r : t[1] # r[k]
  <2>1. 1 \in DOMAIN t
    BY <1>1
  <2>2. QED
    BY <1>2, <2>1 DEF Ordered
<1>5. Ordered(r)
  <2>1. ASSUME NEW j \in DOMAIN r, NEW k \in DOMAIN r, j < k
        PROVE  r[j] # r[k] /\ (r[k][1] = "header" => r[j][1] = "header")
    <3>1. j + 1 < k + 1
      BY <1>1, <2>1
    <3>2. QED
      BY <1>2, <3>1 DEF Ordered
  <2>2. ASSUME NEW k \in DOMAIN r, r[k][1] = "header"
        PROVE  \E j \in DOMAIN r : r[j] = <<"message", r[k][2]>>
    <3>1. k + 1 \in DOMAIN t /\ t[k + 1] = r[k] /\ 1 < k + 1
      BY <1>1, <1>2
    <3>2. PICK j \in DOMAIN t : t[j] = <<"message", r[k][2]>>
      BY <2>2, <3>1 DEF Ordered
    <3>3. t[1][1] = "header"
      BY <1>4, <2>2, <3>1 DEF Ordered
    <3>4. j # 1
      BY <3>2, <3>3
    <3>5. QED
      BY <1>3, <3>2, <3>4
  <2>3. ASSUME NEW j \in DOMAIN r, NEW k \in DOMAIN r, j < k, r[j][1] = r[k][1]
        PROVE  r[k][2] # "serial"
    <3>1. j + 1 < k + 1
      BY <1>1, <2>3
    <3>2. QED
      BY <1>2, <2>3, <3>1 DEF Ordered
  <2>4. QED
    BY <2>1, <2>2, <2>3 DEF Ordered
<1>6. ASSUME NEW o \in Outputs, NEW p \in {"header", "message"}
      PROVE  GotPart(s, r, 1, p, o) = GotPart(s, t, Len(Said(s, t[1][1])) + 1, p, o)
  <2>1. Said(s, p) \in Seq(Units) /\ Len(Said(s, p)) \in Nat
    BY SaidFacts
  <2>2. SubSeq(Said(s, p), 1, 1 - 1) = <<>> /\ SubSeq(Said(s, p), 1, Len(Said(s, p))) = Said(s, p)
    BY <2>1, SubSeqEmpty, SubSeqFull
  <2>3. CASE t[1] = <<p, o>>
    <3>1. \A k \in DOMAIN r : r[k] # <<p, o>>
      BY <1>4, <2>3
    <3>2. r # <<>> => r[1] # <<p, o>>
      BY <1>1, <3>1, EmptySeq
    <3>3. GotPart(s, r, 1, p, o) = Said(s, p)
      BY <3>1, <3>2 DEF GotPart
    <3>4. t[1][1] = p /\ (Len(Said(s, p)) + 1) - 1 = Len(Said(s, p))
      BY <2>1, <2>3
    <3>5. GotPart(s, t, Len(Said(s, p)) + 1, p, o) = Said(s, p)
      BY <2>2, <2>3, <3>4 DEF GotPart
    <3>6. QED
      BY <3>3, <3>4, <3>5
  <2>4. CASE t[1] # <<p, o>>
    <3>1. (\E k \in DOMAIN r : r[k] = <<p, o>>) <=> (\E k \in DOMAIN t : t[k] = <<p, o>>)
      BY <1>2, <1>3, <2>4
    <3>2. r # <<>> /\ r[1] = <<p, o>> => \E k \in DOMAIN r : r[k] = <<p, o>>
      BY <1>1, EmptySeq
    <3>3. QED
      BY <2>2, <2>4, <3>1, <3>2 DEF GotPart
  <2>5. QED
    BY <2>3, <2>4
<1>7. ASSUME NEW o \in Outputs
      PROVE  Got(s, r, 1, o) = Got(s, t, Len(Said(s, t[1][1])) + 1, o)
  BY <1>6 DEF Got
<1>8. ASSUME NEW o, HasMessage(t, o), t[1][1] = "header" PROVE HasMessage(r, o)
  <2>1. PICK k \in DOMAIN t : t[k] = <<"message", o>>
    BY <1>8 DEF HasMessage
  <2>2. k # 1
    BY <1>8, <2>1
  <2>3. QED
    BY <1>3, <2>1, <2>2 DEF HasMessage
<1>9. QED
  BY <1>1, <1>5, <1>7, <1>8 DEF r

(* A call that has returned has said all of it.                            *)
LEMMA SaidAll ==
  ASSUME NEW s \in DOMAIN Sites, NEW i, NEW o
  PROVE  Got(s, <<>>, i, o) = Header \o Said(s, "message")
  BY DEF Got, GotPart, Said

-------------------------------------------------------------------------------
(* What a stopping kernel means to say is what its calls say, the panic    *)
(* over undefined behaviour after the place of that.                       *)
LEMMA SayingFacts ==
  /\ Location \in Seq(Units) /\ <<>> \in Seq(Units) /\ Header \in Seq(Units)
  /\ Location = Header \o Said("ubsan", "message")
  /\ Header \o <<"Welcome">> = Header \o Said("welcome", "message")
  /\ Header \o <<"Flags", "flags", "serial">> = Header \o Said("ata", "message")
  /\ Header \o <<"Adding", "name", "id">> = Header \o Said("device", "message")
  /\ Header \o <<"Error", "bus", "drive", "lba">> = Header \o Said("readerror", "message")
  /\ Header \o <<"Panic", "exception">> = Header \o Said("panic", "message")
  /\ Header \o <<"Aborted", "expression", "line">> = Header \o Said("abort", "message")
<1>1. Header \in Seq(Units) /\ <<>> \in Seq(Units)
  BY DEF Header, Units
<1>2. <<"Undefined", "kind", "file", "line", "col">> \in Seq(Units)
  BY DEF Units
<1>3. Location \in Seq(Units)
  BY <1>1, <1>2, ConcatProperties DEF Location
<1>4. Said("welcome", "message") = <<"Welcome">>
  <2>1. Said("welcome", "message") = <<"Welcome">> \o <<>>
    BY DEF Said, Sites
  <2>2. /\ "Welcome" \in Units /\ <<>> \in Seq(Units) /\ Len(<<>>) = 0
        /\ <<"Welcome">> \in Seq(Units) /\ Len(<<"Welcome">>) = 1 + Len(<<>>)
        /\ <<"Welcome">>[1] = "Welcome"
    BY DEF Units
  <2>3. \A i \in 1 .. 0 : FALSE
    OBVIOUS
  <2>4. \A i \in 1 .. Len(<<>>) : <<"Welcome">>[i + 1] = <<>>[i]
    BY <2>2, <2>3
  <2>5. QED
    BY <2>1, <2>2, <2>4, OneBefore
<1>5. Said("ata", "message") = <<"Flags", "flags", "serial">>
  <2>1. Said("ata", "message") = <<"Flags">> \o <<"flags", "serial">>
    BY DEF Said, Sites
  <2>2. /\ "Flags" \in Units /\ <<"flags", "serial">> \in Seq(Units) /\ Len(<<"flags", "serial">>) = 2
        /\ <<"Flags", "flags", "serial">> \in Seq(Units) /\ Len(<<"Flags", "flags", "serial">>) = 1 + Len(<<"flags", "serial">>)
        /\ <<"Flags", "flags", "serial">>[1] = "Flags"
    BY DEF Units
  <2>3. \A i \in 1 .. 2 : i = 1 \/ i = 2
    OBVIOUS
  <2>4. \A i \in 1 .. Len(<<"flags", "serial">>) : <<"Flags", "flags", "serial">>[i + 1] = <<"flags", "serial">>[i]
    BY <2>2, <2>3
  <2>5. QED
    BY <2>1, <2>2, <2>4, OneBefore
<1>6. Said("panic", "message") = <<"Panic", "exception">>
  <2>1. Said("panic", "message") = <<"Panic">> \o <<"exception">>
    BY DEF Said, Sites
  <2>2. /\ "Panic" \in Units /\ <<"exception">> \in Seq(Units) /\ Len(<<"exception">>) = 1
        /\ <<"Panic", "exception">> \in Seq(Units) /\ Len(<<"Panic", "exception">>) = 1 + Len(<<"exception">>)
        /\ <<"Panic", "exception">>[1] = "Panic"
    BY DEF Units
  <2>3. \A i \in 1 .. 1 : i = 1
    OBVIOUS
  <2>4. \A i \in 1 .. Len(<<"exception">>) : <<"Panic", "exception">>[i + 1] = <<"exception">>[i]
    BY <2>2, <2>3
  <2>5. QED
    BY <2>1, <2>2, <2>4, OneBefore
<1>7. Said("abort", "message") = <<"Aborted", "expression", "line">>
  <2>1. Said("abort", "message") = <<"Aborted">> \o <<"expression", "line">>
    BY DEF Said, Sites
  <2>2. /\ "Aborted" \in Units /\ <<"expression", "line">> \in Seq(Units) /\ Len(<<"expression", "line">>) = 2
        /\ <<"Aborted", "expression", "line">> \in Seq(Units) /\ Len(<<"Aborted", "expression", "line">>) = 1 + Len(<<"expression", "line">>)
        /\ <<"Aborted", "expression", "line">>[1] = "Aborted"
    BY DEF Units
  <2>3. \A i \in 1 .. 2 : i = 1 \/ i = 2
    OBVIOUS
  <2>4. \A i \in 1 .. Len(<<"expression", "line">>) : <<"Aborted", "expression", "line">>[i + 1] = <<"expression", "line">>[i]
    BY <2>2, <2>3
  <2>5. QED
    BY <2>1, <2>2, <2>4, OneBefore
<1>8. Said("ubsan", "message") = <<"Undefined", "kind", "file", "line", "col">>
  <2>1. Said("ubsan", "message") = <<"Undefined">> \o <<"kind", "file", "line", "col">>
    BY DEF Said, Sites
  <2>2. /\ "Undefined" \in Units /\ <<"kind", "file", "line", "col">> \in Seq(Units) /\ Len(<<"kind", "file", "line", "col">>) = 4
        /\ <<"Undefined", "kind", "file", "line", "col">> \in Seq(Units) /\ Len(<<"Undefined", "kind", "file", "line", "col">>) = 1 + Len(<<"kind", "file", "line", "col">>)
        /\ <<"Undefined", "kind", "file", "line", "col">>[1] = "Undefined"
    BY DEF Units
  <2>3. \A i \in 1 .. 4 : i = 1 \/ i = 2 \/ i = 3 \/ i = 4
    OBVIOUS
  <2>4. \A i \in 1 .. Len(<<"kind", "file", "line", "col">>) : <<"Undefined", "kind", "file", "line", "col">>[i + 1] = <<"kind", "file", "line", "col">>[i]
    BY <2>2, <2>3
  <2>5. QED
    BY <2>1, <2>2, <2>4, OneBefore
<1>9. Said("device", "message") = <<"Adding", "name", "id">>
  <2>1. Said("device", "message") = <<"Adding">> \o <<"name", "id">>
    BY DEF Said, Sites
  <2>2. /\ "Adding" \in Units /\ <<"name", "id">> \in Seq(Units) /\ Len(<<"name", "id">>) = 2
        /\ <<"Adding", "name", "id">> \in Seq(Units)
        /\ Len(<<"Adding", "name", "id">>) = 1 + Len(<<"name", "id">>)
        /\ <<"Adding", "name", "id">>[1] = "Adding"
    BY DEF Units
  <2>3. \A i \in 1 .. 2 : i = 1 \/ i = 2
    OBVIOUS
  <2>4. \A i \in 1 .. Len(<<"name", "id">>) : <<"Adding", "name", "id">>[i + 1] = <<"name", "id">>[i]
    BY <2>2, <2>3
  <2>5. QED
    BY <2>1, <2>2, <2>4, OneBefore
<1>10. Said("readerror", "message") = <<"Error", "bus", "drive", "lba">>
  <2>1. Said("readerror", "message") = <<"Error">> \o <<"bus", "drive", "lba">>
    BY DEF Said, Sites, ReadError
  <2>2. /\ "Error" \in Units /\ <<"bus", "drive", "lba">> \in Seq(Units) /\ Len(<<"bus", "drive", "lba">>) = 3
        /\ <<"Error", "bus", "drive", "lba">> \in Seq(Units)
        /\ Len(<<"Error", "bus", "drive", "lba">>) = 1 + Len(<<"bus", "drive", "lba">>)
        /\ <<"Error", "bus", "drive", "lba">>[1] = "Error"
    BY DEF Units
  <2>3. \A i \in 1 .. 3 : i = 1 \/ i = 2 \/ i = 3
    OBVIOUS
  <2>4. \A i \in 1 .. Len(<<"bus", "drive", "lba">>) :
          <<"Error", "bus", "drive", "lba">>[i + 1] = <<"bus", "drive", "lba">>[i]
    BY <2>2, <2>3
  <2>5. QED
    BY <2>1, <2>2, <2>4, OneBefore
<1>11. QED
  BY <1>1, <1>3, <1>4, <1>5, <1>6, <1>7, <1>8, <1>9, <1>10 DEF Location

(***************************************************************************)
(* The steps.                                                              *)
(***************************************************************************)
LEMMA InitHolds == Init => IInv
<1>1. ASSUME Init PROVE IInv
  <2>1. site \notin DOMAIN Sites /\ site \notin Fatal
    BY <1>1 DEF Init, Sites, Fatal, None
  <2>2. TypeOK
    BY <1>1 DEF Init, TypeOK, Levels, Outputs, Causes
  <2>3. SiteOfCause /\ TextSoFar
    BY <1>1, <2>1 DEF Init, SiteOfCause, TextSoFar, Printed, None
  <2>4. PartsOrdered /\ ItemShape
    BY <1>1 DEF Init, PartsOrdered, Ordered, ItemShape, ArgumentOf
  <2>5. ReadErrorPending /\ BreaksOff
    BY <1>1 DEF Init, ReadErrorPending, BreaksOff, None
  <2>6. QED
    BY <2>2, <2>3, <2>4, <2>5 DEF IInv
<1>2. QED
  BY <1>1

LEMMA SiteIsNone == None \notin DOMAIN Sites /\ \A s \in DOMAIN Sites : s # None
  BY DEF Sites, None

(* A call begins, whatever was being printed (logger.c:47-63).             *)
LEMMA CallBegins ==
  ASSUME IInv, NEW s \in DOMAIN Sites, Calling(s, Sites[s].lvl >= level)
  PROVE  /\ site' = s /\ level' = level /\ output' = output /\ thr' = thr
         /\ todo' \in Seq(PartsOf(output)) /\ PartsOrdered' /\ ItemShape'
         /\ Sites[s].lvl >= level => \A o \in output : Got(s, todo', item', o) = <<>>
         /\ ReadErrorPending'
<1>1. output \in SUBSET Outputs
  BY DEF IInv, TypeOK
<1>2. /\ site' = s /\ level' = level /\ output' = output /\ thr' = thr /\ item' = 1 /\ ap' = 1
      /\ todo' = IF Sites[s].lvl >= level THEN Parts(output) ELSE <<>>
  BY DEF Calling, logger
<1>3. /\ Parts(output) \in Seq(PartsOf(output)) /\ Ordered(Parts(output))
      /\ \A o \in output : Got(s, Parts(output), 1, o) = <<>>
      /\ \A o \in output : HasMessage(Parts(output), o)
  BY <1>1, Begins
<1>4. todo' \in Seq(PartsOf(output)) /\ Ordered(todo')
  BY <1>2, <1>3 DEF Ordered
<1>5. PartsOrdered'
  BY <1>2, <1>4, SiteIsNone DEF PartsOrdered, Printed, Ordered
<1>6. ItemShape'
  <2>1. ASSUME todo' # <<>> PROVE Len(Said(s, todo'[1][1])) \in Nat
    <3>1. todo'[1] \in PartsOf(output)
      BY <1>4, <2>1, ElementOfSeq, EmptySeq
    <3>2. todo'[1][1] \in {"header", "message"}
      BY <3>1 DEF PartsOf
    <3>3. QED
      BY <3>2, SaidFacts
  <2>2. QED
    BY <1>2, <2>1 DEF ItemShape, ArgumentOf, part
<1>7. ReadErrorPending'
  BY <1>2, <1>3 DEF ReadErrorPending, Printed
<1>8. QED
  BY <1>2, <1>3, <1>4, <1>5, <1>6, <1>7

LEMMA LogPreserves == ASSUME IInv, NEW s \in DOMAIN Sites \ Fatal, kernel_logger_log(s) PROVE IInv'
<1>1. /\ cause = None /\ cause' = None /\ text' = [o \in Outputs |-> <<>>]
      /\ Calling(s, Sites[s].lvl >= level)
  BY DEF kernel_logger_log, Idle
<1>2. /\ site' = s /\ level' = level /\ output' = output /\ thr' = thr
      /\ todo' \in Seq(PartsOf(output)) /\ PartsOrdered' /\ ItemShape' /\ ReadErrorPending'
      /\ Sites[s].lvl >= level => \A o \in output : Got(s, todo', item', o) = <<>>
  BY <1>1, CallBegins
<1>3. TypeOK'
  BY <1>1, <1>2 DEF IInv, TypeOK, PartsOf
<1>4. SiteOfCause'
  BY <1>1, <1>2 DEF SiteOfCause, None
<1>5. TextSoFar'
  BY <1>1, <1>2 DEF TextSoFar, Printed
<1>6. BreaksOff'
  BY <1>1 DEF BreaksOff, None
<1>7. QED
  BY <1>2, <1>3, <1>4, <1>5, <1>6 DEF IInv

LEMMA SettingPreserves ==
  ASSUME IInv, kernel_logger_set_level \/ kernel_logger_set_output PROVE IInv'
<1>1. /\ todo = <<>> /\ cause = None /\ site' = None /\ level' \in Levels /\ output' \in SUBSET Outputs
      /\ UNCHANGED <<todo, item, ap, thr, text, cause>>
  BY DEF kernel_logger_set_level, kernel_logger_set_output, Setting, Idle, IInv, TypeOK
<1>2. TypeOK'
  BY <1>1 DEF IInv, TypeOK
<1>3. SiteOfCause'
  BY <1>1 DEF SiteOfCause, None, Fatal
<1>4. PartsOrdered' /\ ItemShape'
  BY <1>1 DEF IInv, PartsOrdered, Ordered, ItemShape
<1>5. TextSoFar'
  BY <1>1 DEF TextSoFar, Printed
<1>6. ReadErrorPending' /\ BreaksOff'
  BY <1>1 DEF ReadErrorPending, BreaksOff, None
<1>7. QED
  BY <1>2, <1>3, <1>4, <1>5, <1>6 DEF IInv

(* The kernel stops by a call whose level is always printed; what was said *)
(* before it is followed by what it says (UBSan.c:84-86, libc's stdlib.c). *)
LEMMA StopPreserves ==
  ASSUME IInv, NEW s \in Fatal, NEW why \in Causes \ {None}, Stop(s, why),
         why = "failure" => s \in {"panic", "abort"},
         why = "undefined" => s \in {"ubsan", "panic"},
         why = "format" => s = "abort" /\ \A o \in output : text[o] = BrokenOff(o),
         \A o \in output : IsSuffix(Prior(s, why), text[o])
  PROVE  IInv'
<1>1. s \in DOMAIN Sites /\ Sites[s].lvl = 4
  <2>1. s \in DOMAIN Sites
    BY DEF Fatal, Sites
  <2>2. QED
    BY <2>1, SiteFacts
<1>2. cause' = why /\ text' = text /\ Calling(s, Sites[s].lvl >= level)
  BY DEF Stop
<1>3. Sites[s].lvl >= level
  BY <1>1 DEF IInv, TypeOK, Levels
<1>4. /\ site' = s /\ level' = level /\ output' = output /\ thr' = thr
      /\ todo' \in Seq(PartsOf(output)) /\ PartsOrdered' /\ ItemShape'
      /\ \A o \in output : Got(s, todo', item', o) = <<>>
      /\ ReadErrorPending'
  BY <1>1, <1>2, <1>3, CallBegins
<1>5. TypeOK'
  BY <1>1, <1>2, <1>4 DEF IInv, TypeOK, PartsOf
<1>6. SiteOfCause'
  BY <1>2, <1>4 DEF SiteOfCause
<1>7. Prior(s, why) \in Seq(Units)
  <2>1. Location \in Seq(Units) /\ <<>> \in Seq(Units)
    BY SayingFacts
  <2>2. QED
    BY <2>1 DEF Prior
<1>8. TextSoFar'
  <2>1. ASSUME NEW o \in output
        PROVE  IsSuffix(Prior(site', cause') \o Got(site', todo', item', o), text'[o])
    <3>1. Prior(s, why) \o <<>> = Prior(s, why)
      BY <1>7, ConcatEmptySeq
    <3>2. QED
      BY <1>2, <1>4, <3>1
  <2>2. QED
    BY <1>2, <1>4, <2>1 DEF TextSoFar
<1>9. BreaksOff'
  <2>1. ASSUME why = "format", NEW o \in output
        PROVE  text'[o] = BrokenOff(o) \o Got(site', todo', item', o)
    <3>1. text[o] = BrokenOff(o) /\ text[o] \in Seq(Units)
      BY <2>1 DEF IInv, TypeOK
    <3>2. text[o] \o <<>> = text[o]
      BY <3>1, ConcatEmptySeq
    <3>3. Got(site', todo', item', o) = <<>>
      BY <1>4
    <3>4. QED
      BY <1>2, <3>1, <3>2, <3>3
  <2>2. \A o : BrokenOff(o)' = BrokenOff(o)
    BY <1>4 DEF BrokenOff, First
  <2>3. QED
    BY <1>2, <1>4, <2>1, <2>2 DEF BreaksOff
<1>10. QED
  BY <1>4, <1>5, <1>6, <1>8, <1>9 DEF IInv

(* Where the printing is, while a part is in progress.                     *)
LEMMA PartFacts ==
  ASSUME IInv, todo # <<>>
  PROVE  /\ site \in DOMAIN Sites /\ Printed /\ output \in SUBSET Outputs
         /\ todo \in Seq(PartsOf(output)) /\ Ordered(todo)
         /\ part \in {"header", "message"} /\ dest \in output /\ part = todo[1][1] /\ dest = todo[1][2]
         /\ Format(part) = FormatOf(site, part) /\ Arguments(part) = ArgumentsOf(site, part)
         /\ item \in 1 .. Len(Said(site, part)) + 1
<1>1. /\ site \in DOMAIN Sites /\ Printed /\ output \in SUBSET Outputs
      /\ todo \in Seq(PartsOf(output)) /\ Ordered(todo)
  BY SiteIsNone DEF IInv, TypeOK, PartsOrdered, Printed, PartsOf
<1>2. todo[1] \in PartsOf(output)
  BY <1>1, ElementOfSeq, EmptySeq
<1>3. part \in {"header", "message"} /\ dest \in output
  BY <1>2 DEF PartsOf, part, dest
<1>4. Format(part) = FormatOf(site, part) /\ Arguments(part) = ArgumentsOf(site, part)
  BY DEF Format, FormatOf, Arguments, ArgumentsOf
<1>5. item \in 1 .. Len(Said(site, part)) + 1
  BY <1>1, <1>3, SaidFacts DEF IInv, ItemShape
<1>6. QED
  BY <1>1, <1>3, <1>4, <1>5 DEF part, dest

LEMMA BrokenOffIsSeq == ASSUME NEW o PROVE BrokenOff(o) \in Seq(Units)
<1>1. Header \in Seq(Units) /\ <<>> \in Seq(Units) /\ <<"Error">> \in Seq(Units)
  BY DEF Header, Units
<1>2. QED
  BY <1>1, ConcatProperties DEF BrokenOff

(* The port is waited for, so that a unit reaches its output               *)
(* (serial.c:45, 81-88).                                                   *)
LEMMA UnitPreserves ==
  ASSUME IInv, todo # <<>>, NEW u, u = Said(site, part)[item], item =< Len(Said(site, part)),
         serial_put(u), item' = item + 1, ap' = ArgumentOf(item + 1),
         site = "readerror" /\ part = "message" => item = 1,
         UNCHANGED <<level, output, site, todo, cause>>
  PROVE  IInv'
<1>1. /\ site \in DOMAIN Sites /\ Printed /\ output \in SUBSET Outputs
      /\ todo \in Seq(PartsOf(output)) /\ Ordered(todo)
      /\ part \in {"header", "message"} /\ dest \in output /\ part = todo[1][1] /\ dest = todo[1][2]
      /\ item \in 1 .. Len(Said(site, part))
  BY PartFacts, SaidFacts
<1>2. /\ Said(site, part) \in Seq(Units) /\ Len(Said(site, part)) \in Nat /\ u \in Units
  BY <1>1, SaidFacts, ElementOfSeq
<1>3. text \in [Outputs -> Seq(Units)] /\ dest \in Outputs /\ text[dest] \in Seq(Units)
  BY <1>1 DEF IInv, TypeOK
<1>4. /\ text' = [text EXCEPT ![dest] = Append(text[dest], u)] /\ thr' \in {"empty", "full"}
  <2>1. dest = "serial" => thr # "full"
    BY DEF serial_put
  <2>2. QED
    BY <1>3, <2>1 DEF serial_put, IInv, TypeOK
<1>5. Append(text[dest], u) \in Seq(Units)
  BY <1>2, <1>3, AppendProperties
<1>6. /\ text' \in [Outputs -> Seq(Units)] /\ text'[dest] = Append(text[dest], u)
      /\ \A o \in Outputs \ {dest} : text'[o] = text[o]
  BY <1>3, <1>4, <1>5
<1>7. TypeOK'
  BY <1>4, <1>6 DEF IInv, TypeOK
<1>8. SiteOfCause' /\ PartsOrdered'
  BY DEF IInv, SiteOfCause, PartsOrdered, Printed
<1>9. ItemShape'
  BY <1>1, <1>2 DEF ItemShape, part
<1>10. /\ Got(site, todo, item', dest) = Append(Got(site, todo, item, dest), u)
       /\ \A o \in Outputs \ {dest} : Got(site, todo, item', o) = Got(site, todo, item, o)
  BY <1>1, Prints
<1>11. ASSUME cause # None
       PROVE  IsSuffix(Prior(site, cause) \o Got(site, todo, item', dest), text'[dest])
  <2> DEFINE p == Prior(site, cause)
             g == Got(site, todo, item, dest)
  <2>1. IsSuffix(p \o g, text[dest])
    BY <1>1, <1>3, <1>11 DEF IInv, TextSoFar
  <2>2. g \in Seq(Units)
    <3>1. item \in Nat \ {0} /\ item =< Len(Said(site, todo[1][1])) + 1
      BY <1>1, <1>2
    <3>2. QED
      BY <1>1, <3>1, GotIsSeq
  <2>3. p \in Seq(Units)
    BY SayingFacts DEF Prior
  <2>4. p \o g \in Seq(Units)
    BY <2>2, <2>3, ConcatProperties
  <2>5. Got(site, todo, item', dest) = Append(g, u)
    BY <1>10
  <2> HIDE DEF p, g
  <2>6. IsSuffix(Append(p \o g, u), Append(text[dest], u))
    BY <1>2, <1>3, <2>1, <2>4, SuffixAppended
  <2>7. p \o Append(g, u) = Append(p \o g, u)
    <3>1. p \o (g \o <<u>>) = (p \o g) \o <<u>>
      BY <1>2, <2>2, <2>3, Tuples, ConcatAssociative
    <3>2. QED
      BY <1>2, <2>2, <2>4, <3>1, AppendIsConcat
  <2>8. QED
    BY <1>6, <2>5, <2>6, <2>7 DEF p
<1>12. TextSoFar'
  <2>1. ASSUME NEW o \in Outputs \ {dest} PROVE text'[o] = text[o] /\ Got(site, todo, item', o) = Got(site, todo, item, o)
    BY <1>6, <1>10
  <2>2. Printed'
    BY <1>1 DEF Printed
  <2>3. cause = None => text'[dest] = Got(site, todo, item', dest)
    BY <1>1, <1>3, <1>6, <1>10 DEF IInv, TextSoFar
  <2>4. ASSUME NEW o \in Outputs
        PROVE  IF o \in output
               THEN IF cause = None THEN text'[o] = Got(site, todo, item', o)
                    ELSE IsSuffix(Prior(site, cause) \o Got(site, todo, item', o), text'[o])
               ELSE cause = None => text'[o] = <<>>
    <3>1. CASE o = dest
      BY <1>1, <1>11, <2>3, <3>1
    <3>2. CASE o # dest
      <4>1. IF o \in output
            THEN IF cause = None THEN text[o] = Got(site, todo, item, o)
                 ELSE IsSuffix(Prior(site, cause) \o Got(site, todo, item, o), text[o])
            ELSE cause = None => text[o] = <<>>
        BY <1>1, SiteIsNone DEF IInv, TextSoFar
      <4>2. QED
        BY <2>1, <3>2, <4>1
    <3>3. QED
      BY <3>1, <3>2
  <2>5. QED
    BY <2>2, <2>4 DEF TextSoFar
<1>13. ReadErrorPending'
  BY <1>1 DEF IInv, ReadErrorPending, Printed, part
<1>14. BreaksOff'
  <2>1. ASSUME cause = "format", NEW o \in output
        PROVE  text'[o] = BrokenOff(o) \o Got(site, todo, item', o)
    <3>1. text[o] = BrokenOff(o) \o Got(site, todo, item, o)
      BY <2>1 DEF IInv, BreaksOff
    <3>2. CASE o = dest
      <4> DEFINE b == BrokenOff(dest)
                 g == Got(site, todo, item, dest)
      <4>1. b \in Seq(Units) /\ g \in Seq(Units) /\ <<u>> \in Seq(Units)
        BY <1>1, <1>2, GotIsSeq, BrokenOffIsSeq
      <4>2. text[dest] = b \o g /\ text'[dest] = Append(text[dest], u)
            /\ Got(site, todo, item', dest) = Append(g, u)
        BY <1>6, <1>10, <3>1, <3>2
      <4> HIDE DEF b, g
      <4>3. b \o (g \o <<u>>) = (b \o g) \o <<u>> /\ b \o g \in Seq(Units)
        BY <4>1, ConcatAssociative, ConcatProperties
      <4>4. b \o Append(g, u) = Append(b \o g, u)
        BY <1>2, <4>1, <4>3, AppendIsConcat
      <4>5. QED
        BY <3>2, <4>2, <4>4 DEF b
    <3>3. CASE o # dest
      <4>1. o \in Outputs \ {dest}
        BY <1>1, <3>3
      <4>2. QED
        BY <1>6, <1>10, <3>1, <4>1
    <3>4. QED
      BY <3>2, <3>3
  <2>2. \A o : BrokenOff(o)' = BrokenOff(o)
    BY DEF BrokenOff, First
  <2>3. QED
    BY <2>1, <2>2 DEF BreaksOff
<1>15. QED
  BY <1>7, <1>8, <1>9, <1>12, <1>13, <1>14 DEF IInv

LEMMA CharPreserves == ASSUME IInv, put_char PROVE IInv'
<1>1. todo # <<>> /\ item \in DOMAIN Format(part) /\ Format(part)[item] \notin Option
  BY DEF put_char, Busy, AnItem
<1>2. /\ site \in DOMAIN Sites /\ part \in {"header", "message"} /\ Format(part) = FormatOf(site, part)
      /\ item \in 1 .. Len(Said(site, part))
  BY <1>1, PartFacts, SaidFacts
<1>3. item = 1 /\ Format(part)[item] = Said(site, part)[item]
  <2>1. \A i \in 2 .. Len(Said(site, part)) : Format(part)[i] \in Option
    BY <1>2, SaidFacts
  <2>2. item \notin 2 .. Len(Said(site, part)) /\ Len(Said(site, part)) \in Nat
    BY <1>1, <1>2, <2>1, SaidFacts
  <2>3. item = 1
    BY <1>2, <2>2
  <2>4. QED
    BY <1>2, <2>3, SaidFacts
<1>4. /\ serial_put(Format(part)[item]) /\ item' = item + 1 /\ ap' = ap
      /\ UNCHANGED <<level, output, site, todo, cause>>
  BY DEF put_char, logger
<1>5. ap' = ArgumentOf(item + 1)
  BY <1>3, <1>4 DEF IInv, ItemShape, ArgumentOf
<1>6. QED
  BY <1>1, <1>2, <1>3, <1>4, <1>5, UnitPreserves

(* The messages of a read error are not begun but for one, on the first    *)
(* output: nothing has got to the others behind their header.              *)
LEMMA AtTheBus ==
  ASSUME IInv, todo # <<>>, site = "readerror", part = "message", item = 2, NEW o \in output
  PROVE  text[o] = BrokenOff(o)
<1>1. /\ site \in DOMAIN Sites /\ Printed /\ output \in SUBSET Outputs
      /\ todo \in Seq(PartsOf(output)) /\ Ordered(todo)
      /\ dest \in output /\ todo[1][1] = "message" /\ dest = todo[1][2]
      /\ todo[1] = <<"message", dest>>
  <2>1. todo[1] \in PartsOf(output)
    BY PartFacts, ElementOfSeq, EmptySeq
  <2>2. todo[1] = <<todo[1][1], todo[1][2]>>
    BY <2>1 DEF PartsOf
  <2>3. QED
    BY <2>2, PartFacts
<1>2. cause = None
  BY DEF IInv, TypeOK, SiteOfCause, Causes, None
<1>3. text[o] = Got(site, todo, 2, o)
  BY <1>1, <1>2, SiteIsNone DEF IInv, TextSoFar
<1>4. 1 \in DOMAIN todo /\ \A k \in DOMAIN todo : k = 1 \/ 1 < k
  BY <1>1, EmptySeq, LenProperties
<1>5. \A k \in DOMAIN todo : todo[k] # <<"header", o>>
  <2>1. ASSUME NEW k \in DOMAIN todo, todo[k] = <<"header", o>> PROVE FALSE
    <3>1. todo[k][1] = "header"
      BY <2>1
    <3>2. k # 1 /\ 1 < k
      BY <1>1, <1>4, <3>1
    <3>3. todo[1][1] = "header"
      BY <1>1, <1>4, <3>1, <3>2 DEF Ordered
    <3>4. QED
      BY <1>1, <3>3
  <2>2. QED
    BY <2>1
<1>6. GotPart(site, todo, 2, "header", o) = Header
  BY <1>4, <1>5 DEF GotPart, Said
<1>7. PICK k \in DOMAIN todo : todo[k] = <<"message", o>>
  BY <1>1 DEF IInv, ReadErrorPending, HasMessage
<1>8. dest = First
  <2>1. CASE dest = "serial"
    BY <1>1, <2>1 DEF First
  <2>2. CASE dest = "screen"
    <3>1. ASSUME "serial" \in output PROVE FALSE
      <4>1. PICK j \in DOMAIN todo : todo[j] = <<"message", "serial">>
        BY <1>1, <3>1 DEF IInv, ReadErrorPending, HasMessage
      <4>2. /\ <<"message", "serial">>[1] = "message" /\ <<"message", "serial">>[2] = "serial"
            /\ <<"message", "screen">>[2] = "screen" /\ "serial" # "screen"
        OBVIOUS
      <4>3. todo[j][1] = "message" /\ todo[j][2] = "serial"
        BY <4>1, <4>2
      <4>4. j # 1
        BY <1>1, <2>2, <4>2, <4>3
      <4>5. 1 < j
        BY <1>4, <4>4
      <4>6. QED
        BY <1>1, <1>4, <4>3, <4>5 DEF Ordered
    <3>2. QED
      BY <2>2, <3>1 DEF First
  <2>3. QED
    BY <1>1, <2>1, <2>2 DEF Outputs
<1>9. CASE o = First
  <2>1. GotPart(site, todo, 2, "message", o) = SubSeq(Said(site, "message"), 1, 1)
    BY <1>1, <1>8, <1>9 DEF GotPart
  <2>2. /\ Said(site, "message") \in Seq(Units) /\ Len(Said(site, "message")) \in Nat \ {0}
        /\ Said(site, "message")[1] = "Error"
    <3>1. FormatOf(site, "message")[1] = "Error"
      BY DEF FormatOf, Sites, ReadError
    <3>2. QED
      BY <1>1, <3>1, SaidFacts
  <2>3. SubSeq(Said(site, "message"), 1, 1) = <<"Error">>
    <3> DEFINE w == Said(site, "message")
    <3>1. w \in Seq(Units) /\ 1 \in 1 .. Len(w) /\ w[1] = "Error"
      BY <2>2
    <3> HIDE DEF w
    <3>2. SubSeq(w, 1, 1) = SubSeq(w, 1, 1 - 1) \o <<w[1]>>
      BY <3>1, SubSeqRecursiveSecond
    <3>3. SubSeq(w, 1, 1 - 1) = <<>> /\ <<"Error">> \in Seq(Units)
      BY <3>1, SubSeqEmpty DEF Units
    <3>4. <<>> \o <<"Error">> = <<"Error">>
      BY <3>3, ConcatEmptySeq
    <3>5. QED
      BY <3>1, <3>2, <3>3, <3>4 DEF w
  <2>4. QED
    BY <1>3, <1>6, <1>9, <2>1, <2>3 DEF Got, BrokenOff
<1>10. CASE o # First
  <2>1. todo[1] # <<"message", o>>
    BY <1>1, <1>8, <1>10
  <2>2. GotPart(site, todo, 2, "message", o) = <<>>
    BY <1>7, <2>1 DEF GotPart
  <2>3. QED
    BY <1>3, <1>6, <1>10, <2>2 DEF Got, BrokenOff
<1>11. QED
  BY <1>9, <1>10

(* An option is followed by its argument, and one that the loop does not   *)
(* know fails its assertion (serial.c:120-139, stdio.c:16-35).             *)
LEMMA OptionPreserves == ASSUME IInv, put_option PROVE IInv'
<1>1. todo # <<>> /\ item \in DOMAIN Format(part) /\ Format(part)[item] \in Option
  BY DEF put_option, Busy, AnItem
<1>2. /\ site \in DOMAIN Sites /\ part \in {"header", "message"} /\ Format(part) = FormatOf(site, part)
      /\ Arguments(part) = ArgumentsOf(site, part) /\ item \in 1 .. Len(Said(site, part))
  BY <1>1, PartFacts, SaidFacts
<1>3. item # 1 /\ Len(Said(site, part)) \in Nat
  BY <1>1, <1>2, SaidFacts
<1>4. item \in 2 .. Len(Said(site, part)) /\ ap = item - 1
  BY <1>2, <1>3 DEF IInv, ItemShape, ArgumentOf
<1>5. /\ Argument = Said(site, part)[item]
      /\ Format(part)[item] \in Unsupported <=> site = "readerror" /\ part = "message" /\ item = 2
  BY <1>2, <1>4, SaidFacts DEF Argument
<1>6. CASE Format(part)[item] \notin Unsupported
  <2>1. /\ serial_put(Argument) /\ item' = item + 1 /\ ap' = ap + 1
        /\ UNCHANGED <<level, output, site, todo, cause>>
    BY <1>6 DEF put_option, PrintOption, logger
  <2>2. ap' = ArgumentOf(item + 1)
    BY <1>4, <2>1 DEF ArgumentOf
  <2>3. ~(site = "readerror" /\ part = "message")
    <3>1. site = "readerror" /\ part = "message" => item =< 2
      BY <1>1, PartFacts DEF IInv, ReadErrorPending
    <3>2. QED
      BY <1>4, <1>5, <1>6, <3>1
  <2>4. QED
    BY <1>1, <1>2, <1>4, <1>5, <2>1, <2>2, <2>3, UnitPreserves
<1>7. CASE Format(part)[item] \in Unsupported
  <2>1. Stop("abort", "format")
    BY <1>7 DEF put_option
  <2>2. \A o \in output : text[o] = BrokenOff(o)
    BY <1>1, <1>5, <1>7, AtTheBus
  <2>3. \A o \in output : IsSuffix(<<>>, text[o])
    BY EmptySuffix DEF IInv, TypeOK
  <2>4. Prior("abort", "format") = <<>>
    BY DEF Prior
  <2>5. "abort" \in Fatal /\ "format" \in Causes \ {None}
    BY DEF Fatal, Causes, None
  <2>6. QED
    BY <2>1, <2>2, <2>3, <2>4, <2>5, StopPreserves
<1>8. QED
  BY <1>6, <1>7

(* The next part starts over with the first argument (logger.c:66-98).     *)
LEMMA ReturnPreserves == ASSUME IInv, vprintf_returns PROVE IInv'
<1>1. /\ todo # <<>> /\ item \notin DOMAIN Format(part)
      /\ todo' = Tail(todo) /\ item' = 1 /\ ap' = 1
      /\ UNCHANGED <<level, output, site, thr, text, cause>>
  BY DEF vprintf_returns, Returned, Busy, AnItem, logger
<1>2. /\ site \in DOMAIN Sites /\ Printed /\ output \in SUBSET Outputs
      /\ todo \in Seq(PartsOf(output)) /\ Ordered(todo)
      /\ part \in {"header", "message"} /\ part = todo[1][1]
      /\ item = Len(Said(site, part)) + 1
  <2>1. DOMAIN Format(part) = 1 .. Len(Said(site, part)) /\ Len(Said(site, part)) \in Nat
    BY <1>1, PartFacts, SaidFacts
  <2>2. QED
    BY <1>1, <2>1, PartFacts
<1>3. /\ todo' \in Seq(PartsOf(output)) /\ Ordered(todo')
      /\ \A o \in Outputs : Got(site, todo', item', o) = Got(site, todo, item, o)
      /\ \A o : HasMessage(todo, o) /\ part = "header" => HasMessage(todo', o)
  BY <1>1, <1>2, Returns
<1>4. TypeOK'
  BY <1>1, <1>3 DEF IInv, TypeOK, PartsOf
<1>5. SiteOfCause' /\ PartsOrdered'
  BY <1>1, <1>2, <1>3 DEF IInv, SiteOfCause, PartsOrdered, Printed
<1>6. ItemShape'
  <2>1. ASSUME todo' # <<>> PROVE Len(Said(site, todo'[1][1])) \in Nat
    <3>1. todo'[1] \in PartsOf(output)
      BY <1>3, <2>1, ElementOfSeq, EmptySeq
    <3>2. todo'[1][1] \in {"header", "message"}
      BY <3>1 DEF PartsOf
    <3>3. QED
      BY <1>2, <3>2, SaidFacts
  <2>2. QED
    BY <1>1, <2>1 DEF ItemShape, ArgumentOf, part
<1>7. TextSoFar'
  <2>1. Printed'
    BY <1>1, <1>2 DEF Printed
  <2>2. QED
    BY <1>1, <1>2, <1>3, <2>1 DEF IInv, TextSoFar
<1>8. ReadErrorPending'
  <2>1. ASSUME site = "readerror" PROVE part = "header"
    <3>1. part = "message" => item =< 2
      BY <1>1, <1>2, <2>1 DEF IInv, ReadErrorPending
    <3>2. Sites[site].fmt = <<"Error", "%0", "%s", "%d">>
      BY <2>1 DEF Sites, ReadError
    <3>3. part = "message" => DOMAIN Format(part) = 1 .. 4
      BY <3>2 DEF Format
    <3>4. item \in Nat \ {0}
      BY DEF IInv, ItemShape
    <3>5. QED
      BY <1>1, <1>2, <3>1, <3>3, <3>4
  <2>2. QED
    BY <1>1, <1>2, <1>3, <2>1 DEF IInv, ReadErrorPending
<1>9. BreaksOff'
  <2>1. \A o : BrokenOff(o)' = BrokenOff(o)
    BY <1>1 DEF BrokenOff, First
  <2>2. QED
    BY <1>1, <1>2, <1>3, <2>1 DEF IInv, BreaksOff
<1>10. QED
  BY <1>4, <1>5, <1>6, <1>7, <1>8, <1>9 DEF IInv

(* A failure, at any moment; undefined behaviour, and the panic after it.  *)
LEMMA FailurePreserves == ASSUME IInv, Fail \/ __ubsan_handle \/ ubsan_panic PROVE IInv'
<1>1. text \in [Outputs -> Seq(Units)] /\ output \in SUBSET Outputs
  BY DEF IInv, TypeOK
<1>2. \A o \in output : IsSuffix(<<>>, text[o])
  BY <1>1, EmptySuffix
<1>3. CASE Fail
  <2>1. PICK s \in {"panic", "abort"} : Stop(s, "failure")
    BY <1>3 DEF Fail
  <2>2. Prior(s, "failure") = <<>>
    BY DEF Prior
  <2>3. s \in Fatal /\ "failure" \in Causes \ {None}
    BY DEF Fatal, Causes, None
  <2>4. QED
    BY <1>2, <2>1, <2>2, <2>3, StopPreserves
<1>4. CASE __ubsan_handle
  <2>1. Prior("ubsan", "undefined") = <<>> /\ Stop("ubsan", "undefined")
    BY <1>4 DEF Prior, __ubsan_handle
  <2>2. "ubsan" \in Fatal /\ "undefined" \in Causes \ {None}
    BY DEF Fatal, Causes, None
  <2>3. QED
    BY <1>2, <2>1, <2>2, StopPreserves
<1>5. CASE ubsan_panic
  <2>1. site = "ubsan" /\ todo = <<>> /\ Stop("panic", "undefined")
    BY <1>5 DEF ubsan_panic
  <2>2. site \in DOMAIN Sites /\ Sites[site].lvl = 4 /\ site \in Fatal
    BY <2>1, SiteFacts DEF Sites, Fatal
  <2>3. Printed
    BY <2>2, SiteIsNone DEF Printed, IInv, TypeOK, Levels
  <2>4. cause # None
    BY <2>2 DEF IInv, SiteOfCause
  <2>5. ASSUME NEW o \in output PROVE IsSuffix(Prior("panic", "undefined"), text[o])
    <3>1. IsSuffix(Prior(site, cause) \o Got(site, todo, item, o), text[o])
      BY <1>1, <2>3, <2>4 DEF IInv, TextSoFar
    <3>2. Prior(site, cause) = <<>> /\ Got(site, todo, item, o) = Location
      BY <2>1, <2>2, SaidAll, SayingFacts DEF Prior
    <3>3. <<>> \o Location = Location
      BY SayingFacts, ConcatEmptySeq
    <3>4. QED
      BY <3>1, <3>2, <3>3 DEF Prior
  <2>6. "panic" \in Fatal /\ "undefined" \in Causes \ {None}
    BY DEF Fatal, Causes, None
  <2>7. QED
    BY <2>1, <2>5, <2>6, StopPreserves
<1>6. QED
  BY <1>3, <1>4, <1>5

LEMMA NextPreserves == ASSUME IInv, [Next]_vars PROVE IInv'
<1>1. ASSUME UNCHANGED <<logger, site, todo, item, ap, text, cause>>, thr' \in {"empty", "full"}
      PROVE  IInv'
  BY <1>1 DEF IInv, TypeOK, SiteOfCause, PartsOrdered, ItemShape, TextSoFar, Printed, logger, part,
              ReadErrorPending, HasMessage, BreaksOff, BrokenOff, First
<1>2. CASE UNCHANGED vars \/ hlt
  BY <1>1, <1>2 DEF vars, call, hlt, IInv, TypeOK
<1>3. CASE serial_write_str \/ Transmit
  BY <1>1, <1>3 DEF serial_write_str, Flushed, Transmit, call, IInv, TypeOK
<1>4. QED
  BY <1>2, <1>3, LogPreserves, SettingPreserves, FailurePreserves, CharPreserves, OptionPreserves,
     ReturnPreserves DEF Next, Printing

-------------------------------------------------------------------------------
(***************************************************************************)
(* The theorems.                                                           *)
(***************************************************************************)
(* The inductive invariant: the parts come in their order, each item with  *)
(* its argument, and what an output has got is what stands before them.    *)
THEOREM InvariantHolds == Spec => []IInv
<1>1. Init => IInv
  BY InitHolds
<1>2. IInv /\ [Next]_vars => IInv'
  BY NextPreserves
<1>3. QED
  BY <1>1, <1>2, PTL DEF Spec

(* A read error that is logged ends in the assertion of the format loop,   *)
(* and what each output has got then is exact (ata.c:141, serial.c:137-139,*)
(* stdio.c:33-35).                                                         *)
THEOREM ReadErrorsStop == Spec => []ReadErrorStops
<1>1. ASSUME IInv, site = "readerror", todo = <<>>
      PROVE  Sites[site].lvl < level \/ output = {}
  <2>1. ~Printed \/ output = {}
    <3>1. ASSUME NEW o \in output, Printed PROVE FALSE
      <4>1. \E k \in DOMAIN todo : todo[k] = <<"message", o>>
        BY <1>1, <3>1 DEF IInv, ReadErrorPending, HasMessage
      <4>2. QED
        BY <1>1, <4>1
    <3>2. QED
      BY <3>1
  <2>2. site \in DOMAIN Sites /\ Sites[site].lvl \in Levels
    BY <1>1, SiteFacts DEF Sites
  <2>3. QED
    BY <1>1, <2>1, <2>2, SiteIsNone DEF Printed, IInv, TypeOK, Levels
<1>2. ASSUME IInv, cause = "format", todo = <<>>, NEW o \in output
      PROVE  text[o] = BrokenOff(o) \o Meant
  <2>1. site = "abort" /\ site \in DOMAIN Sites
    BY <1>2 DEF IInv, SiteOfCause, Sites
  <2>2. Got(site, todo, item, o) = Header \o Said("abort", "message")
    BY <1>2, <2>1, SaidAll
  <2>3. Meant = Header \o <<"Aborted", "expression", "line">>
    BY <2>1 DEF Meant
  <2>4. QED
    BY <1>2, <2>2, <2>3, SayingFacts DEF IInv, BreaksOff
<1>3. IInv => ReadErrorStops
  BY <1>1, <1>2 DEF ReadErrorStops
<1>4. QED
  BY <1>3, InvariantHolds, PTL

(* Whatever fails in the middle of whatever message, all that the last     *)
(* call says has got to every output that is on when it has returned       *)
(* (logger.c:35, 66-98, serial.c:109-149).                                 *)
THEOREM AllIsLogged == Spec => []LoggedInFull
<1>1. ASSUME IInv, todo = <<>>, site # None, NEW o \in Outputs
      PROVE  IF o \in output /\ Sites[site].lvl >= level
             THEN IF cause = None THEN text[o] = Meant ELSE IsSuffix(Meant, text[o])
             ELSE cause = None => text[o] = <<>>
  <2>1. site \in DOMAIN Sites
    BY <1>1 DEF IInv, TypeOK
  <2>2. Got(site, todo, item, o) = Header \o Said(site, "message")
    BY <1>1, <2>1, SaidAll
  <2>3. Header \o Said(site, "message") \in Seq(Units)
    BY <2>1, SaidFacts, SayingFacts, ConcatProperties
  <2>4. Meant = Prior(site, cause) \o Got(site, todo, item, o)
    <3>1. <<>> \o (Header \o Said(site, "message")) = Header \o Said(site, "message")
      BY <2>3, ConcatEmptySeq
    <3>2. site \in {"welcome", "device", "ata", "readerror", "panic", "abort", "ubsan"}
      BY <2>1, SiteFacts
    <3>3. CASE site = "panic" /\ cause = "undefined"
      <4>1. Meant = Location \o Header \o <<"Panic", "exception">>
        BY <3>3 DEF Meant
      <4>2. (Location \o Header) \o <<"Panic", "exception">> = Location \o (Header \o <<"Panic", "exception">>)
        <5> DEFINE words == <<"Panic", "exception">>
        <5>1. words \in Seq(Units)
          BY DEF Units
        <5>2. Location \in Seq(Units) /\ Header \in Seq(Units)
          BY SayingFacts
        <5> HIDE DEF words
        <5>3. (Location \o Header) \o words = Location \o (Header \o words)
          BY <5>1, <5>2, ConcatAssociative
        <5>4. QED
          BY <5>3 DEF words
      <4>3. QED
        BY <2>2, <3>3, <4>1, <4>2, SayingFacts DEF Prior
    <3>4. CASE ~(site = "panic" /\ cause = "undefined")
      <4>1. Prior(site, cause) = <<>>
        BY <3>4 DEF Prior
      <4>2. CASE site = "panic"
        <5>1. Meant = <<>> \o Header \o <<"Panic", "exception">>
          BY <3>4, <4>2 DEF Meant
        <5>2. <<>> \o Header = Header
          BY SayingFacts, ConcatEmptySeq
        <5>3. QED
          BY <2>2, <3>1, <4>1, <4>2, <5>1, <5>2, SayingFacts
      <4>3. CASE site # "panic"
        <5>1. Meant = Header \o Said(site, "message")
          BY <3>2, <4>3, SayingFacts DEF Meant
        <5>2. QED
          BY <2>2, <3>1, <4>1, <5>1
      <4>4. QED
        BY <4>2, <4>3
    <3>5. QED
      BY <3>3, <3>4
  <2>5. cause = None => Prior(site, cause) = <<>>
    BY DEF Prior, None
  <2>6. <<>> \o Got(site, todo, item, o) = Got(site, todo, item, o)
    BY <2>2, <2>3, ConcatEmptySeq
  <2>7. QED
    BY <1>1, <2>4, <2>5, <2>6 DEF IInv, TextSoFar, Printed
<1>2. IInv => LoggedInFull
  BY <1>1 DEF LoggedInFull
<1>3. QED
  BY <1>2, InvariantHolds, PTL
===============================================================================
