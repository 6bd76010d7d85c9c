---------------------------- MODULE BenchProofs -----------------------------
(***************************************************************************)
(* The loop that calibrate sizes, for any target, any reading of the clock *)
(* and an int of any width; and the text that print_run writes of any run, *)
(* read back by the reporter for what Python's emitter writes of it.       *)
(***************************************************************************)
EXTENDS Bench, TLAPS, WellFoundedInduction, SequenceTheorems

\* A quotient of whole nanoseconds: as many calls as the target has room for.
LEMMA QuotientFits ==
  ASSUME NEW t \in Nat, NEW o \in Nat, o > 0
  PROVE  /\ t \div o \in Nat
         /\ (t \div o) * o <= t
         /\ (t \div o + 1) * o > t
<1> DEFINE q == t \div o
           r == t % o
<1>1. t = o * q + r
  OBVIOUS
<1>2. r \in 0..(o - 1) /\ q \in Int
  OBVIOUS
<1> HIDE DEF q, r
<1>3. q * o = o * q /\ (q + 1) * o = o * q + o
  BY <1>2
<1>4. q >= 0
  <2>1. SUFFICES ASSUME q <= -1
                 PROVE  FALSE
    BY <1>2
  <2>2. o * q <= o * (-1)
    BY <1>2, <2>1
  <2>3. QED
    BY <1>1, <1>2, <2>2
<1>5. q \in Nat /\ q * o <= t /\ (q + 1) * o > t
  BY <1>1, <1>2, <1>3, <1>4
<1>6. QED
  BY <1>5 DEF q

\* Less of a loop than the quotient fits, too.
LEMMA ShorterFits ==
  ASSUME NEW o \in Nat, NEW q \in Nat, NEW k \in Nat, k <= q
  PROVE  k * o <= q * o
  OBVIOUS

-----------------------------------------------------------------------------
(* The invariant: what a call of collect is, with what LoopFitsTheTarget   *)
(* says of it.  A loop that the caller sizes has timed no call.            *)

CallRecords == [samples : Samples \cup {0}, target : Nat, once : Nat]

IInv == call \in CallRecords /\ n \in Int /\ LoopFitsTheTarget

LEMMA InitFits == Init => IInv
  BY DEF Init, IInv, NoCall, CallRecords, LoopFitsTheTarget

\* What the quotient of two doubles may be: it fits, too, and lacks a call at most.
LEMMA QuotientNearby ==
  ASSUME NEW t \in Nat, NEW o \in Nat, o > 0, NEW x \in Quotient(t, o)
  PROVE  /\ x \in Nat /\ x <= t \div o
         /\ x * o <= t /\ (x + 1) * o >= t
<1> DEFINE exact == t \div o
<1>1. exact \in Nat /\ exact * o <= t /\ (exact + 1) * o > t
  BY QuotientFits
<1>2. exact * o \in Int /\ (exact + 1) * o \in Int
  BY <1>1
<1>3. CASE x = exact
  BY <1>1, <1>2, <1>3
<1>4. CASE x # exact
  <2>1. t > 0 /\ t % o = 0 /\ x = exact - 1
    BY <1>4 DEF Quotient
  <2>2. t = o * exact + (t % o)
    OBVIOUS
  <2> HIDE DEF exact
  <2>3. exact * o = t
    BY <1>1, <2>1, <2>2
  <2>4. exact > 0
    BY <1>1, <2>1, <2>3
  <2>5. x \in Nat /\ x <= exact /\ x + 1 = exact
    BY <1>1, <2>1, <2>4
  <2>6. x * o <= exact * o /\ x * o \in Int
    BY <1>1, <2>5, ShorterFits
  <2>7. x * o <= t /\ (x + 1) * o >= t
    BY <2>3, <2>5, <2>6
  <2>8. QED
    BY <2>5, <2>7 DEF exact
<1>5. QED
  BY <1>3, <1>4

\* What calibrate makes of the target and of the one call it timed.
LEMMA CalibratedFits ==
  ASSUME NEW t \in Nat, NEW o \in Nat, o > 0, NEW x \in Quotient(t, o), NEW q \in Cast(x),
         NEW k, k = IF q < 1 THEN 1 ELSE q
  PROVE  /\ k \in Int /\ k >= 1
         /\ k > 1 => k * o <= t
         /\ t \div o <= IntMax => (k + 1) * o >= t
<1> DEFINE exact == t \div o
<1>1. /\ x \in Nat /\ x <= exact /\ exact \in Nat
      /\ x * o <= t /\ (x + 1) * o >= t
  BY QuotientNearby, QuotientFits
<1>2. IntMax \in Nat
  BY WidthAssumption
<1>3. (x <= IntMax /\ q = x) \/ (x > IntMax /\ q \in -IntMax - 1..IntMax)
  BY <1>1, <1>2 DEF Cast
<1> HIDE DEF exact
<1>4. k \in Int /\ k >= 1
  BY <1>1, <1>2, <1>3
<1>5. ASSUME k > 1
      PROVE  k * o <= t
  <2>1. k = q /\ k \in Nat /\ k <= x
    BY <1>1, <1>2, <1>3, <1>5
  <2>2. k * o <= x * o
    BY <1>1, <2>1, ShorterFits
  <2>3. k * o \in Int /\ x * o \in Int
    BY <1>1, <2>1
  <2>4. QED
    BY <1>1, <2>2, <2>3
<1>6. ASSUME exact <= IntMax
      PROVE  (k + 1) * o >= t
  <2>1. k \in Nat /\ x + 1 <= k + 1
    BY <1>1, <1>2, <1>3, <1>6
  <2>2. (x + 1) * o <= (k + 1) * o
    BY <1>1, <2>1, ShorterFits
  <2>3. (k + 1) * o \in Int /\ (x + 1) * o \in Int
    BY <1>1, <2>1
  <2>4. QED
    BY <1>1, <2>2, <2>3
<1>7. QED
  BY <1>4, <1>5, <1>6 DEF exact

LEMMA FitsStep ==
  ASSUME IInv, [Next]_vars
  PROVE  IInv'
<1>1. CASE Collect
  <2>1. PICK samples \in Samples, target \in Targets, inner \in Inners :
          /\ call' = [samples |-> samples, target |-> target, once |-> 0]
          /\ n' = inner
    BY <1>1 DEF Collect
  <2>2. target \in Nat /\ inner \in Nat
    BY TimesAssumption
  <2>3. QED
    BY <2>1, <2>2 DEF IInv, CallRecords, LoopFitsTheTarget
<1>2. CASE Calibrate
  <2>1. PICK e \in Elapsed :
          LET once == IF e = 0 THEN 1 ELSE e IN
          \E q \in UNION {Cast(x) : x \in Quotient(call.target, once)} :
            /\ call' = [call EXCEPT !.once = once]
            /\ n' = IF q < 1 THEN 1 ELSE q
    BY <1>2 DEF Calibrate
  <2> DEFINE once == IF e = 0 THEN 1 ELSE e
  <2>2. once \in Nat /\ once > 0 /\ call.target \in Nat
    BY TimesAssumption DEF IInv, CallRecords
  <2>3. PICK x \in Quotient(call.target, once) :
          \E q \in Cast(x) :
            /\ call' = [call EXCEPT !.once = once]
            /\ n' = IF q < 1 THEN 1 ELSE q
    BY <2>1
  <2>7. PICK q \in Cast(x) :
          /\ call' = [call EXCEPT !.once = once]
          /\ n' = IF q < 1 THEN 1 ELSE q
    BY <2>3
  <2> HIDE DEF once
  <2>4. call' \in CallRecords /\ call'.once = once /\ call'.target = call.target
    BY <2>2, <2>7 DEF IInv, CallRecords
  <2>5. /\ n' \in Int /\ n' >= 1
        /\ n' > 1 => n' * once <= call.target
        /\ call.target \div once <= IntMax => (n' + 1) * once >= call.target
    BY <2>2, <2>7, CalibratedFits
  <2>6. QED
    BY <2>4, <2>5 DEF IInv, LoopFitsTheTarget
<1>3. CASE Sample
  BY <1>3 DEF Sample, IInv, LoopFitsTheTarget
<1>4. CASE Emit
  BY <1>4 DEF Emit, IInv, NoCall, CallRecords, LoopFitsTheTarget
<1>5. CASE Throw \/ PrintRun \/ Load
  BY <1>5 DEF Throw, PrintRun, Load, IInv, LoopFitsTheTarget
<1>6. CASE UNCHANGED vars
  BY <1>6 DEF vars, IInv, LoopFitsTheTarget
<1>7. QED
  BY <1>1, <1>2, <1>3, <1>4, <1>5, <1>6 DEF Next

(***************************************************************************)
(* A loop that calibrate sizes runs at least once, no longer than the      *)
(* target unless it is one call, and as long as the target allows where    *)
(* its size fits an int (bench.hpp, calibrate); where it does not, what    *)
(* the cast gives is no loop longer than the target either.  The division  *)
(* of the doubles may lack a call where the times divide.                  *)
(***************************************************************************)
THEOREM CalibratedLoopsFit == Spec => []LoopFitsTheTarget
<1>1. IInv => LoopFitsTheTarget
  BY DEF IInv
<1>2. QED
  BY <1>1, InitFits, FitsStep, PTL DEF Spec

-----------------------------------------------------------------------------
(* Induction, over sets: the natural numbers are well founded, so that a   *)
(* set of them that holds 0 and every successor lacks no least number.     *)

\* The induction every proof below rests on.
LEMMA SetInduction ==
  ASSUME NEW S \in SUBSET Nat, 0 \in S, \A k \in S : k + 1 \in S
  PROVE  S = Nat
<1> DEFINE Less == OpToRel(<, Nat)
           Rest == Nat \ S
<1>1. \A i, j \in Nat : <<i, j>> \in Less <=> i < j
  BY DEF OpToRel
<1>2. IsWellFoundedOn(Less, Nat)
  BY NatLessThanWellFounded
<1> HIDE DEF Less
<1>3. SUFFICES ASSUME Rest # {} PROVE FALSE
  OBVIOUS
<1>4. PICK m \in Rest : \A k \in Rest : ~ (<<k, m>> \in Less)
  <2>1. Rest \subseteq Nat
    OBVIOUS
  <2>2. QED
    BY <1>2, <1>3, <2>1, WFMin
<1>5. m # 0 /\ m - 1 \in Nat /\ m - 1 < m
  OBVIOUS
<1>6. m - 1 \notin Rest
  BY <1>1, <1>4, <1>5
<1>7. QED
  BY <1>5, <1>6

\* The greatest number of a set that is not empty and has a bound.
LEMMA MaxOfBounded ==
  ASSUME NEW m \in Nat, NEW I \in SUBSET (1..m), I # {}
  PROVE  Max(I) \in I /\ \A k \in I : Max(I) >= k
<1> DEFINE Found == {b \in Nat : \A J \in SUBSET (1..b) : J # {} => \E x \in J : \A y \in J : x >= y}
<1>1. 0 \in Found
  <2>1. 1..0 = {}
    OBVIOUS
  <2>2. QED
    BY <2>1
<1>2. ASSUME NEW b \in Found PROVE b + 1 \in Found
  <2>1. SUFFICES ASSUME NEW J \in SUBSET (1..b + 1), J # {}
                 PROVE  \E x \in J : \A y \in J : x >= y
    OBVIOUS
  <2>2. CASE b + 1 \in J
    BY <2>2
  <2>3. CASE b + 1 \notin J
    <3>1. J \subseteq 1..b
      BY <2>3
    <3>2. QED
      BY <2>1, <3>1
  <2>4. QED
    BY <2>2, <2>3
<1>3. Found = Nat
  <2> HIDE DEF Found
  <2>1. Found \in SUBSET Nat
    BY DEF Found
  <2>2. QED
    BY <1>1, <1>2, <2>1, SetInduction
<1>4. \E x \in I : \A y \in I : x >= y
  BY <1>3
<1>5. QED
  BY <1>4 DEF Max

-----------------------------------------------------------------------------
(* The recursive functions of the reader and of the emitter: each is the   *)
(* function that its equation says, which takes an induction of its own.   *)

Reads(f, r, t, m) == f = [i \in 0..m |-> IF i = 0 THEN r ELSE Read(f[i - 1], t[i])]

\* There is a function of the states the reader goes through.
LEMMA ReaderStates ==
  ASSUME NEW r, NEW t, NEW m \in Nat
  PROVE  \E f : Reads(f, r, t, m)
<1> DEFINE Has == {k \in Nat : \E f : Reads(f, r, t, k)}
<1>1. 0 \in Has
  <2> DEFINE f == [i \in 0..0 |-> r]
  <2>1. Reads(f, r, t, 0)
    BY DEF Reads
  <2>2. QED
    BY <2>1
<1>2. ASSUME NEW k \in Has PROVE k + 1 \in Has
  <2>1. PICK f : Reads(f, r, t, k)
    BY <1>2
  <2> DEFINE g == [i \in 0..k + 1 |-> IF i = k + 1 THEN Read(f[k], t[k + 1]) ELSE f[i]]
  <2>2. ASSUME NEW i \in 0..k + 1
        PROVE  g[i] = IF i = 0 THEN r ELSE Read(g[i - 1], t[i])
    <3>1. CASE i = k + 1
      BY <3>1
    <3>2. CASE i # k + 1
      <4>1. i \in 0..k /\ g[i] = f[i] /\ (i # 0 => i - 1 \in 0..k /\ g[i - 1] = f[i - 1])
        BY <3>2
      <4>2. QED
        BY <2>1, <4>1 DEF Reads
    <3>3. QED
      BY <3>1, <3>2
  <2>3. Reads(g, r, t, k + 1)
    BY <2>2 DEF Reads
  <2>4. QED
    BY <2>3
<1>3. Has = Nat
  <2> HIDE DEF Has
  <2>1. Has \in SUBSET Nat
    BY DEF Has
  <2>2. QED
    BY <1>1, <1>2, <2>1, SetInduction
<1>4. QED
  BY <1>3

\* f is the reader's states along a piece: r, and after each symbol what is read of it.
Follows(f, r, piece) ==
  /\ f[0] = r
  /\ \A i \in 1..Len(piece) : f[i] = Read(f[i - 1], piece[i])
  /\ ReadPiece(r, piece) = f[Len(piece)]

\* What a piece reads as is the last of those states.
LEMMA PieceIsFollowed ==
  ASSUME NEW r, NEW piece, Len(piece) \in Nat
  PROVE  \E f : Follows(f, r, piece)
<1> DEFINE after == CHOOSE f : Reads(f, r, piece, Len(piece))
<1>1. Reads(after, r, piece, Len(piece))
  BY ReaderStates
<1>2. ReadPiece(r, piece) = after[Len(piece)]
  BY DEF ReadPiece, Reads
<1> HIDE DEF after
<1>3. after[0] = r
  BY <1>1 DEF Reads
<1>4. ASSUME NEW i \in 1..Len(piece) PROVE after[i] = Read(after[i - 1], piece[i])
  BY <1>1 DEF Reads
<1>5. Follows(after, r, piece)
  BY <1>2, <1>3, <1>4 DEF Follows
<1>6. QED
  BY <1>5

-----------------------------------------------------------------------------
(* A piece of a text, read: pieces in a row read as one.                   *)

\* Nothing read leaves the reader as it is.
LEMMA PieceOfNone ==
  ASSUME NEW r
  PROVE  ReadPiece(r, <<>>) = r
<1>1. PICK f : Follows(f, r, <<>>)
  BY PieceIsFollowed
<1>2. QED
  BY <1>1 DEF Follows

\* A piece of one symbol is that symbol read.
LEMMA PieceOfOne ==
  ASSUME NEW r, NEW c
  PROVE  ReadPiece(r, <<c>>) = Read(r, c)
<1>1. Len(<<c>>) = 1 /\ <<c>>[1] = c
  OBVIOUS
<1>2. PICK f : Follows(f, r, <<c>>)
  BY <1>1, PieceIsFollowed
<1>3. f[1] = Read(f[0], c)
  BY <1>1, <1>2 DEF Follows
<1>4. QED
  BY <1>1, <1>2, <1>3 DEF Follows

\* Two runs of the reader that start alike and read alike go on alike.
LEMMA RunsAgree ==
  ASSUME NEW f, NEW g, NEW m \in Nat, f[0] = g[0],
         \A i \in 1..m : f[i - 1] = g[i - 1] => f[i] = g[i]
  PROVE  f[m] = g[m]
<1> DEFINE Agree == {k \in Nat : k <= m => f[k] = g[k]}
<1>1. 0 \in Agree
  OBVIOUS
<1>2. ASSUME NEW k \in Agree PROVE k + 1 \in Agree
  <2>1. SUFFICES ASSUME k + 1 <= m PROVE f[k + 1] = g[k + 1]
    OBVIOUS
  <2>2. k + 1 \in 1..m /\ (k + 1) - 1 = k /\ f[k] = g[k]
    BY <1>2, <2>1
  <2>3. QED
    BY <2>2
<1>3. Agree = Nat
  <2> HIDE DEF Agree
  <2>1. Agree \in SUBSET Nat
    BY DEF Agree
  <2>2. QED
    BY <1>1, <1>2, <2>1, SetInduction
<1>4. QED
  BY <1>3

\* Two pieces read one after the other are read as the two in one.
LEMMA PieceOfBoth ==
  ASSUME NEW X, NEW s \in Seq(X), NEW t \in Seq(X), NEW r
  PROVE  ReadPiece(r, s \o t) = ReadPiece(ReadPiece(r, s), t)
<1> DEFINE st == s \o t
           m == Len(s)
<1>1. /\ st \in Seq(X) /\ m \in Nat /\ Len(t) \in Nat /\ Len(st) = m + Len(t) /\ Len(st) \in Nat
      /\ \A i \in 1..m : st[i] = s[i]
      /\ \A i \in 1..Len(t) : st[m + i] = t[i]
  OBVIOUS
<1> HIDE DEF st, m
<1>2. PICK f : Follows(f, r, s)
  BY <1>1, PieceIsFollowed DEF m
<1>3. PICK g : Follows(g, f[m], t)
  BY <1>1, PieceIsFollowed
<1>4. PICK h : Follows(h, r, st)
  BY <1>1, PieceIsFollowed
<1>5. h[m] = f[m]
  <2>1. ASSUME NEW i \in 1..m, h[i - 1] = f[i - 1] PROVE h[i] = f[i]
    <3>1. i \in 1..Len(st)
      BY <1>1
    <3>2. h[i] = Read(h[i - 1], st[i]) /\ f[i] = Read(f[i - 1], s[i])
      BY <1>2, <1>4, <3>1 DEF Follows, m
    <3>3. QED
      BY <1>1, <2>1, <3>2
  <2>2. QED
    BY <1>1, <1>2, <1>4, <2>1, RunsAgree DEF Follows
<1>6. h[m + Len(t)] = g[Len(t)]
  <2> DEFINE rest == [i \in 0..Len(t) |-> h[m + i]]
  <2>1. rest[0] = g[0]
    BY <1>1, <1>3, <1>5 DEF Follows
  <2>2. ASSUME NEW i \in 1..Len(t), rest[i - 1] = g[i - 1] PROVE rest[i] = g[i]
    <3>1. m + i \in 1..Len(st) /\ (m + i) - 1 = m + (i - 1) /\ i - 1 \in 0..Len(t) /\ i \in 0..Len(t)
      BY <1>1
    <3>2. h[m + i] = Read(h[m + (i - 1)], st[m + i])
      BY <1>4, <3>1 DEF Follows
    <3>3. QED
      BY <1>1, <1>3, <2>2, <3>1, <3>2 DEF Follows
  <2>3. rest[Len(t)] = h[m + Len(t)]
    BY <1>1
  <2> HIDE DEF rest
  <2>4. QED
    BY <1>1, <2>1, <2>2, <2>3, RunsAgree, ZenonT(30)
<1>7. QED
  BY <1>1, <1>2, <1>3, <1>4, <1>6 DEF st, Follows

\* What cannot be read stays so.
LEMMA PieceOfBad ==
  ASSUME NEW X, NEW t \in Seq(X), NEW r, r.mode = "bad"
  PROVE  ReadPiece(r, t) = r
<1>1. PICK f : Follows(f, r, t)
  <2>1. Len(t) \in Nat
    OBVIOUS
  <2>2. QED
    BY <2>1, PieceIsFollowed
<1> DEFINE g == [i \in 0..Len(t) |-> r]
<1>2. Len(t) \in Nat /\ g[0] = r /\ g[Len(t)] = r
  OBVIOUS
<1>3. ASSUME NEW i \in 1..Len(t), f[i - 1] = g[i - 1] PROVE f[i] = g[i]
  <2>1. i - 1 \in 0..Len(t) /\ i \in 0..Len(t)
    OBVIOUS
  <2>2. f[i - 1] = r /\ g[i] = r
    BY <1>3, <2>1
  <2>3. Read(r, t[i]) = r
    BY DEF Read
  <2>4. f[i] = Read(f[i - 1], t[i])
    BY <1>1 DEF Follows
  <2>5. QED
    BY <2>2, <2>3, <2>4
<1> HIDE DEF g
<1>4. QED
  BY <1>1, <1>2, <1>3, RunsAgree, ZenonT(30) DEF Follows

-----------------------------------------------------------------------------
(* The text in pieces reads as the text.                                   *)

Piece(t, k) == SubSeq(t, (k - 1) * PieceLen + 1, Min({k * PieceLen, Len(t)}))

ReadsPieces(f, t, m) ==
  f = [k \in 0..m |->
         IF k = 0 THEN Reading
         ELSE LET before == f[k - 1] IN
              IF before.mode = "bad" THEN before ELSE ReadPiece(before, Piece(t, k))]

\* There is a function of the states at the ends of the pieces.
LEMMA PieceStates ==
  ASSUME NEW t, NEW m \in Nat
  PROVE  \E f : ReadsPieces(f, t, m)
<1> DEFINE Next_(r, k) == IF r.mode = "bad" THEN r ELSE ReadPiece(r, Piece(t, k))
           Has == {k \in Nat : \E f : ReadsPieces(f, t, k)}
<1>1. 0 \in Has
  <2> DEFINE f == [i \in 0..0 |-> Reading]
  <2>1. ReadsPieces(f, t, 0)
    BY DEF ReadsPieces
  <2>2. QED
    BY <2>1
<1>2. ASSUME NEW k \in Has PROVE k + 1 \in Has
  <2>1. PICK f : ReadsPieces(f, t, k)
    BY <1>2
  <2> DEFINE g == [i \in 0..k + 1 |-> IF i = k + 1 THEN Next_(f[k], k + 1) ELSE f[i]]
  <2>2. ASSUME NEW i \in 0..k + 1
        PROVE  g[i] = IF i = 0 THEN Reading ELSE Next_(g[i - 1], i)
    <3>1. CASE i = k + 1
      BY <3>1
    <3>2. CASE i # k + 1
      <4>1. i \in 0..k /\ g[i] = f[i] /\ (i # 0 => i - 1 \in 0..k /\ g[i - 1] = f[i - 1])
        BY <3>2
      <4>2. QED
        BY <2>1, <4>1 DEF ReadsPieces
    <3>3. QED
      BY <3>1, <3>2
  <2>3. ReadsPieces(g, t, k + 1)
    BY <2>2 DEF ReadsPieces
  <2>4. QED
    BY <2>3
<1>3. Has = Nat
  <2> HIDE DEF Has
  <2>1. Has \in SUBSET Nat
    BY DEF Has
  <2>2. QED
    BY <1>1, <1>2, <2>1, SetInduction
<1>4. QED
  BY <1>3

\* How much of the text the first k pieces hold.
Upto(t, k) == IF k * PieceLen <= Len(t) THEN k * PieceLen ELSE Len(t)

\* The pieces lie in the text, one where the last ended.
LEMMA UptoBounds ==
  ASSUME NEW X, NEW t \in Seq(X), NEW k \in Nat
  PROVE  /\ k * PieceLen \in Nat /\ Len(t) \in Nat
         /\ Upto(t, k) \in Nat /\ Upto(t, k + 1) \in Nat
         /\ Upto(t, k) <= Upto(t, k + 1) /\ Upto(t, k + 1) <= Len(t)
         /\ k * PieceLen <= Len(t) => Upto(t, k) = k * PieceLen
         /\ k * PieceLen > Len(t) => Upto(t, k) = Len(t) /\ Upto(t, k + 1) = Len(t)
         /\ Piece(t, k + 1) = SubSeq(t, k * PieceLen + 1, Upto(t, k + 1))
<1>1. Len(t) \in Nat /\ (k + 1) * PieceLen = k * PieceLen + PieceLen
  BY DEF PieceLen
<1>2. Min({(k + 1) * PieceLen, Len(t)}) = Upto(t, k + 1)
  BY <1>1 DEF PieceLen, Min, Upto
<1>3. Piece(t, k + 1) = SubSeq(t, k * PieceLen + 1, Upto(t, k + 1))
  <2>1. (k + 1) - 1 = k
    OBVIOUS
  <2>2. QED
    BY <1>2, <2>1 DEF Piece
<1>4. /\ k * PieceLen \in Nat
      /\ Upto(t, k) \in Nat /\ Upto(t, k + 1) \in Nat
      /\ Upto(t, k) <= Upto(t, k + 1) /\ Upto(t, k + 1) <= Len(t)
      /\ k * PieceLen <= Len(t) => Upto(t, k) = k * PieceLen
      /\ k * PieceLen > Len(t) => Upto(t, k) = Len(t) /\ Upto(t, k + 1) = Len(t)
  BY <1>1 DEF PieceLen, Upto
<1>5. QED
  BY <1>1, <1>3, <1>4

\* The text up to the end of a piece is the text before it and the piece.
LEMMA NextPiece ==
  ASSUME NEW X, NEW t \in Seq(X), NEW k \in Nat
  PROVE  /\ SubSeq(t, 1, Upto(t, k)) \in Seq(X)
         /\ Piece(t, k + 1) \in Seq(X)
         /\ SubSeq(t, 1, Upto(t, k + 1)) = SubSeq(t, 1, Upto(t, k)) \o Piece(t, k + 1)
<1> DEFINE a == Upto(t, k)
           b == Upto(t, k + 1)
           c == k * PieceLen
<1>1. /\ a \in Nat /\ b \in Nat /\ c \in Nat /\ Len(t) \in Nat /\ a <= b /\ b <= Len(t)
      /\ c <= Len(t) => a = c
      /\ c > Len(t) => a = Len(t) /\ b = Len(t)
      /\ Piece(t, k + 1) = SubSeq(t, c + 1, b)
  BY UptoBounds
<1> HIDE DEF a, b, c
<1>2. \A i \in 1..Len(t) : t[i] \in X
  OBVIOUS
<1>3. SubSeq(t, 1, a) \in Seq(X)
  <2>1. \A i \in 1..a : t[i] \in X
    BY <1>1, <1>2
  <2>2. QED
    BY <1>1, <2>1, SubSeqProperties
<1>4. SubSeq(t, c + 1, b) \in Seq(X)
  <2>1. \A i \in (c + 1)..b : t[i] \in X
    BY <1>1, <1>2
  <2>2. c + 1 \in Int /\ b \in Int
    BY <1>1
  <2>3. QED
    BY <2>1, <2>2, SubSeqProperties
<1>5. SubSeq(t, 1, b) = SubSeq(t, 1, a) \o SubSeq(t, c + 1, b)
  <2>1. CASE c <= Len(t)
    <3>1. 1 \in 1..Len(t) + 1 /\ a \in (1 - 1)..Len(t) /\ b \in a..Len(t) /\ a = c
      BY <1>1, <2>1
    <3>2. SubSeq(t, 1, a) \o SubSeq(t, a + 1, b) = SubSeq(t, 1, b)
      BY <3>1, ConcatAdjacentSubSeq
    <3>3. QED
      BY <3>1, <3>2
  <2>2. CASE c > Len(t)
    <3>1. a = b /\ c + 1 \in Int /\ b \in Int /\ b < c + 1
      BY <1>1, <2>2
    <3>2. SubSeq(t, c + 1, b) = <<>>
      BY <3>1, SubSeqEmpty
    <3>3. QED
      BY <1>3, <3>1, <3>2
  <2>3. c <= Len(t) \/ c > Len(t)
    BY <1>1
  <2>4. QED
    BY <2>1, <2>2, <2>3
<1>6. QED
  BY <1>1, <1>3, <1>4, <1>5 DEF a, b

\* Cut in pieces, as the model cuts it, or not: a text reads the same.
LEMMA ReadAllReads ==
  ASSUME NEW X, NEW t \in Seq(X)
  PROVE  ReadAll(t) = ReadPiece(Reading, t)
<1> DEFINE last == Len(t) \div PieceLen + 1
           after == CHOOSE f : ReadsPieces(f, t, last)
           Seen(k) == SubSeq(t, 1, Upto(t, k))
           Right == {k \in Nat : k <= last => after[k] = ReadPiece(Reading, Seen(k))}
<1>1. last \in Nat /\ Upto(t, 0) = 0 /\ Upto(t, last) = Len(t)
  BY DEF PieceLen, Upto
<1>2. ReadAll(t) = after[last]
  BY DEF ReadAll, ReadsPieces, Piece
<1>3. ReadsPieces(after, t, last)
  BY <1>1, PieceStates
<1> HIDE DEF after, last
<1>4. 0 \in Right
  <2>1. after[0] = Reading
    BY <1>1, <1>3 DEF ReadsPieces
  <2>2. Seen(0) = <<>>
    BY <1>1
  <2>3. QED
    BY <2>1, <2>2, PieceOfNone
<1>5. ASSUME NEW k \in Right PROVE k + 1 \in Right
  <2> DEFINE r == ReadPiece(Reading, Seen(k))
             p == Piece(t, k + 1)
  <2>1. k \in Nat /\ k + 1 \in Nat /\ (k <= last => after[k] = r)
    BY <1>5
  <2>2. SUFFICES ASSUME k + 1 <= last
                 PROVE  after[k + 1] = ReadPiece(Reading, Seen(k + 1))
    BY <2>1
  <2>3. /\ Seen(k) \in Seq(X) /\ p \in Seq(X)
        /\ Seen(k + 1) = Seen(k) \o p
    BY <2>1, NextPiece
  <2> HIDE DEF Right, Seen, p
  <2>4. after[k] = r /\ k + 1 \in 0..last /\ k + 1 # 0 /\ (k + 1) - 1 = k
    BY <1>1, <2>1, <2>2
  <2> HIDE DEF r
  <2>5. after[k + 1] = IF r.mode = "bad" THEN r ELSE ReadPiece(r, p)
    <3>1. after[k + 1] = IF after[k].mode = "bad" THEN after[k] ELSE ReadPiece(after[k], Piece(t, k + 1))
      BY <1>3, <2>4 DEF ReadsPieces
    <3>2. QED
      BY <2>4, <3>1 DEF p
  <2>6. ReadPiece(r, p) = ReadPiece(Reading, Seen(k + 1))
    <3>1. ReadPiece(Reading, Seen(k) \o p) = ReadPiece(ReadPiece(Reading, Seen(k)), p)
      BY <2>3, PieceOfBoth
    <3>2. QED
      BY <2>3, <3>1 DEF r
  <2>7. r.mode = "bad" => ReadPiece(r, p) = r
    BY <2>3, PieceOfBad
  <2>8. QED
    BY <2>5, <2>6, <2>7
<1>6. Right = Nat
  <2> HIDE DEF Right
  <2>1. Right \in SUBSET Nat
    BY DEF Right
  <2>2. QED
    BY <1>4, <1>5, <2>1, SetInduction
<1>7. after[last] = ReadPiece(Reading, Seen(last))
  <2>1. last \in Right
    BY <1>1, <1>6
  <2>2. QED
    BY <1>1, <2>1
<1>8. Seen(last) = t
  BY <1>1, SubSeqFull
<1>9. QED
  BY <1>2, <1>7, <1>8

\* What a text and the items it is made of are written in.
Marks ==
  {Quote, Backslash, Ch("["), Ch("]"), Ch("{"), Ch("}"), Ch(","), Ch(":"),
   Ch("u"), Ch("0"), Ch("1"), Ch("f"), Ch("n"), Ch("t"), Ch("r"),
   Ch("name"), Ch("unit"), Ch("s"), Ch("samples"), Ch("result"), Ch("meta"), Ch("cases"),
   Ch("bench"), Ch("selftest")}
Symbols ==
  Chars \cup Marks \cup {Num(v) : v \in Int} \cup {Word("NaN"), Word("Infinity"), Word("-Infinity")}
Texts == Seq(Symbols)

-----------------------------------------------------------------------------
(* A text that is put together from items is read item by item.            *)

Flattens(f, seqs, m) ==
  f = [i \in 1..m |-> IF i = 1 THEN seqs[i] ELSE f[i - 1] \o seqs[i]]

\* There is a function of the texts joined so far.
LEMMA FlattenStates ==
  ASSUME NEW seqs, NEW m \in Nat
  PROVE  \E f : Flattens(f, seqs, m)
<1> DEFINE Has == {k \in Nat : \E f : Flattens(f, seqs, k)}
<1>1. 0 \in Has
  <2>1. 1..0 = {}
    OBVIOUS
  <2> DEFINE f == [i \in 1..0 |-> seqs[i]]
  <2>2. Flattens(f, seqs, 0)
    BY <2>1 DEF Flattens
  <2>3. QED
    BY <2>2
<1>2. ASSUME NEW k \in Has PROVE k + 1 \in Has
  <2>1. PICK f : Flattens(f, seqs, k)
    BY <1>2
  <2> DEFINE last == IF k = 0 THEN seqs[1] ELSE f[k] \o seqs[k + 1]
             g == [i \in 1..k + 1 |-> IF i = k + 1 THEN last ELSE f[i]]
  <2>2. ASSUME NEW i \in 1..k + 1
        PROVE  g[i] = IF i = 1 THEN seqs[i] ELSE g[i - 1] \o seqs[i]
    <3>1. CASE i = k + 1 /\ k = 0
      BY <3>1
    <3>2. CASE i = k + 1 /\ k # 0
      <4>1. i # 1 /\ i - 1 \in 1..k + 1 /\ i - 1 = k /\ g[i - 1] = f[k]
        BY <3>2
      <4>2. QED
        BY <3>2, <4>1
    <3>3. CASE i # k + 1
      <4>1. i \in 1..k /\ g[i] = f[i] /\ (i # 1 => i - 1 \in 1..k /\ g[i - 1] = f[i - 1])
        BY <3>3
      <4>2. QED
        BY <2>1, <4>1 DEF Flattens
    <3>4. QED
      BY <3>1, <3>2, <3>3
  <2>3. Flattens(g, seqs, k + 1)
    BY <2>2 DEF Flattens
  <2>4. QED
    BY <2>3
<1>3. Has = Nat
  <2> HIDE DEF Has
  <2>1. Has \in SUBSET Nat
    BY DEF Has
  <2>2. QED
    BY <1>1, <1>2, <2>1, SetInduction
<1>4. QED
  BY <1>3

\* f is the reader's states between the items of a text, and item by item is how it goes.
Walks(f, r, seqs) ==
  /\ f[0] = r
  /\ \A i \in 1..Len(seqs) : f[i] = ReadPiece(f[i - 1], seqs[i])
  /\ ReadPiece(r, FlattenSeq(seqs)) = f[Len(seqs)]

\* Texts joined in one are a text, and it is read by reading each in turn.
LEMMA FlattenIsWalked ==
  ASSUME NEW X, NEW seqs \in Seq(Seq(X)), NEW r
  PROVE  /\ FlattenSeq(seqs) \in Seq(X)
         /\ \E f : Walks(f, r, seqs)
<1> DEFINE m == Len(seqs)
           flat == CHOOSE f : Flattens(f, seqs, m)
<1>1. m \in Nat /\ \A i \in 1..m : seqs[i] \in Seq(X)
  OBVIOUS
<1>2. CASE m = 0
  <2>1. seqs = <<>> /\ FlattenSeq(seqs) = <<>>
    BY <1>2 DEF FlattenSeq
  <2> DEFINE f == [i \in 0..0 |-> r]
  <2>2. f[0] = r
    OBVIOUS
  <2> HIDE DEF f
  <2>3. Walks(f, r, seqs)
    BY <2>1, <2>2, PieceOfNone DEF Walks
  <2>4. <<>> \in Seq(X)
    OBVIOUS
  <2>5. QED
    BY <2>1, <2>3, <2>4
<1>3. CASE m # 0
  <2>1. Flattens(flat, seqs, m)
    BY <1>1, FlattenStates
  <2>2. FlattenSeq(seqs) = flat[m]
    BY <1>3 DEF FlattenSeq, Flattens
  <2> HIDE DEF flat, m
  <2>3. \A i \in 1..m : flat[i] = IF i = 1 THEN seqs[i] ELSE flat[i - 1] \o seqs[i]
    BY <2>1 DEF Flattens
  <2> DEFINE Typed == {k \in Nat : k + 1 <= m => flat[k + 1] \in Seq(X)}
  <2>4. 0 \in Typed
    BY <1>1, <1>3, <2>3
  <2>5. ASSUME NEW k \in Typed PROVE k + 1 \in Typed
    <3>1. k \in Nat /\ (k + 1 <= m => flat[k + 1] \in Seq(X))
      BY <2>5
    <3>2. SUFFICES ASSUME (k + 1) + 1 <= m PROVE flat[(k + 1) + 1] \in Seq(X)
      BY <3>1
    <3>3. (k + 1) + 1 \in 1..m /\ (k + 1) + 1 # 1 /\ ((k + 1) + 1) - 1 = k + 1 /\ k + 1 <= m
      BY <1>1, <3>1, <3>2
    <3>4. flat[(k + 1) + 1] = flat[k + 1] \o seqs[(k + 1) + 1]
      BY <2>3, <3>3
    <3>5. flat[k + 1] \in Seq(X) /\ seqs[(k + 1) + 1] \in Seq(X)
      BY <1>1, <3>1, <3>3
    <3>6. QED
      BY <3>4, <3>5
  <2>6. Typed = Nat
    <3> HIDE DEF Typed
    <3>1. Typed \in SUBSET Nat
      BY DEF Typed
    <3>2. QED
      BY <2>4, <2>5, <3>1, SetInduction
  <2>7. \A i \in 1..m : flat[i] \in Seq(X)
    <3>1. SUFFICES ASSUME NEW i \in 1..m PROVE flat[i] \in Seq(X)
      OBVIOUS
    <3> HIDE DEF Typed
    <3>2. i - 1 \in Nat /\ (i - 1) + 1 = i /\ i <= m
      BY <1>1
    <3>3. i - 1 \in Typed
      BY <2>6, <3>2
    <3>4. QED
      BY <3>2, <3>3 DEF Typed
  <2> DEFINE f == [i \in 0..m |-> IF i = 0 THEN r ELSE ReadPiece(r, flat[i])]
  <2>8. f[0] = r /\ f[m] = ReadPiece(r, flat[m])
    BY <1>1, <1>3 DEF m
  <2>9. ASSUME NEW i \in 1..m PROVE f[i] = ReadPiece(f[i - 1], seqs[i])
    <3>1. i \in 0..m /\ i - 1 \in 0..m /\ f[i] = ReadPiece(r, flat[i])
      BY <1>1
    <3>2. CASE i = 1
      BY <2>3, <2>8, <3>1, <3>2
    <3>3. CASE i # 1
      <4>1. i - 1 \in 1..m /\ f[i - 1] = ReadPiece(r, flat[i - 1])
        BY <1>1, <3>3
      <4>2. flat[i] = flat[i - 1] \o seqs[i] /\ flat[i - 1] \in Seq(X) /\ seqs[i] \in Seq(X)
        BY <1>1, <2>3, <2>7, <3>3, <4>1
      <4>3. QED
        BY <3>1, <4>1, <4>2, PieceOfBoth, SMTT(20)
    <3>4. QED
      BY <3>2, <3>3
  <2> HIDE DEF f
  <2>10. Walks(f, r, seqs)
    BY <2>2, <2>8, <2>9 DEF Walks, m
  <2>11. flat[m] \in Seq(X)
    BY <1>1, <1>3, <2>7
  <2>12. QED
    BY <2>2, <2>10, <2>11
<1>4. QED
  BY <1>2, <1>3

-----------------------------------------------------------------------------
(* A string: whatever its characters, it is read as it was before it was   *)
(* escaped, and what is open around it is as it was.                       *)

State(mode, buffer, open, want, read) ==
  [mode |-> mode, buffer |-> buffer, open |-> open, want |-> want, read |-> read]

\* Nothing of a value is read; o is open, and w may come next.
Between(r, o, w) == \E b, x : r = State("plain", b, o, w, x)

\* A string is being read, of which s is known.
InString(r, o, w, s) == \E x : r = State("string", s, o, w, x)

\* r is what a value v leaves, read where w was wanted within o.
Leaves(r, o, w, v) == \E m, b, x : r = Deliver(State(m, b, o, w, x), v)

\* The fields of a state, one by one.
LEMMA StateFields ==
  ASSUME NEW m, NEW b, NEW o, NEW w, NEW x, NEW r, r = State(m, b, o, w, x)
  PROVE  r.mode = m /\ r.buffer = b /\ r.open = o /\ r.want = w /\ r.read = x
BY DEF State

\* What the reader does to its state, by name: the fields it sets are set and the others kept.
ToEscape(r) == [r EXCEPT !.mode = "escape"]
ToText(r) == [r EXCEPT !.mode = "string", !.buffer = <<>>]
ToDigits(r) == [r EXCEPT !.mode = "u", !.read = Str(<<>>)]
WithDigits(r, t) == [r EXCEPT !.read = Str(t)]
Buffered(r, c) == [r EXCEPT !.buffer = Append(@, c)]
Unescaped(r, c) == [r EXCEPT !.mode = "string", !.buffer = Append(@, c)]
Wanting(r, w) == [r EXCEPT !.want = w]
Opened(r, f, w) == [r EXCEPT !.open = Append(@, f), !.want = w]
Closed(r) == [r EXCEPT !.open = Front(@), !.want = "value"]
Ended(r, v) == [r EXCEPT !.mode = "plain", !.want = "end", !.read = v]
Delivered(r, w, o) == [r EXCEPT !.mode = "plain", !.want = w, !.open = o]

\* What each of them makes of a state.
LEMMA ToEscapeState ==
  ASSUME NEW m, NEW b, NEW o, NEW w, NEW x, NEW r, r = State(m, b, o, w, x)
  PROVE  ToEscape(r) = State("escape", b, o, w, x)
<1>1. ToEscape(r) = [r EXCEPT !.mode = "escape"]
  BY DEF ToEscape, State
<1>2. [r EXCEPT !.mode = "escape"] = State("escape", b, o, w, x)
  BY DEF State
<1>3. QED
  BY <1>1, <1>2

LEMMA ToTextState ==
  ASSUME NEW m, NEW b, NEW o, NEW w, NEW x, NEW r, r = State(m, b, o, w, x)
  PROVE  ToText(r) = State("string", <<>>, o, w, x)
<1> DEFINE e == [r EXCEPT !.mode = "string"]
<1>1. ToText(r) = [e EXCEPT !.buffer = <<>>]
  BY DEF ToText
<1>2. e = State("string", b, o, w, x)
  BY DEF State
<1> HIDE DEF e
<1>3. [e EXCEPT !.buffer = <<>>] = State("string", <<>>, o, w, x)
  BY <1>2 DEF State
<1>4. QED
  BY <1>1, <1>3

LEMMA ToDigitsState ==
  ASSUME NEW m, NEW b, NEW o, NEW w, NEW x, NEW r, r = State(m, b, o, w, x)
  PROVE  ToDigits(r) = State("u", b, o, w, Str(<<>>))
<1> DEFINE e == [r EXCEPT !.mode = "u"]
<1>1. ToDigits(r) = [e EXCEPT !.read = Str(<<>>)]
  BY DEF ToDigits
<1>2. e = State("u", b, o, w, x)
  BY DEF State
<1> HIDE DEF e
<1>3. [e EXCEPT !.read = Str(<<>>)] = State("u", b, o, w, Str(<<>>))
  BY <1>2 DEF State
<1>4. QED
  BY <1>1, <1>3

LEMMA WithDigitsState ==
  ASSUME NEW m, NEW b, NEW o, NEW w, NEW x, NEW r, r = State(m, b, o, w, x), NEW t
  PROVE  WithDigits(r, t) = State(m, b, o, w, Str(t))
<1>1. WithDigits(r, t) = [r EXCEPT !.read = Str(t)]
  BY DEF WithDigits, State
<1>2. [r EXCEPT !.read = Str(t)] = State(m, b, o, w, Str(t))
  BY DEF State
<1>3. QED
  BY <1>1, <1>2

LEMMA BufferedState ==
  ASSUME NEW m, NEW b, NEW o, NEW w, NEW x, NEW r, r = State(m, b, o, w, x), NEW c
  PROVE  Buffered(r, c) = State(m, Append(b, c), o, w, x)
<1>1. Buffered(r, c) = [r EXCEPT !.buffer = Append(b, c)]
  BY DEF Buffered, State
<1>2. [r EXCEPT !.buffer = Append(b, c)] = State(m, Append(b, c), o, w, x)
  BY DEF State
<1>3. QED
  BY <1>1, <1>2

LEMMA UnescapedState ==
  ASSUME NEW m, NEW b, NEW o, NEW w, NEW x, NEW r, r = State(m, b, o, w, x), NEW c
  PROVE  Unescaped(r, c) = State("string", Append(b, c), o, w, x)
<1> DEFINE e == [r EXCEPT !.mode = "string"]
           bb == Append(b, c)
<1>1. Unescaped(r, c) = [e EXCEPT !.buffer = Append(r.buffer, c)]
  BY DEF Unescaped
<1>2. r.buffer = b /\ r.open = o
  BY DEF State
<1>3. e = State("string", b, o, w, x)
  BY <1>2 DEF State
<1> HIDE DEF e, bb
<1>4. [e EXCEPT !.buffer = bb] = State("string", bb, o, w, x)
  BY <1>3 DEF State
<1>5. Unescaped(r, c) = [e EXCEPT !.buffer = bb]
  BY <1>1, <1>2 DEF bb
<1>6. QED
  BY <1>4, <1>5 DEF bb

LEMMA WantingState ==
  ASSUME NEW m, NEW b, NEW o, NEW w, NEW x, NEW r, r = State(m, b, o, w, x), NEW w2
  PROVE  Wanting(r, w2) = State(m, b, o, w2, x)
<1>1. Wanting(r, w2) = [r EXCEPT !.want = w2]
  BY DEF Wanting, State
<1>2. [r EXCEPT !.want = w2] = State(m, b, o, w2, x)
  BY DEF State
<1>3. QED
  BY <1>1, <1>2

LEMMA OpenedState ==
  ASSUME NEW m, NEW b, NEW o, NEW w, NEW x, NEW r, r = State(m, b, o, w, x), NEW f2, NEW w2
  PROVE  Opened(r, f2, w2) = State(m, b, Append(o, f2), w2, x)
<1> DEFINE e == [r EXCEPT !.open = Append(r.open, f2)]
<1>1. Opened(r, f2, w2) = [e EXCEPT !.want = w2]
  BY DEF Opened
<1>2. r.buffer = b /\ r.open = o
  BY DEF State
<1> DEFINE oo == Append(o, f2)
<1>3. Append(r.open, f2) = oo
  BY <1>2
<1> HIDE DEF oo
<1>4. e = State(m, b, oo, w, x)
  BY <1>3 DEF State
<1> HIDE DEF e
<1>5. [e EXCEPT !.want = w2] = State(m, b, oo, w2, x)
  BY <1>4 DEF State
<1>6. QED
  BY <1>1, <1>5 DEF oo

LEMMA ClosedState ==
  ASSUME NEW m, NEW b, NEW o, NEW w, NEW x, NEW r, r = State(m, b, o, w, x)
  PROVE  Closed(r) = State(m, b, Front(o), "value", x)
<1> DEFINE e == [r EXCEPT !.open = Front(r.open)]
<1>1. Closed(r) = [e EXCEPT !.want = "value"]
  BY DEF Closed
<1>2. r.buffer = b /\ r.open = o
  BY DEF State
<1>3. e = State(m, b, Front(o), w, x)
  BY <1>2 DEF State
<1> HIDE DEF e
<1>4. [e EXCEPT !.want = "value"] = State(m, b, Front(o), "value", x)
  BY <1>2, <1>3 DEF State
<1>5. QED
  BY <1>1, <1>4

LEMMA EndedState ==
  ASSUME NEW m, NEW b, NEW o, NEW w, NEW x, NEW r, r = State(m, b, o, w, x), NEW v
  PROVE  Ended(r, v) = State("plain", b, o, "end", v)
<1> DEFINE e == [r EXCEPT !.mode = "plain"]
           f == [e EXCEPT !.want = "end"]
<1>1. Ended(r, v) = [f EXCEPT !.read = v]
  BY DEF Ended
<1>2. e = State("plain", b, o, w, x)
  BY DEF State
<1> HIDE DEF e
<1>3. f = State("plain", b, o, "end", x)
  BY <1>2 DEF State
<1> HIDE DEF f
<1>4. [f EXCEPT !.read = v] = State("plain", b, o, "end", v)
  BY <1>3 DEF State
<1>5. QED
  BY <1>1, <1>4

LEMMA DeliveredState ==
  ASSUME NEW m, NEW b, NEW o, NEW w, NEW x, NEW r, r = State(m, b, o, w, x), NEW w2, NEW o2
  PROVE  Delivered(r, w2, o2) = State("plain", b, o2, w2, x)
<1> DEFINE e == [r EXCEPT !.mode = "plain"]
           f == [e EXCEPT !.want = w2]
<1>1. Delivered(r, w2, o2) = [f EXCEPT !.open = o2]
  BY DEF Delivered
<1>2. e = State("plain", b, o, w, x)
  BY DEF State
<1> HIDE DEF e
<1>3. f = State("plain", b, o, w2, x)
  BY <1>2 DEF State
<1> HIDE DEF f
<1>4. [f EXCEPT !.open = o2] = State("plain", b, o2, w2, x)
  BY <1>3 DEF State
<1>5. QED
  BY <1>1, <1>4

\* A piece of two symbols.
LEMMA PieceOfTwo ==
  ASSUME NEW r, NEW c, NEW d
  PROVE  ReadPiece(r, <<c, d>>) = Read(Read(r, c), d)
<1>1. Len(<<c, d>>) = 2 /\ <<c, d>>[1] = c /\ <<c, d>>[2] = d
  OBVIOUS
<1>2. PICK f : Follows(f, r, <<c, d>>)
  BY <1>1, PieceIsFollowed
<1>3. f[1] = Read(f[0], c) /\ f[2] = Read(f[1], d)
  BY <1>1, <1>2 DEF Follows
<1>4. QED
  BY <1>1, <1>2, <1>3 DEF Follows

\* The short escapes differ from each other and from the rest.
LEMMA ShortIsInvertible ==
  /\ DOMAIN Short = {Ch("newline"), Ch("tab"), Ch("return")}
  /\ \A c \in DOMAIN Short :
       /\ Short[c] \in {Ch("n"), Ch("t"), Ch("r")}
       /\ Short[c] \notin {Quote, Backslash, Ch("u")}
       /\ (CHOOSE d \in DOMAIN Short : Short[d] = Short[c]) = c
<1>1. DOMAIN Short = {Ch("newline"), Ch("tab"), Ch("return")}
  BY DEF Short
<1>2. Short[Ch("newline")] = Ch("n") /\ Short[Ch("tab")] = Ch("t") /\ Short[Ch("return")] = Ch("r")
  BY DEF Short, Ch
<1>3. Ch("n") # Ch("t") /\ Ch("n") # Ch("r") /\ Ch("t") # Ch("r")
  BY DEF Ch
<1>4. \A c, d \in DOMAIN Short : Short[c] = Short[d] => c = d
  BY <1>1, <1>2, <1>3
<1>5. \A c \in DOMAIN Short : (CHOOSE d \in DOMAIN Short : Short[d] = Short[c]) = c
  BY <1>4
<1>6. {Ch("n"), Ch("t"), Ch("r")} \cap {Quote, Backslash, Ch("u")} = {}
  BY DEF Quote, Backslash, Ch
<1>7. QED
  BY <1>1, <1>2, <1>5, <1>6

\* The digits a control character's escape ends in.
Hex(c) == <<Ch("0"), Ch("0")>> \o Code[c]

\* The digits of a control character are those of no other.
LEMMA CodeIsInvertible ==
  /\ DOMAIN Code = {Ch("soh"), Ch("us")}
  /\ \A c \in DOMAIN Code :
       /\ Code[c] = <<Code[c][1], Code[c][2]>> /\ Code[c][1] \in Symbols /\ Code[c][2] \in Symbols
       /\ (CHOOSE d \in DOMAIN Code : Hex(c) = Hex(d)) = c
<1>1. DOMAIN Code = {Ch("soh"), Ch("us")}
  BY DEF Code
<1>2. Code[Ch("soh")] = <<Ch("0"), Ch("1")>> /\ Code[Ch("us")] = <<Ch("1"), Ch("f")>>
  BY DEF Code, Ch
<1>a. Ch("0") \in Symbols /\ Ch("1") \in Symbols /\ Ch("f") \in Symbols
  BY DEF Symbols, Marks
<1>3. \A c \in DOMAIN Code : Code[c] = <<Code[c][1], Code[c][2]>> /\ Code[c][1] \in Symbols /\ Code[c][2] \in Symbols
  BY <1>1, <1>2, <1>a
<1>4. (<<Ch("0"), Ch("0")>> \o <<Ch("0"), Ch("1")>>)[3] = Ch("0") /\ (<<Ch("0"), Ch("0")>> \o <<Ch("1"), Ch("f")>>)[3] = Ch("1")
  OBVIOUS
<1>5. Ch("0") # Ch("1")
  BY DEF Ch
<1>6. \A c, d \in DOMAIN Code : Hex(c) = Hex(d) => c = d
  BY <1>1, <1>2, <1>4, <1>5 DEF Hex
<1>7. \A c \in DOMAIN Code :
        (CHOOSE d \in DOMAIN Code : Hex(c) = Hex(d)) = c
  BY <1>6
<1>8. QED
  BY <1>1, <1>3, <1>7

\* A quote and a backslash have escapes of their own.
LEMMA QuoteIsNoControl ==
  /\ Quote # Backslash
  /\ {Quote, Backslash} \cap (DOMAIN Code \cup DOMAIN Short) = {}
  /\ DOMAIN Code \cap DOMAIN Short = {}
BY ShortIsInvertible, CodeIsInvertible DEF Quote, Backslash, Ch

\* A quote opens a string, and ends it.
LEMMA StringReadsQuote ==
  ASSUME NEW r, NEW o, NEW w, NEW s, InString(r, o, w, s)
  PROVE  Leaves(Read(r, Quote), o, w, Str(s))
<1>1. PICK x : r = State("string", s, o, w, x)
  BY DEF InString
<1>2. r.mode = "string" /\ r.buffer = s
  BY <1>1, StateFields
<1>3. Read(r, Quote) = ReadString(r, Quote)
  BY <1>2 DEF Read
<1>4. ReadString(r, Quote) = Deliver(r, Str(s))
  BY <1>2, QuoteIsNoControl DEF ReadString
<1>5. QED
  BY <1>1, <1>3, <1>4 DEF Leaves

\* A character that needs no escape stands for itself.
LEMMA StringReadsPlain ==
  ASSUME NEW r, NEW o, NEW w, NEW s \in Seq(Symbols), InString(r, o, w, s),
         NEW c, c \notin {Quote, Backslash} \cup DOMAIN Short \cup DOMAIN Code
  PROVE  InString(Read(r, c), o, w, Append(s, c))
<1>1. PICK x : r = State("string", s, o, w, x)
  BY DEF InString
<1>2. r.mode = "string"
  BY <1>1, StateFields
<1>3. Read(r, c) = ReadString(r, c)
  BY <1>2 DEF Read
<1>4. ReadString(r, c) = Buffered(r, c)
  BY DEF ReadString, Buffered
<1>5. Buffered(r, c) = State("string", Append(s, c), o, w, x)
  BY <1>1, BufferedState
<1>6. QED
  BY <1>3, <1>4, <1>5 DEF InString

\* A backslash starts an escape.
LEMMA StringReadsBackslash ==
  ASSUME NEW r, NEW o, NEW w, NEW s, NEW x, r = State("string", s, o, w, x)
  PROVE  Read(r, Backslash) = State("escape", s, o, w, x)
<1>1. r.mode = "string"
  BY StateFields
<1>2. Read(r, Backslash) = ReadString(r, Backslash)
  BY <1>1 DEF Read
<1>3. ReadString(r, Backslash) = ToEscape(r)
  BY QuoteIsNoControl DEF ReadString, ToEscape
<1>4. ToEscape(r) = State("escape", s, o, w, x)
  BY ToEscapeState
<1>5. QED
  BY <1>2, <1>3, <1>4

\* A backslash, and what the character after it stands for.
LEMMA StringReadsEscape ==
  ASSUME NEW r, NEW o, NEW w, NEW s \in Seq(Symbols), InString(r, o, w, s), NEW c, NEW d,
         \/ c \in {Quote, Backslash} /\ d = c
         \/ c \in DOMAIN Short /\ d = Short[c]
  PROVE  InString(Read(Read(r, Backslash), d), o, w, Append(s, c))
<1>1. PICK x : r = State("string", s, o, w, x)
  BY DEF InString
<1> DEFINE e == Read(r, Backslash)
<1>2. e = State("escape", s, o, w, x)
  BY <1>1, StringReadsBackslash
<1> HIDE DEF e
<1>3. e.mode = "escape"
  BY <1>2, StateFields
<1>4. Read(e, d) = ReadEscape(e, d)
  BY <1>3 DEF Read
<1>5. ReadEscape(e, d) = Unescaped(e, c)
  <2>1. CASE c \in {Quote, Backslash} /\ d = c
    <3>1. ~ \E y \in DOMAIN Short : Short[y] = d
      BY <2>1, ShortIsInvertible
    <3>2. d # Ch("u")
      BY <2>1 DEF Quote, Backslash, Ch
    <3>3. QED
      BY <2>1, <3>1, <3>2 DEF ReadEscape, Unescaped
  <2>2. CASE c \in DOMAIN Short /\ d = Short[c]
    <3>1. d \notin {Quote, Backslash} /\ d # Ch("u") /\ (CHOOSE y \in DOMAIN Short : Short[y] = d) = c
      BY <2>2, ShortIsInvertible
    <3>2. \E y \in DOMAIN Short : Short[y] = d
      BY <2>2
    <3>3. QED
      BY <3>1, <3>2 DEF ReadEscape, Unescaped
  <2>3. QED
    BY <2>1, <2>2
<1>6. Unescaped(e, c) = State("string", Append(s, c), o, w, x)
  BY <1>2, UnescapedState
<1>7. QED
  BY <1>4, <1>5, <1>6 DEF InString, e

\* The digits of an escape: what is held of them, and what they are.
LEMMA DigitsGrow ==
  ASSUME NEW X, NEW z \in X, NEW a \in X
  PROVE  Append(<<>>, z) = <<z>> /\ Append(<<z>>, z) = <<z, z>> /\ Append(<<z, z>>, a) = <<z, z, a>>
<1>1. Append(<<>>, z) = <<z>>
  <2>1. Append(<<>>, z) \in Seq(X) /\ <<z>> \in Seq(X)
    OBVIOUS
  <2>2. Len(Append(<<>>, z)) = 1 /\ Append(<<>>, z)[1] = z
    BY AppendProperties, EmptySeq
  <2>3. QED
    BY <2>1, <2>2, SeqEqual
<1>2. Append(<<z>>, z) = <<z, z>>
  <2> DEFINE p == Append(<<z>>, z)
             q == <<z, z>>
  <2>1. p \in Seq(X) /\ q \in Seq(X) /\ Len(q) = 2 /\ q[1] = z /\ q[2] = z
    OBVIOUS
  <2>2. Len(p) = 2 /\ p[1] = z /\ p[2] = z
    BY AppendProperties
  <2> HIDE DEF p, q
  <2>3. \A i \in 1..2 : p[i] = q[i]
    BY <2>1, <2>2
  <2>4. p = q
    BY <2>1, <2>2, <2>3, SeqEqual
  <2>5. QED
    BY <2>4 DEF p, q
<1>3. Append(<<z, z>>, a) = <<z, z, a>>
  <2> DEFINE p == Append(<<z, z>>, a)
             q == <<z, z, a>>
  <2>1. p \in Seq(X) /\ q \in Seq(X) /\ Len(q) = 3 /\ q[1] = z /\ q[2] = z /\ q[3] = a
    OBVIOUS
  <2>2. Len(p) = 3 /\ p[1] = z /\ p[2] = z /\ p[3] = a
    BY AppendProperties
  <2> HIDE DEF p, q
  <2>3. \A i \in 1..3 : p[i] = q[i]
    BY <2>1, <2>2
  <2>4. p = q
    BY <2>1, <2>2, <2>3, SeqEqual
  <2>5. QED
    BY <2>4 DEF p, q
<1>4. QED
  BY <1>1, <1>2, <1>3

\* The fourth digit is the last of them.
LEMMA DigitsEnd ==
  ASSUME NEW X, NEW z \in X, NEW a \in X, NEW b \in X
  PROVE  /\ Append(<<z, z, a>>, b) = <<z, z>> \o <<a, b>>
         /\ Len(Append(<<z, z, a>>, b)) = 4
<1> DEFINE p == Append(<<z, z, a>>, b)
           q == <<z, z>> \o <<a, b>>
<1>1. p \in Seq(X) /\ <<z, z>> \in Seq(X) /\ <<a, b>> \in Seq(X) /\ q \in Seq(X)
  OBVIOUS
<1>2. Len(p) = 4 /\ p[1] = z /\ p[2] = z /\ p[3] = a /\ p[4] = b
  BY AppendProperties
<1>3. Len(q) = 4 /\ q[1] = z /\ q[2] = z /\ q[3] = a /\ q[4] = b
  BY ConcatProperties
<1>4. \A i \in 1..4 : p[i] = q[i]
  BY <1>2, <1>3
<1>5. QED
  BY <1>1, <1>2, <1>3, <1>4, SeqEqual

\* A digit is read: t is held of the four, and is still less of them with d.
LEMMA ReadDigit ==
  ASSUME NEW b, NEW o, NEW w, NEW t, NEW d, NEW t2, NEW r, r = State("u", b, o, w, Str(t)),
         t2 = Append(t, d), Len(t2) < 4
  PROVE  Read(r, d) = State("u", b, o, w, Str(t2))
<1>1. r.mode = "u" /\ r.read = Str(t)
  BY StateFields
<1>2. r.read.of = t
  BY <1>1 DEF Str
<1>3. Read(r, d) = ReadCode(r, d)
  BY <1>1 DEF Read
<1>4. ReadCode(r, d) = WithDigits(r, t2)
  BY <1>2 DEF ReadCode, WithDigits
<1>5. WithDigits(r, t2) = State("u", b, o, w, Str(t2))
  BY WithDigitsState
<1>6. QED
  BY <1>3, <1>4, <1>5

\* With the fourth digit the character is known.
LEMMA ReadLastDigit ==
  ASSUME NEW b, NEW o, NEW w, NEW t, NEW d, NEW r, r = State("u", b, o, w, Str(t)),
         NEW c \in DOMAIN Code, Append(t, d) = Hex(c), Len(Append(t, d)) = 4
  PROVE  Read(r, d) = State("string", Append(b, c), o, w, Str(t))
<1> DEFINE t2 == Append(t, d)
<1>1. r.mode = "u" /\ r.read = Str(t)
  BY StateFields
<1>2. r.read.of = t
  BY <1>1 DEF Str
<1>3. Read(r, d) = ReadCode(r, d)
  BY <1>1 DEF Read
<1>4. ReadCode(r, d) = Unescaped(r, c)
  <2>1. (CHOOSE y \in DOMAIN Code : t2 = Hex(y)) = c
    BY CodeIsInvertible
  <2>2. \E y \in DOMAIN Code : t2 = Hex(y)
    OBVIOUS
  <2>3. Append(r.read.of, d) = t2 /\ ~ (Len(t2) < 4)
    BY <1>2
  <2> HIDE DEF t2
  <2>4. QED
    BY <2>1, <2>2, <2>3 DEF ReadCode, Unescaped, Hex
<1>5. Unescaped(r, c) = State("string", Append(b, c), o, w, Str(t))
  BY UnescapedState
<1>6. QED
  BY <1>3, <1>4, <1>5

\* A backslash, u and the four digits of a control character.
LEMMA StringReadsCode ==
  ASSUME NEW r, NEW o, NEW w, NEW s \in Seq(Symbols), InString(r, o, w, s), NEW c \in DOMAIN Code,
         NEW q, q = Read(Read(Read(Read(r, Backslash), Ch("u")), Ch("0")), Ch("0"))
  PROVE  InString(Read(Read(q, Code[c][1]), Code[c][2]), o, w, Append(s, c))
<1>1. PICK x : r = State("string", s, o, w, x)
  BY DEF InString
<1> DEFINE z == Ch("0")
           a == Code[c][1]
           b == Code[c][2]
           e == Read(r, Backslash)
           u == Read(e, Ch("u"))
           u1 == Read(u, z)
           u3 == Read(q, a)
<1>2. e = State("escape", s, o, w, x)
  BY <1>1, StringReadsBackslash
<1>3. u = State("u", s, o, w, Str(<<>>))
  <2> HIDE DEF e
  <2>1. e.mode = "escape"
    BY <1>2, StateFields
  <2>2. Read(e, Ch("u")) = ReadEscape(e, Ch("u"))
    BY <2>1 DEF Read
  <2>3. Ch("u") \notin {Quote, Backslash} /\ ~ \E y \in DOMAIN Short : Short[y] = Ch("u")
    BY ShortIsInvertible DEF Ch, Quote, Backslash
  <2>4. ReadEscape(e, Ch("u")) = ToDigits(e)
    BY <2>3 DEF ReadEscape, ToDigits
  <2>5. ToDigits(e) = State("u", s, o, w, Str(<<>>))
    BY <1>2, ToDigitsState
  <2>6. QED
    BY <2>2, <2>4, <2>5
<1>4. z \in Symbols /\ a \in Symbols /\ b \in Symbols /\ Code[c] = <<a, b>>
  <2>1. z \in Symbols
    BY DEF Symbols, Marks
  <2>2. QED
    BY <2>1, CodeIsInvertible
<1>5. q = Read(u1, z)
  OBVIOUS
<1> DEFINE t0 == <<>>
           t1 == <<z>>
           t2 == <<z, z>>
           t3 == <<z, z, a>>
           all == Hex(c)
<1>6. /\ Append(t0, z) = t1 /\ Append(t1, z) = t2 /\ Append(t2, a) = t3
      /\ Append(t3, b) = all /\ Len(Append(t3, b)) = 4
  <2> HIDE DEF e, u, u1, u3, z, a, b
  <2>1. Append(t0, z) = t1 /\ Append(t1, z) = t2 /\ Append(t2, a) = t3
    BY <1>4, DigitsGrow
  <2>2. Append(t3, b) = <<z, z>> \o <<a, b>> /\ Len(Append(t3, b)) = 4
    BY <1>4, DigitsEnd
  <2>3. QED
    BY <1>4, <2>1, <2>2 DEF z, Hex
<1>7. Len(t1) < 4 /\ Len(t2) < 4 /\ Len(t3) < 4
  OBVIOUS
<1> HIDE DEF e, u, u1, u3, z, a, b, t0, t1, t2, t3, all
<1>8. u1 = State("u", s, o, w, Str(t1))
  <2>1. u = State("u", s, o, w, Str(t0))
    BY <1>3 DEF t0
  <2>2. Append(t0, z) = t1 /\ Len(t1) < 4
    BY <1>6, <1>7
  <2> HIDE DEF u
  <2>3. Read(u, z) = State("u", s, o, w, Str(t1))
    BY <2>1, <2>2, ReadDigit
  <2>4. QED
    BY <2>3 DEF u1
<1>9. q = State("u", s, o, w, Str(t2))
  <2>1. Append(t1, z) = t2 /\ Len(t2) < 4
    BY <1>6, <1>7
  <2>2. Read(u1, z) = State("u", s, o, w, Str(t2))
    BY <1>8, <2>1, ReadDigit
  <2>3. QED
    BY <1>5, <2>2
<1>10. u3 = State("u", s, o, w, Str(t3))
  <2>1. Append(t2, a) = t3 /\ Len(t3) < 4
    BY <1>6, <1>7
  <2>2. Read(q, a) = State("u", s, o, w, Str(t3))
    BY <1>9, <2>1, ReadDigit
  <2>3. QED
    BY <2>2 DEF u3
<1>11. Read(u3, b) = State("string", Append(s, c), o, w, Str(t3))
  BY <1>6, <1>10, ReadLastDigit DEF all
<1>12. QED
  BY <1>11 DEF InString, u3, a, b

-----------------------------------------------------------------------------
(* What escape makes of a character, and json_string of a whole name, read *)
(* back.                                                                   *)

\* A piece of four symbols.
LEMMA PieceOfFour ==
  ASSUME NEW r, NEW c1, NEW c2, NEW c3, NEW c4
  PROVE  ReadPiece(r, <<c1, c2, c3, c4>>) = Read(Read(Read(Read(r, c1), c2), c3), c4)
<1> DEFINE p == <<c1, c2, c3, c4>>
<1>1. Len(p) = 4 /\ p[1] = c1 /\ p[2] = c2 /\ p[3] = c3 /\ p[4] = c4
  OBVIOUS
<1> HIDE DEF p
<1>2. PICK f : Follows(f, r, p)
  <2>1. Len(p) \in Nat
    BY <1>1
  <2>2. QED
    BY <2>1, PieceIsFollowed
<1>3. f[1] = Read(f[0], c1) /\ f[2] = Read(f[1], c2) /\ f[3] = Read(f[2], c3) /\ f[4] = Read(f[3], c4)
  <2>1. \A i \in 1..4 : f[i] = Read(f[i - 1], p[i])
    BY <1>1, <1>2 DEF Follows
  <2>2. f[1] = Read(f[0], p[1])
    BY <2>1
  <2>3. f[2] = Read(f[1], p[2])
    BY <2>1
  <2>4. f[3] = Read(f[2], p[3])
    BY <2>1
  <2>5. f[4] = Read(f[3], p[4])
    BY <2>1
  <2>6. QED
    BY <1>1, <2>2, <2>3, <2>4, <2>5
<1>4. f[0] = r /\ ReadPiece(r, p) = f[4]
  BY <1>1, <1>2 DEF Follows
<1>5. QED
  BY <1>3, <1>4 DEF p

\* One character, escaped or not, is read as that character.
LEMMA EscapedIsRead ==
  ASSUME NEW r, NEW o, NEW w, NEW s \in Seq(Symbols), InString(r, o, w, s), NEW c \in Symbols
  PROVE  /\ Escaped(c) \in Texts
         /\ InString(ReadPiece(r, Escaped(c)), o, w, Append(s, c))
<1>a. Backslash \in Symbols /\ Ch("u") \in Symbols /\ Ch("0") \in Symbols
  BY DEF Symbols, Marks
<1>1. CASE c \in {Quote, Backslash}
  <2>1. Escaped(c) = <<Backslash, c>>
    BY <1>1, QuoteIsNoControl DEF Escaped
  <2>2. InString(Read(Read(r, Backslash), c), o, w, Append(s, c))
    BY <1>1, StringReadsEscape
  <2>3. <<Backslash, c>> \in Texts
    BY <1>a DEF Texts
  <2>4. QED
    BY <2>1, <2>2, <2>3, PieceOfTwo
<1>2. CASE c \in DOMAIN Short
  <2> DEFINE d == Short[c]
  <2>1. Escaped(c) = <<Backslash, d>>
    BY <1>2, QuoteIsNoControl DEF Escaped
  <2>2. InString(Read(Read(r, Backslash), d), o, w, Append(s, c))
    BY <1>2, StringReadsEscape
  <2>3. d \in Symbols
    BY <1>2, ShortIsInvertible DEF Symbols, Marks
  <2> HIDE DEF d
  <2>4. <<Backslash, d>> \in Texts
    BY <1>a, <2>3 DEF Texts
  <2>5. QED
    BY <2>1, <2>2, <2>4, PieceOfTwo
<1>3. CASE c \in DOMAIN Code
  <2> DEFINE p == <<Backslash, Ch("u"), Ch("0"), Ch("0")>>
             q == ReadPiece(r, p)
             a == Code[c][1]
             b == Code[c][2]
  <2>1. Escaped(c) = p \o Code[c]
    BY <1>3, QuoteIsNoControl DEF Escaped
  <2>2. Code[c] = <<a, b>> /\ a \in Symbols /\ b \in Symbols
    BY <1>3, CodeIsInvertible
  <2>3. q = Read(Read(Read(Read(r, Backslash), Ch("u")), Ch("0")), Ch("0"))
    BY PieceOfFour
  <2>4. InString(Read(Read(q, a), b), o, w, Append(s, c))
    BY <1>3, <2>3, StringReadsCode
  <2>5. p \in Seq(Symbols)
    BY <1>a
  <2> HIDE DEF a, b, p, q
  <2>6. <<a, b>> \in Seq(Symbols)
    BY <2>2
  <2>7. Code[c] \in Seq(Symbols)
    BY <2>2, <2>6
  <2>8. ReadPiece(r, p \o Code[c]) = ReadPiece(q, Code[c])
    BY <2>5, <2>7, PieceOfBoth DEF q
  <2>9. ReadPiece(q, Code[c]) = Read(Read(q, a), b)
    BY <2>2, PieceOfTwo
  <2>10. p \o Code[c] \in Texts
    BY <2>5, <2>7 DEF Texts
  <2>11. QED
    BY <2>1, <2>4, <2>8, <2>9, <2>10
<1>4. CASE c \notin {Quote, Backslash} \cup DOMAIN Short \cup DOMAIN Code
  <2>1. Escaped(c) = <<c>>
    BY <1>4 DEF Escaped
  <2>2. InString(Read(r, c), o, w, Append(s, c))
    BY <1>4, StringReadsPlain
  <2>3. <<c>> \in Texts
    BY DEF Texts
  <2>4. QED
    BY <2>1, <2>2, <2>3, PieceOfOne
<1>5. QED
  BY <1>1, <1>2, <1>3, <1>4

\* A prefix of a name and the character after it are the next prefix.
LEMMA SubSeqGrows ==
  ASSUME NEW X, NEW s \in Seq(X), NEW k \in Nat, k + 1 <= Len(s)
  PROVE  /\ SubSeq(s, 1, k) \in Seq(X) /\ k + 1 \in 1..Len(s)
         /\ SubSeq(s, 1, k + 1) = Append(SubSeq(s, 1, k), s[k + 1])
<1>1. Len(s) \in Nat /\ k + 1 \in 1..Len(s) /\ 1 \in 1..Len(s) + 1 /\ k \in 0..Len(s)
  OBVIOUS
<1>2. \A i \in 1..Len(s) : s[i] \in X
  OBVIOUS
<1>3. SubSeq(s, 1, k) \in Seq(X) /\ SubSeq(s, 1, k + 1) \in Seq(X)
  <2>1. \A i \in 1..k : s[i] \in X
    BY <1>1, <1>2
  <2>2. \A i \in 1..k + 1 : s[i] \in X
    BY <1>1, <1>2
  <2>3. QED
    BY <1>1, <2>1, <2>2, SubSeqProperties
<1> DEFINE p == SubSeq(s, 1, k)
           q == SubSeq(s, 1, k + 1)
           z == Append(p, s[k + 1])
<1>4. Len(p) = k /\ Len(q) = k + 1 /\ (\A i \in 1..k : p[i] = s[i]) /\ (\A i \in 1..k + 1 : q[i] = s[i])
  BY <1>1, SubSeqProperties
<1>5. z \in Seq(X) /\ Len(z) = k + 1 /\ (\A i \in 1..k : z[i] = p[i]) /\ z[k + 1] = s[k + 1]
  <2>1. s[k + 1] \in X /\ p \in Seq(X)
    BY <1>1, <1>2, <1>3
  <2>2. QED
    BY <1>4, <2>1, AppendProperties
<1> HIDE DEF p, q, z
<1>6. \A i \in 1..k + 1 : q[i] = z[i]
  <2>1. SUFFICES ASSUME NEW i \in 1..k + 1 PROVE q[i] = z[i]
    OBVIOUS
  <2>2. CASE i = k + 1
    BY <1>4, <1>5, <2>2
  <2>3. CASE i # k + 1
    <3>1. i \in 1..k
      BY <2>3
    <3>2. QED
      BY <1>4, <1>5, <3>1
  <2>4. QED
    BY <2>2, <2>3
<1>7. q = z
  <2>1. q \in Seq(X)
    BY <1>3 DEF q
  <2>2. QED
    BY <1>4, <1>5, <1>6, <2>1, SeqEqual
<1>8. QED
  BY <1>1, <1>3, <1>7 DEF p, q, z

\* Where a value may come, or a key.
Takes(w) == w \in {"value", "first", "key", "first key"}

\* Where a value or a key may come, a quote opens a string.
LEMMA BetweenReadsQuote ==
  ASSUME NEW r, NEW o, NEW w, Between(r, o, w), Takes(w)
  PROVE  InString(Read(r, Quote), o, w, <<>>)
<1>1. PICK b, x : r = State("plain", b, o, w, x)
  BY DEF Between
<1>2. r.mode = "plain" /\ r.want = w
  BY <1>1, StateFields
<1>3. Read(r, Quote) = ReadPlain(r, Quote)
  BY <1>2 DEF Read
<1>4. ReadPlain(r, Quote) = ToText(r)
  <2>1. Quote # Ch("[") /\ Quote # Ch("{") /\ Quote # Ch("]") /\ Quote # Ch("}") /\ Quote # Ch(",") /\ Quote # Ch(":")
    BY DEF Quote, Ch
  <2>2. Quote # Word("NaN") /\ Quote # Word("Infinity") /\ Quote # Word("-Infinity") /\ DOMAIN Quote # {"num"}
    BY DEF Quote, Ch, Word
  <2>3. QED
    BY <1>2, <2>1, <2>2 DEF ReadPlain, ToText, Takes
<1>5. ToText(r) = State("string", <<>>, o, w, x)
  BY <1>1, ToTextState
<1>6. QED
  BY <1>3, <1>4, <1>5 DEF InString

\* A name between quotes, whatever is in it, is read as that name.
LEMMA StringIsRead ==
  ASSUME NEW r, NEW o, NEW w, NEW s \in Seq(Symbols), Between(r, o, w), Takes(w)
  PROVE  /\ json_string(s) \in Texts
         /\ Leaves(ReadPiece(r, json_string(s)), o, w, Str(s))
<1> DEFINE items == [i \in DOMAIN s |-> Escaped(s[i])]
           q == Read(r, Quote)
<1>1. Len(s) \in Nat /\ DOMAIN s = 1..Len(s) /\ \A i \in 1..Len(s) : s[i] \in Symbols
  OBVIOUS
<1>2. InString(q, o, w, <<>>)
  BY BetweenReadsQuote
<1>3. \A i \in 1..Len(s) : Escaped(s[i]) \in Texts
  <2>1. <<>> \in Seq(Symbols)
    OBVIOUS
  <2>2. QED
    BY <1>1, <1>2, <2>1, EscapedIsRead
<1>4. items \in Seq(Seq(Symbols)) /\ Len(items) = Len(s) /\ \A i \in 1..Len(s) : items[i] = Escaped(s[i])
  BY <1>1, <1>3 DEF Texts
<1>5. json_string(s) = <<Quote>> \o FlattenSeq(items) \o <<Quote>>
  BY DEF json_string
<1> HIDE DEF items, q
<1>6. PICK f : Walks(f, q, items)
  BY <1>4, FlattenIsWalked
<1>7. FlattenSeq(items) \in Seq(Symbols) /\ <<Quote>> \in Seq(Symbols)
  <2>1. Quote \in Symbols
    BY DEF Symbols, Marks
  <2>2. FlattenSeq(items) \in Seq(Symbols)
    BY <1>4, FlattenIsWalked
  <2>3. <<Quote>> \in Seq(Symbols)
    BY <2>1
  <2>4. QED
    BY <2>2, <2>3
<1> DEFINE Right == {k \in Nat : k <= Len(s) => InString(f[k], o, w, SubSeq(s, 1, k))}
<1>8. Right = Nat
  <2>1. 0 \in Right
    <3>1. SubSeq(s, 1, 0) = <<>>
      OBVIOUS
    <3>2. QED
      BY <1>2, <1>6, <3>1 DEF Walks
  <2>2. ASSUME NEW k \in Right PROVE k + 1 \in Right
    <3>1. k \in Nat /\ (k <= Len(s) => InString(f[k], o, w, SubSeq(s, 1, k)))
      BY <2>2
    <3>2. SUFFICES ASSUME k + 1 <= Len(s) PROVE InString(f[k + 1], o, w, SubSeq(s, 1, k + 1))
      BY <3>1
    <3> HIDE DEF Right
    <3>3. /\ SubSeq(s, 1, k) \in Seq(Symbols) /\ k + 1 \in 1..Len(s) /\ (k + 1) - 1 = k /\ k <= Len(s)
          /\ SubSeq(s, 1, k + 1) = Append(SubSeq(s, 1, k), s[k + 1])
      BY <1>1, <3>1, <3>2, SubSeqGrows
    <3>4. f[k + 1] = ReadPiece(f[k], Escaped(s[k + 1]))
      BY <1>4, <1>6, <3>3 DEF Walks
    <3>5. InString(f[k], o, w, SubSeq(s, 1, k)) /\ s[k + 1] \in Symbols
      BY <1>1, <3>1, <3>3
    <3>6. QED
      BY <3>3, <3>4, <3>5, EscapedIsRead
  <2> HIDE DEF Right
  <2>3. Right \in SUBSET Nat
    BY DEF Right
  <2>4. QED
    BY <2>1, <2>2, <2>3, SetInduction
<1>9. InString(f[Len(s)], o, w, s)
  <2>1. Len(s) \in Right
    BY <1>1, <1>8
  <2>2. SubSeq(s, 1, Len(s)) = s
    BY <1>1, SubSeqFull
  <2>3. InString(f[Len(s)], o, w, SubSeq(s, 1, Len(s)))
    BY <1>1, <2>1
  <2>4. QED
    BY <2>2, <2>3
<1> HIDE DEF Right
<1>10. ReadPiece(r, json_string(s)) = Read(f[Len(s)], Quote)
  <2> DEFINE flat == FlattenSeq(items)
             open == <<Quote>>
  <2>1. open \in Seq(Symbols) /\ flat \in Seq(Symbols) /\ open \o flat \in Seq(Symbols)
    BY <1>7
  <2>2. ReadPiece(r, open) = q /\ \A e : ReadPiece(e, open) = Read(e, Quote)
    BY PieceOfOne DEF q
  <2> HIDE DEF open, flat
  <2>3. ReadPiece(r, open \o flat) = ReadPiece(q, flat)
    BY <2>1, <2>2, PieceOfBoth
  <2>4. ReadPiece(q, flat) = f[Len(s)]
    BY <1>4, <1>6 DEF Walks, flat
  <2>5. ReadPiece(r, (open \o flat) \o open) = ReadPiece(ReadPiece(r, open \o flat), open)
    BY <2>1, PieceOfBoth
  <2>6. QED
    BY <1>5, <2>2, <2>3, <2>4, <2>5 DEF open, flat
<1>11. json_string(s) \in Texts
  BY <1>5, <1>7 DEF Texts
<1>12. QED
  BY <1>9, <1>10, <1>11, StringReadsQuote

-----------------------------------------------------------------------------
(* What is open, innermost last, and a value delivered to it.              *)

Top(kind, of, key) == [kind |-> kind, of |-> of, key |-> key]

IsSeq(o) == \E F : o \in Seq(F)

\* What is opened last is what is open innermost.
LEMMA StackPush ==
  ASSUME NEW o, NEW f, IsSeq(o)
  PROVE  /\ IsSeq(Append(o, f)) /\ Append(o, f) # <<>>
         /\ Last(Append(o, f)) = f /\ Front(Append(o, f)) = o
         /\ \A g : o \o <<g>> = Append(o, g)
<1>1. PICK F : o \in Seq(F)
  BY DEF IsSeq
<1> DEFINE G == F \cup {f}
           p == Append(o, f)
<1>2. o \in Seq(G) /\ f \in G /\ Len(o) \in Nat
  BY <1>1
<1>3. p \in Seq(G) /\ Len(p) = Len(o) + 1 /\ (\A i \in 1..Len(o) : p[i] = o[i]) /\ p[Len(o) + 1] = f
  BY <1>2, AppendProperties
<1> HIDE DEF G, p
<1>4. Last(p) = f
  BY <1>3 DEF Last
<1>5. p # <<>>
  BY <1>2, <1>3
<1>6. Front(p) = o
  <2>1. Front(p) = SubSeq(p, 1, Len(o))
    BY <1>2, <1>3 DEF Front
  <2>2. \A i \in 1..Len(o) : p[i] \in G
    BY <1>2, <1>3
  <2>3. SubSeq(p, 1, Len(o)) \in Seq(G) /\ Len(SubSeq(p, 1, Len(o))) = Len(o)
        /\ \A i \in 1..Len(o) : SubSeq(p, 1, Len(o))[i] = p[i]
    BY <1>2, <2>2, SubSeqProperties
  <2>4. \A i \in 1..Len(o) : SubSeq(p, 1, Len(o))[i] = o[i]
    BY <1>3, <2>3
  <2>5. QED
    BY <1>2, <2>1, <2>3, <2>4, SeqEqual
<1>7. ASSUME NEW g PROVE o \o <<g>> = Append(o, g)
  BY <1>1, AppendIsConcat
<1>8. QED
  BY <1>3, <1>4, <1>5, <1>6, <1>7 DEF IsSeq, p

\* A value within nothing is what the text reads as.
LEMMA DeliverAlone ==
  ASSUME NEW r, NEW w, NEW v, Leaves(r, <<>>, w, v)
  PROVE  r.mode = "plain" /\ r.want = "end" /\ r.read = v
<1>1. PICK m, b, x : r = Deliver(State(m, b, <<>>, w, x), v)
  BY DEF Leaves
<1> DEFINE e == State(m, b, <<>>, w, x)
<1>2. e.open = <<>>
  BY StateFields
<1>3. Ended(e, v) = State("plain", b, <<>>, "end", v)
  BY EndedState
<1> HIDE DEF e
<1>4. Deliver(e, v) = Ended(e, v)
  BY <1>2 DEF Deliver, Ended
<1>5. r = State("plain", b, <<>>, "end", v)
  BY <1>1, <1>3, <1>4 DEF e
<1>6. QED
  BY <1>5, StateFields

\* In an array, or as the value of an object's field; as an object's key.
LEMMA DeliverWithin ==
  ASSUME NEW r, NEW o, IsSeq(o), NEW kind, NEW s, NEW key, NEW w, NEW v,
         Leaves(r, Append(o, Top(kind, s, key)), w, v)
  PROVE  /\ w \notin {"key", "first key"} =>
              Between(r, Append(o, Top(kind, Append(s, IF kind = "array" THEN v ELSE <<key, v>>), key)), "comma")
         /\ w \in {"key", "first key"} => Between(r, Append(o, Top(kind, s, v.of)), "colon")
<1> DEFINE top == Top(kind, s, key)
           oo == Append(o, top)
           item == IF top.kind = "array" THEN v ELSE <<top.key, v>>
<1>1. PICK m, b, x : r = Deliver(State(m, b, oo, w, x), v)
  BY DEF Leaves
<1> DEFINE e == State(m, b, oo, w, x)
<1>2. e.open = oo /\ e.want = w
  <2> HIDE DEF oo
  <2>1. QED
    BY StateFields
<1>3. oo # <<>> /\ Last(oo) = top /\ Front(oo) = o /\ \A g : o \o <<g>> = Append(o, g)
  BY StackPush
<1>4. \A w2, o2 : Delivered(e, w2, o2) = State("plain", b, o2, w2, x)
  BY DeliveredState
<1>5. top.kind = kind /\ top.key = key
  BY DEF Top
<1>6. [top EXCEPT !.key = v.of] = Top(kind, s, v.of)
  BY DEF Top
<1>7. ASSUME NEW z PROVE [top EXCEPT !.of = Append(@, z)] = Top(kind, Append(s, z), key)
  BY DEF Top
<1> HIDE DEF e, oo, top
<1>8. CASE w \in {"key", "first key"}
  <2>1. Deliver(e, v) = Delivered(e, "colon", Front(oo) \o <<[top EXCEPT !.key = v.of]>>)
    BY <1>2, <1>3, <1>8 DEF Deliver, Delivered
  <2>2. Front(oo) \o <<[top EXCEPT !.key = v.of]>> = Append(o, Top(kind, s, v.of))
    BY <1>3, <1>6
  <2>3. r = State("plain", b, Append(o, Top(kind, s, v.of)), "colon", x)
    BY <1>1, <1>4, <2>1, <2>2 DEF e
  <2>4. QED
    BY <1>8, <2>3 DEF Between
<1>9. CASE w \notin {"key", "first key"}
  <2>1. Deliver(e, v) = Delivered(e, "comma", Front(oo) \o <<[top EXCEPT !.of = Append(@, item)]>>)
    BY <1>2, <1>3, <1>9 DEF Deliver, Delivered
  <2>2. [top EXCEPT !.of = Append(@, item)] = Top(kind, Append(s, item), key)
    BY <1>7
  <2>3. Front(oo) \o <<[top EXCEPT !.of = Append(@, item)]>> = Append(o, Top(kind, Append(s, item), key))
    BY <1>3, <2>2
  <2>4. r = State("plain", b, Append(o, Top(kind, Append(s, item), key)), "comma", x)
    BY <1>1, <1>4, <2>1, <2>3 DEF e
  <2>5. item = IF kind = "array" THEN v ELSE <<key, v>>
    BY <1>5
  <2>6. QED
    BY <1>9, <2>4, <2>5 DEF Between
<1>10. QED
  BY <1>8, <1>9

\* Where a value comes first it is what it is where another came before.
LEMMA LeavesValue ==
  ASSUME NEW r, NEW o, NEW w, w \in {"value", "first"}, NEW v, Leaves(r, o, w, v)
  PROVE  Leaves(r, o, "value", v)
<1>1. PICK m, b, x : r = Deliver(State(m, b, o, w, x), v)
  BY DEF Leaves
<1> DEFINE e == State(m, b, o, w, x)
           d == State(m, b, o, "value", x)
<1>2. e.open = o /\ e.want = w /\ d.open = o /\ d.want = "value"
  BY StateFields
<1>3. Ended(e, v) = Ended(d, v)
  BY EndedState
<1>4. \A o2 : Delivered(e, "comma", o2) = Delivered(d, "comma", o2)
  BY DeliveredState
<1> HIDE DEF e, d
<1>5. CASE o = <<>>
  <2>1. Deliver(e, v) = Ended(e, v) /\ Deliver(d, v) = Ended(d, v)
    BY <1>2, <1>5 DEF Deliver, Ended
  <2>2. r = Deliver(State(m, b, o, "value", x), v)
    BY <1>1, <1>3, <2>1 DEF e, d
  <2>3. QED
    BY <2>2 DEF Leaves
<1>6. CASE o # <<>>
  <2> DEFINE top == Last(o)
             o2 == Front(o) \o <<[top EXCEPT !.of = Append(@, IF top.kind = "array" THEN v ELSE <<top.key, v>>)]>>
  <2>1. Deliver(e, v) = Delivered(e, "comma", o2)
    BY <1>2, <1>6 DEF Deliver, Delivered
  <2>2. Deliver(d, v) = Delivered(d, "comma", o2)
    BY <1>2, <1>6 DEF Deliver, Delivered
  <2> HIDE DEF o2
  <2>3. r = Deliver(State(m, b, o, "value", x), v)
    BY <1>1, <1>4, <2>1, <2>2 DEF e, d
  <2>4. QED
    BY <2>3 DEF Leaves
<1>7. QED
  BY <1>5, <1>6

-----------------------------------------------------------------------------
(* One symbol of a text, outside a string.                                 *)

Value(w) == w \in {"value", "first"}

\* The symbols that make the structure of a text differ.
LEMMA MarksDiffer ==
  /\ Quote # Ch("[") /\ Quote # Ch("{") /\ Quote # Ch("]") /\ Quote # Ch("}") /\ Quote # Ch(",") /\ Quote # Ch(":")
  /\ Ch("[") # Ch("{") /\ Ch("[") # Ch("]") /\ Ch("[") # Ch("}") /\ Ch("[") # Ch(",") /\ Ch("[") # Ch(":")
  /\ Ch("{") # Ch("]") /\ Ch("{") # Ch("}") /\ Ch("{") # Ch(",") /\ Ch("{") # Ch(":")
  /\ Ch("]") # Ch("}") /\ Ch("]") # Ch(",") /\ Ch("]") # Ch(":")
  /\ Ch("}") # Ch(",") /\ Ch("}") # Ch(":") /\ Ch(",") # Ch(":")
BY DEF Quote, Ch

\* So do the kinds of what is read.
LEMMA KindsDiffer ==
  ASSUME NEW k
  PROVE  /\ \A d : Ch(k) # Word(d) /\ Ch(k) # Num(d) /\ Num(k) # Word(d)
         /\ DOMAIN Ch(k) # {"num"} /\ DOMAIN Word(k) # {"num"} /\ DOMAIN Num(k) = {"num"}
<1>1. /\ \A c : DOMAIN Ch(c) = {"ch"} /\ DOMAIN Num(c) = {"num"} /\ DOMAIN Word(c) = {"word"}
      /\ {"ch"} # {"num"} /\ {"ch"} # {"word"} /\ {"num"} # {"word"}
  BY DEF Ch, Num, Word
<1>2. QED
  BY <1>1

\* The symbol c closes what is open, a kind, where w may come.
Closes(kind, c, w) ==
  \/ kind = "array" /\ c = Ch("]") /\ w \in {"first", "comma"}
  \/ kind = "object" /\ c = Ch("}") /\ w \in {"first key", "comma"}

\* A bracket opens an array or an object, empty so far.
LEMMA OpenIsRead ==
  ASSUME NEW r, NEW o, NEW w, Between(r, o, w), Value(w)
  PROVE  /\ Between(Read(r, Ch("[")), Append(o, Top("array", <<>>, <<>>)), "first")
         /\ Between(Read(r, Ch("{")), Append(o, Top("object", <<>>, <<>>)), "first key")
<1>1. PICK b, x : r = State("plain", b, o, w, x)
  BY DEF Between
<1>2. r.mode = "plain" /\ r.want = w
  BY <1>1, StateFields
<1>3. \A c : Read(r, c) = ReadPlain(r, c)
  BY <1>2 DEF Read
<1>4. \A f, w2 : Opened(r, f, w2) = State("plain", b, Append(o, f), w2, x)
  BY <1>1, OpenedState
<1>5. ReadPlain(r, Ch("[")) = Opened(r, Top("array", <<>>, <<>>), "first")
  <2>1. ReadPlain(r, Ch("[")) = Open(r, "array", "first")
    BY <1>2, MarksDiffer, KindsDiffer DEF ReadPlain, Value
  <2>2. QED
    BY <2>1 DEF Open, Opened, Top
<1>6. ReadPlain(r, Ch("{")) = Opened(r, Top("object", <<>>, <<>>), "first key")
  <2>1. ReadPlain(r, Ch("{")) = Open(r, "object", "first key")
    BY <1>2, MarksDiffer, KindsDiffer DEF ReadPlain, Value
  <2>2. QED
    BY <2>1 DEF Open, Opened, Top
<1>7. QED
  BY <1>3, <1>4, <1>5, <1>6 DEF Between

\* The bracket of its kind closes it, and it is a value of what it is in.
LEMMA CloseIsRead ==
  ASSUME NEW r, NEW o, IsSeq(o), NEW kind, NEW s, NEW key, NEW w, NEW c,
         Between(r, Append(o, Top(kind, s, key)), w),
         Closes(kind, c, w)
  PROVE  Leaves(Read(r, c), o, "value", [kind |-> kind, of |-> s])
<1> DEFINE top == Top(kind, s, key)
           oo == Append(o, top)
<1>1. PICK b, x : r = State("plain", b, oo, w, x)
  BY DEF Between
<1>2. oo # <<>> /\ Last(oo) = top /\ Front(oo) = o
  BY StackPush
<1>3. top.kind = kind /\ top.of = s
  BY DEF Top
<1> HIDE DEF oo, top
<1>4. r.mode = "plain" /\ r.want = w /\ r.open = oo
  BY <1>1, StateFields
<1>5. Within(r, kind)
  BY <1>2, <1>3, <1>4 DEF Within
<1>6. Read(r, c) = ReadPlain(r, c)
  BY <1>4 DEF Read
<1>7. Closed(r) = State("plain", b, o, "value", x)
  BY <1>1, <1>2, ClosedState
<1>8. ReadPlain(r, c) = Close(r)
  <2>1. CASE kind = "array"
    <3>1. c = Ch("]") /\ w \in {"first", "comma"}
      BY <2>1 DEF Closes
    <3>2. QED
      BY <1>4, <1>5, <2>1, <3>1, MarksDiffer, KindsDiffer DEF ReadPlain
  <2>2. CASE kind # "array"
    <3>1. kind = "object" /\ c = Ch("}") /\ w \in {"first key", "comma"}
      BY <2>2 DEF Closes
    <3>2. QED
      BY <1>4, <1>5, <3>1, MarksDiffer, KindsDiffer DEF ReadPlain
  <2>3. QED
    BY <2>1, <2>2
<1>9. Close(r) = Deliver(State("plain", b, o, "value", x), [kind |-> kind, of |-> s])
  BY <1>2, <1>3, <1>4, <1>7 DEF Close, Closed
<1>10. QED
  BY <1>6, <1>8, <1>9 DEF Leaves

\* A comma after an item asks for the next.
LEMMA CommaIsRead ==
  ASSUME NEW r, NEW o, IsSeq(o), NEW kind, NEW s, NEW key, Between(r, Append(o, Top(kind, s, key)), "comma")
  PROVE  Between(Read(r, Ch(",")), Append(o, Top(kind, s, key)), IF kind = "array" THEN "value" ELSE "key")
<1> DEFINE top == Top(kind, s, key)
           oo == Append(o, top)
           w2 == IF kind = "array" THEN "value" ELSE "key"
<1>1. PICK b, x : r = State("plain", b, oo, "comma", x)
  BY DEF Between
<1>2. oo # <<>> /\ Last(oo) = top
  BY StackPush
<1>3. top.kind = kind
  BY DEF Top
<1> HIDE DEF oo, top
<1>4. r.mode = "plain" /\ r.want = "comma" /\ r.open = oo
  BY <1>1, StateFields
<1>5. Within(r, "array") <=> kind = "array"
  BY <1>2, <1>3, <1>4 DEF Within
<1>6. Read(r, Ch(",")) = ReadPlain(r, Ch(","))
  BY <1>4 DEF Read
<1>7. ReadPlain(r, Ch(",")) = Wanting(r, w2)
  <2>1. QED
    BY <1>4, <1>5, MarksDiffer, KindsDiffer DEF ReadPlain, Wanting
<1>8. Wanting(r, w2) = State("plain", b, oo, w2, x)
  <2> HIDE DEF w2
  <2>1. QED
    BY <1>1, WantingState
<1>9. QED
  BY <1>6, <1>7, <1>8 DEF Between, oo, top

\* A colon after a key asks for its value.
LEMMA ColonIsRead ==
  ASSUME NEW r, NEW o, Between(r, o, "colon")
  PROVE  Between(Read(r, Ch(":")), o, "value")
<1>1. PICK b, x : r = State("plain", b, o, "colon", x)
  BY DEF Between
<1>2. r.mode = "plain" /\ r.want = "colon"
  BY <1>1, StateFields
<1>3. Read(r, Ch(":")) = ReadPlain(r, Ch(":"))
  BY <1>2 DEF Read
<1>4. ReadPlain(r, Ch(":")) = Wanting(r, "value")
  <2>1. QED
    BY <1>2, MarksDiffer, KindsDiffer DEF ReadPlain, Wanting
<1>5. Wanting(r, "value") = State("plain", b, o, "value", x)
  BY <1>1, WantingState
<1>6. QED
  BY <1>3, <1>4, <1>5 DEF Between

\* A number is a value.
LEMMA NumberIsRead ==
  ASSUME NEW r, NEW o, NEW w, Between(r, o, w), Value(w)
  PROVE  /\ \A v : Leaves(Read(r, Num(v)), o, w, Int_(v))
         /\ Leaves(Read(r, Word("NaN")), o, w, Int_(NaN))
         /\ Leaves(Read(r, Word("Infinity")), o, w, Int_(Infinity))
         /\ Leaves(Read(r, Word("-Infinity")), o, w, Int_(MinusInfinity))
<1>1. PICK b, x : r = State("plain", b, o, w, x)
  BY DEF Between
<1>2. r.mode = "plain" /\ r.want = w
  BY <1>1, StateFields
<1>3. \A c : Read(r, c) = ReadPlain(r, c)
  BY <1>2 DEF Read
<1>4. ASSUME NEW v PROVE ReadPlain(r, Num(v)) = Deliver(r, Int_(v))
  <2> DEFINE c == Num(v)
  <2>1. c.num = v
    BY DEF Num
  <2>2. DOMAIN c = {"num"} /\ c # Word("NaN") /\ c # Word("Infinity") /\ c # Word("-Infinity")
    BY KindsDiffer
  <2>3. /\ c # Quote /\ c # Ch("[") /\ c # Ch("{") /\ c # Ch("]") /\ c # Ch("}") /\ c # Ch(",") /\ c # Ch(":")
    BY KindsDiffer DEF Quote
  <2> HIDE DEF c
  <2>4. ReadPlain(r, c) = Deliver(r, Int_(c.num))
    BY <1>2, <2>2, <2>3 DEF ReadPlain, Value
  <2>5. QED
    BY <2>1, <2>4 DEF c
<1>5. ASSUME NEW k PROVE /\ DOMAIN Word(k) # {"num"}
                         /\ Word(k) # Quote /\ Word(k) # Ch("[") /\ Word(k) # Ch("{") /\ Word(k) # Ch("]")
                         /\ Word(k) # Ch("}") /\ Word(k) # Ch(",") /\ Word(k) # Ch(":")
  BY KindsDiffer DEF Quote
<1>6. Word("NaN") # Word("Infinity") /\ Word("NaN") # Word("-Infinity") /\ Word("Infinity") # Word("-Infinity")
  BY DEF Word
<1>7. ReadPlain(r, Word("NaN")) = Deliver(r, Int_(NaN))
  BY <1>2, <1>5, <1>6 DEF ReadPlain, Value
<1>8. ReadPlain(r, Word("Infinity")) = Deliver(r, Int_(Infinity))
  BY <1>2, <1>5, <1>6 DEF ReadPlain, Value
<1>9. ReadPlain(r, Word("-Infinity")) = Deliver(r, Int_(MinusInfinity))
  BY <1>2, <1>5, <1>6 DEF ReadPlain, Value
<1>10. QED
  BY <1>1, <1>3, <1>4, <1>7, <1>8, <1>9 DEF Leaves

-----------------------------------------------------------------------------
(* Texts of values: what a text is read as, wherever a value may come.     *)

ReadsAs(t, v) ==
  /\ t \in Texts
  /\ \A r, o, w : IsSeq(o) /\ Between(r, o, w) /\ Value(w) => Leaves(ReadPiece(r, t), o, "value", v)

\* json_string of any name.
LEMMA StringReads ==
  ASSUME NEW s \in Seq(Symbols)
  PROVE  ReadsAs(json_string(s), Str(s))
<1> DEFINE t == json_string(s)
<1>1. SUFFICES ASSUME NEW r, NEW o, NEW w, IsSeq(o), Between(r, o, w), Value(w)
               PROVE  Leaves(ReadPiece(r, t), o, "value", Str(s))
  <2>1. t \in Texts
    <3>1. Between(State("plain", <<>>, <<>>, "value", <<>>), <<>>, "value") /\ Takes("value")
      BY DEF Between, Takes
    <3>2. QED
      BY <3>1, StringIsRead
  <2>2. QED
    BY <1>1, <2>1 DEF ReadsAs
<1>2. Takes(w) /\ w \in {"value", "first"}
  BY <1>1 DEF Takes, Value
<1>3. Leaves(ReadPiece(r, t), o, w, Str(s))
  BY <1>1, <1>2, StringIsRead
<1> HIDE DEF t
<1>4. QED
  BY <1>2, <1>3, LeavesValue

\* A text of one symbol.
LEMMA OneReads ==
  ASSUME NEW c \in Symbols, NEW v,
         \A r, o, w : Between(r, o, w) /\ Value(w) => Leaves(Read(r, c), o, w, v)
  PROVE  ReadsAs(<<c>>, v)
<1>1. SUFFICES ASSUME NEW r, NEW o, NEW w, IsSeq(o), Between(r, o, w), Value(w)
               PROVE  Leaves(ReadPiece(r, <<c>>), o, "value", v)
  <2>1. <<c>> \in Texts
    BY DEF Texts
  <2>2. QED
    BY <2>1 DEF ReadsAs
<1>2. w \in {"value", "first"}
  BY <1>1 DEF Value
<1>3. Leaves(ReadPiece(r, <<c>>), o, w, v)
  BY <1>1, PieceOfOne
<1>4. QED
  BY <1>2, <1>3, LeavesValue

\* json_number of any finite duration, which keeps its digits.
LEMMA NumberReads ==
  /\ \A v \in Int : ReadsAs(<<Num(v)>>, Int_(v))
  /\ ReadsAs(<<Word("NaN")>>, Int_(NaN))
  /\ ReadsAs(<<Word("Infinity")>>, Int_(Infinity))
  /\ ReadsAs(<<Word("-Infinity")>>, Int_(MinusInfinity))
<1>1. ASSUME NEW v \in Int PROVE ReadsAs(<<Num(v)>>, Int_(v))
  <2> DEFINE c == Num(v)
  <2>1. c \in Symbols
    BY DEF Symbols
  <2>2. \A r, o, w : Between(r, o, w) /\ Value(w) => Leaves(Read(r, c), o, w, Int_(v))
    BY NumberIsRead
  <2> HIDE DEF c
  <2>3. ReadsAs(<<c>>, Int_(v))
    BY <2>1, <2>2, OneReads
  <2>4. QED
    BY <2>3 DEF c
<1>2. Word("NaN") \in Symbols /\ Word("Infinity") \in Symbols /\ Word("-Infinity") \in Symbols
  BY DEF Symbols
<1>3. \A r, o, w : Between(r, o, w) /\ Value(w) =>
        /\ Leaves(Read(r, Word("NaN")), o, w, Int_(NaN))
        /\ Leaves(Read(r, Word("Infinity")), o, w, Int_(Infinity))
        /\ Leaves(Read(r, Word("-Infinity")), o, w, Int_(MinusInfinity))
  BY NumberIsRead
<1>4. ReadsAs(<<Word("NaN")>>, Int_(NaN)) /\ ReadsAs(<<Word("Infinity")>>, Int_(Infinity))
      /\ ReadsAs(<<Word("-Infinity")>>, Int_(MinusInfinity))
  BY <1>2, <1>3, OneReads
<1>5. QED
  BY <1>1, <1>4

-----------------------------------------------------------------------------
(* An array, an object: their items between commas.                        *)

Kind(kind) == kind \in {"array", "object"}
Opening(kind) == IF kind = "array" THEN Ch("[") ELSE Ch("{")
Closing(kind) == IF kind = "array" THEN Ch("]") ELSE Ch("}")
First(kind) == IF kind = "array" THEN "first" ELSE "first key"
Wanted(kind) == IF kind = "array" THEN "value" ELSE "key"

\* Where an item may come, t is read as the item v of what is open.
ReadsItem(t, kind, v) ==
  /\ t \in Texts
  /\ \A r, o, s, key, w :
       IsSeq(o) /\ Between(r, Append(o, Top(kind, s, key)), w) /\ w \in {First(kind), Wanted(kind)} =>
         \E k2 : Between(ReadPiece(r, t), Append(o, Top(kind, Append(s, v), k2)), "comma")

\* A value is an item of an array.
LEMMA ValueIsItem ==
  ASSUME NEW t, NEW v, ReadsAs(t, v)
  PROVE  ReadsItem(t, "array", v)
<1>1. SUFFICES ASSUME NEW r, NEW o, NEW s, NEW key, NEW w, IsSeq(o), Between(r, Append(o, Top("array", s, key)), w),
                      w \in {First("array"), Wanted("array")}
               PROVE  Between(ReadPiece(r, t), Append(o, Top("array", Append(s, v), key)), "comma")
  BY DEF ReadsItem, ReadsAs
<1> DEFINE oo == Append(o, Top("array", s, key))
<1>2. IsSeq(oo) /\ Value(w)
  BY <1>1, StackPush DEF Value, First, Wanted
<1>3. Leaves(ReadPiece(r, t), oo, "value", v)
  <2> HIDE DEF oo
  <2>1. Between(r, oo, w)
    BY <1>1 DEF oo
  <2>2. QED
    BY <1>2, <2>1 DEF ReadsAs
<1>4. QED
  <2> DEFINE item == IF "array" = "array" THEN v ELSE <<key, v>>
             q == ReadPiece(r, t)
  <2>1. item = v
    OBVIOUS
  <2>2. "value" \notin {"key", "first key"}
    OBVIOUS
  <2>3. Leaves(q, Append(o, Top("array", s, key)), "value", v)
    BY <1>3
  <2> HIDE DEF q
  <2>4. Between(q, Append(o, Top("array", Append(s, item), key)), "comma")
    BY <1>1, <2>2, <2>3, DeliverWithin
  <2>5. QED
    BY <2>1, <2>4 DEF q

\* The items k and before are read.
Upon(r, o, kind, s, k) ==
  \E key : Between(r, Append(o, Top(kind, s, key)), IF k = 0 THEN First(kind) ELSE "comma")

\* What the i-th item is joined as.
Joins(joined, i, t) == joined = IF i = 1 THEN t ELSE <<Ch(",")>> \o t

\* An item, with the comma that json_join writes before all but the first.
LEMMA JoinedItemIsRead ==
  ASSUME NEW r, NEW o, IsSeq(o), NEW kind, Kind(kind), NEW s, NEW k \in Nat, Upon(r, o, kind, s, k),
         NEW t, NEW v, ReadsItem(t, kind, v), NEW joined, Joins(joined, k + 1, t)
  PROVE  joined \in Texts /\ Upon(ReadPiece(r, joined), o, kind, Append(s, v), k + 1)
<1>1. PICK key : Between(r, Append(o, Top(kind, s, key)), IF k = 0 THEN First(kind) ELSE "comma")
  BY DEF Upon
<1>2. t \in Seq(Symbols)
  BY DEF ReadsItem, Texts
<1>3. CASE k = 0
  <2>1. joined = t
    BY <1>3 DEF Joins
  <2>2. \E k2 : Between(ReadPiece(r, t), Append(o, Top(kind, Append(s, v), k2)), "comma")
    BY <1>1, <1>3 DEF ReadsItem
  <2>3. QED
    BY <1>2, <1>3, <2>1, <2>2 DEF Upon, Texts
<1>4. CASE k # 0
  <2> DEFINE sep == <<Ch(",")>>
             q == Read(r, Ch(","))
  <2>1. joined = sep \o t
    <3>1. k + 1 # 1
      BY <1>4
    <3>2. QED
      BY <3>1 DEF Joins
  <2>2. Between(q, Append(o, Top(kind, s, key)), Wanted(kind))
    BY <1>1, <1>4, CommaIsRead DEF Wanted
  <2>3. sep \in Seq(Symbols)
    BY DEF Symbols, Marks
  <2>4. ReadPiece(r, sep) = q
    BY PieceOfOne
  <2> HIDE DEF sep, q
  <2>5. \E k2 : Between(ReadPiece(q, t), Append(o, Top(kind, Append(s, v), k2)), "comma")
    BY <2>2 DEF ReadsItem
  <2>6. ReadPiece(r, joined) = ReadPiece(q, t)
    BY <1>2, <2>1, <2>3, <2>4, PieceOfBoth
  <2>7. joined \in Texts
    BY <1>2, <2>1, <2>3 DEF Texts
  <2>8. k + 1 # 0
    BY SMT
  <2>9. QED
    BY <2>5, <2>6, <2>7, <2>8 DEF Upon
<1>5. QED
  BY <1>3, <1>4

\* Items that are read as vals are, one by one.
ReadItems(items, kind, vals) ==
  /\ DOMAIN items = 1..Len(vals)
  /\ \A i \in 1..Len(vals) : ReadsItem(items[i], kind, vals[i])

\* Items joined between brackets are read as what holds them, in their order.
LEMMA JoinReads ==
  ASSUME NEW kind, Kind(kind), NEW V, NEW vals \in Seq(V), NEW items, ReadItems(items, kind, vals)
  PROVE  ReadsAs(<<Opening(kind)>> \o json_join(items) \o <<Closing(kind)>>, [kind |-> kind, of |-> vals])
<1> DEFINE m == Len(vals)
           joined == [i \in DOMAIN items |-> IF i = 1 THEN items[i] ELSE <<Ch(",")>> \o items[i]]
           flat == FlattenSeq(joined)
           opening == <<Opening(kind)>>
           closing == <<Closing(kind)>>
           whole == opening \o flat \o closing
           v == [kind |-> kind, of |-> vals]
<1>0. m \in Nat
  OBVIOUS
<1>1. /\ DOMAIN joined = 1..m
      /\ \A i \in 1..m : joined[i] = IF i = 1 THEN items[i] ELSE <<Ch(",")>> \o items[i]
  BY DEF ReadItems
<1>2. \A i \in 1..m : items[i] \in Seq(Symbols) /\ ReadsItem(items[i], kind, vals[i])
  BY DEF ReadItems, ReadsItem, Texts
<1>s. <<Ch(",")>> \in Seq(Symbols)
  BY DEF Symbols, Marks
<1>3. opening \in Seq(Symbols) /\ closing \in Seq(Symbols)
  <2>1. Opening(kind) \in Symbols /\ Closing(kind) \in Symbols
    BY DEF Symbols, Marks, Opening, Closing
  <2>2. QED
    BY <2>1
<1>4. joined \in Seq(Seq(Symbols)) /\ Len(joined) = m
  <2> DEFINE sep == <<Ch(",")>>
  <2>1. sep \in Seq(Symbols)
    BY <1>s
  <2> HIDE DEF sep, joined, m
  <2>2. ASSUME NEW i \in 1..m PROVE joined[i] \in Seq(Symbols)
    <3>1. items[i] \in Seq(Symbols) /\ joined[i] = IF i = 1 THEN items[i] ELSE sep \o items[i]
      BY <1>1, <1>2 DEF sep
    <3>2. sep \o items[i] \in Seq(Symbols)
      BY <2>1, <3>1
    <3>3. QED
      BY <3>1, <3>2
  <2>3. joined = [i \in 1..m |-> joined[i]]
    BY <1>1 DEF joined
  <2>4. joined \in [1..m -> Seq(Symbols)]
    BY <2>2, <2>3
  <2>5. QED
    BY <1>0, <2>4
<1>5. whole = opening \o json_join(items) \o closing
  BY DEF json_join
<1>6. flat \in Seq(Symbols)
  BY <1>4, FlattenIsWalked
<1> HIDE DEF m, joined, flat, opening, closing, whole, v
<1>7. opening \o flat \in Seq(Symbols) /\ whole \in Texts
  <2>1. opening \o flat \in Seq(Symbols)
    BY <1>3, <1>6
  <2>2. (opening \o flat) \o closing \in Seq(Symbols)
    BY <1>3, <2>1
  <2>3. QED
    BY <2>1, <2>2 DEF Texts, whole
<1>8. SUFFICES ASSUME NEW r, NEW o, NEW w, IsSeq(o), Between(r, o, w), Value(w)
               PROVE  Leaves(ReadPiece(r, whole), o, "value", v)
  BY <1>5, <1>7 DEF ReadsAs, opening, closing, v
<1> DEFINE q == Read(r, Opening(kind))
<1>9. Upon(q, o, kind, <<>>, 0)
  <2> DEFINE none == <<>>
  <2>1. /\ kind = "array" => Between(q, Append(o, Top(kind, none, none)), "first")
        /\ kind = "object" => Between(q, Append(o, Top(kind, none, none)), "first key")
    BY <1>8, OpenIsRead DEF Opening
  <2> HIDE DEF none
  <2>3. Between(q, Append(o, Top(kind, none, none)), First(kind))
    BY <2>1 DEF First, Kind
  <2>4. QED
    BY <2>3 DEF Upon, none
<1> HIDE DEF q
<1>10. PICK f : Walks(f, q, joined)
  BY <1>4, FlattenIsWalked
<1> DEFINE Right == {k \in Nat : k <= m => Upon(f[k], o, kind, SubSeq(vals, 1, k), k)}
<1>11. Right = Nat
  <2>1. 0 \in Right
    <3>1. SubSeq(vals, 1, 0) = <<>>
      OBVIOUS
    <3>2. QED
      BY <1>9, <1>10, <3>1 DEF Walks
  <2>2. ASSUME NEW k \in Right PROVE k + 1 \in Right
    <3>1. k \in Nat /\ (k <= m => Upon(f[k], o, kind, SubSeq(vals, 1, k), k))
      BY <2>2
    <3>2. SUFFICES ASSUME k + 1 <= m PROVE Upon(f[k + 1], o, kind, SubSeq(vals, 1, k + 1), k + 1)
      BY <3>1
    <3> HIDE DEF Right
    <3>3. /\ k + 1 \in 1..m /\ (k + 1) - 1 = k /\ k <= m
          /\ SubSeq(vals, 1, k + 1) = Append(SubSeq(vals, 1, k), vals[k + 1])
      BY <1>0, <3>1, <3>2, SubSeqGrows DEF m
    <3>4. f[k + 1] = ReadPiece(f[k], joined[k + 1])
      BY <1>4, <1>10, <3>3 DEF Walks
    <3>5. Upon(f[k], o, kind, SubSeq(vals, 1, k), k) /\ ReadsItem(items[k + 1], kind, vals[k + 1])
      BY <1>2, <3>1, <3>3
    <3>6. Joins(joined[k + 1], k + 1, items[k + 1])
      BY <1>1, <3>3 DEF Joins
    <3>7. Upon(ReadPiece(f[k], joined[k + 1]), o, kind, Append(SubSeq(vals, 1, k), vals[k + 1]), k + 1)
      BY <1>8, <3>1, <3>5, <3>6, JoinedItemIsRead
    <3>8. QED
      BY <3>3, <3>4, <3>7
  <2> HIDE DEF Right
  <2>3. Right \in SUBSET Nat
    BY DEF Right
  <2>4. QED
    BY <2>1, <2>2, <2>3, SetInduction
<1>12. Upon(f[m], o, kind, vals, m)
  <2>1. m \in Right
    BY <1>0, <1>11
  <2>2. SubSeq(vals, 1, m) = vals
    BY <1>0, SubSeqFull DEF m
  <2>3. Upon(f[m], o, kind, SubSeq(vals, 1, m), m)
    BY <1>0, <2>1
  <2>4. QED
    BY <2>2, <2>3
<1> HIDE DEF Right
<1>13. ReadPiece(r, whole) = Read(f[m], Closing(kind))
  <2>1. ReadPiece(r, opening) = q /\ ReadPiece(f[m], closing) = Read(f[m], Closing(kind))
    BY PieceOfOne DEF q, opening, closing
  <2>2. opening \o flat \in Seq(Symbols)
    BY <1>7
  <2>3. ReadPiece(r, opening \o flat) = ReadPiece(q, flat)
    BY <1>3, <1>6, <2>1, PieceOfBoth
  <2>4. ReadPiece(q, flat) = f[m]
    BY <1>4, <1>10 DEF Walks, flat
  <2>5. ReadPiece(r, (opening \o flat) \o closing) = ReadPiece(ReadPiece(r, opening \o flat), closing)
    BY <1>3, <2>2, PieceOfBoth
  <2>6. QED
    BY <2>1, <2>3, <2>4, <2>5 DEF whole
<1>14. PICK key : Between(f[m], Append(o, Top(kind, vals, key)), IF m = 0 THEN First(kind) ELSE "comma")
  BY <1>12 DEF Upon
<1>15. Closes(kind, Closing(kind), IF m = 0 THEN First(kind) ELSE "comma")
  BY DEF Closes, Closing, First, Kind
<1>16. QED
  BY <1>8, <1>13, <1>14, <1>15, CloseIsRead DEF v

-----------------------------------------------------------------------------
(* Fields, objects and arrays; and the numbers of a duration.              *)

\* A field: its key, a colon, its value.
LEMMA FieldIsItem ==
  ASSUME NEW key \in Seq(Symbols), NEW t, NEW v, ReadsAs(t, v)
  PROVE  ReadsItem(json_string(key) \o <<Ch(":")>> \o t, "object", <<key, v>>)
<1> DEFINE ks == json_string(key)
           colon == <<Ch(":")>>
           pair == <<key, v>>
           whole == (ks \o colon) \o t
<1>1. ks \in Seq(Symbols) /\ t \in Seq(Symbols) /\ colon \in Seq(Symbols)
  <2>1. ks \in Seq(Symbols)
    BY StringReads DEF ReadsAs, Texts
  <2>2. t \in Seq(Symbols)
    BY DEF ReadsAs, Texts
  <2>3. colon \in Seq(Symbols)
    <3>1. Ch(":") \in Symbols
      BY DEF Symbols, Marks
    <3>2. QED
      BY <3>1
  <2>4. QED
    BY <2>1, <2>2, <2>3
<1>2. ks \o colon \in Seq(Symbols) /\ whole \in Texts
  <2> HIDE DEF ks, colon
  <2>1. ks \o colon \in Seq(Symbols)
    BY <1>1
  <2>2. QED
    BY <1>1, <2>1 DEF Texts
<1>3. ASSUME NEW r, NEW o, NEW s, NEW k, NEW w, IsSeq(o), Between(r, Append(o, Top("object", s, k)), w),
             w \in {First("object"), Wanted("object")}
      PROVE  Between(ReadPiece(r, whole), Append(o, Top("object", Append(s, pair), key)), "comma")
  <2> DEFINE oo == Append(o, Top("object", s, k))
             kk == Append(o, Top("object", s, key))
             rk == ReadPiece(r, ks)
             rc == Read(rk, Ch(":"))
             rt == ReadPiece(rc, t)
  <2>1. Takes(w) /\ w \in {"key", "first key"} /\ IsSeq(kk) /\ Value("value")
    BY <1>3, StackPush DEF Takes, First, Wanted, Value
  <2>2. Leaves(rk, oo, w, Str(key))
    BY <1>3, <2>1, StringIsRead
  <2>3. Between(rk, kk, "colon")
    <3>1. Str(key).of = key
      BY DEF Str
    <3> HIDE DEF rk
    <3>2. Between(rk, Append(o, Top("object", s, Str(key).of)), "colon")
      BY <1>3, <2>1, <2>2, DeliverWithin
    <3>3. QED
      BY <3>1, <3>2
  <2> HIDE DEF rk, kk
  <2>4. Between(rc, kk, "value")
    BY <2>3, ColonIsRead
  <2> HIDE DEF rc
  <2>5. Leaves(rt, kk, "value", v)
    BY <2>1, <2>4 DEF ReadsAs
  <2>6. Between(rt, Append(o, Top("object", Append(s, pair), key)), "comma")
    <3> DEFINE item == IF "object" = "array" THEN v ELSE pair
    <3>1. item = pair
      OBVIOUS
    <3>2. "value" \notin {"key", "first key"}
      OBVIOUS
    <3> HIDE DEF rt
    <3>3. Between(rt, Append(o, Top("object", Append(s, item), key)), "comma")
      BY <1>3, <2>5, <3>2, DeliverWithin DEF kk
    <3>4. QED
      BY <3>1, <3>3
  <2>7. ReadPiece(r, whole) = rt
    <3>1. ReadPiece(rk, colon) = rc
      BY PieceOfOne DEF rc
    <3> HIDE DEF ks, colon
    <3>2. ReadPiece(r, ks \o colon) = ReadPiece(rk, colon)
      BY <1>1, PieceOfBoth DEF rk
    <3>3. ReadPiece(r, (ks \o colon) \o t) = ReadPiece(ReadPiece(r, ks \o colon), t)
      BY <1>1, <1>2, PieceOfBoth
    <3>4. QED
      BY <3>1, <3>2, <3>3
  <2>8. QED
    BY <2>6, <2>7
<1> HIDE DEF pair, ks, colon
<1>4. ReadsItem(whole, "object", pair)
  BY <1>2, <1>3 DEF ReadsItem
<1>5. QED
  BY <1>4 DEF pair, ks, colon

\* A field f is read as the pair p; fields are, one by one.
FieldAs(f, p) == f[1] \in Seq(Symbols) /\ ReadsAs(f[2], p[2]) /\ p = <<f[1], p[2]>>

ReadFields(fields, pairs) ==
  /\ DOMAIN fields = 1..Len(pairs)
  /\ \A i \in 1..Len(pairs) : FieldAs(fields[i], pairs[i])

\* Braces around fields: an object of those fields.
LEMMA ObjectReads ==
  ASSUME NEW V, NEW pairs \in Seq(V), NEW fields, ReadFields(fields, pairs)
  PROVE  ReadsAs(json_object(fields), [kind |-> "object", of |-> pairs])
<1> DEFINE items == [i \in DOMAIN fields |-> json_string(fields[i][1]) \o <<Ch(":")>> \o fields[i][2]]
<1>1. DOMAIN items = 1..Len(pairs)
  BY DEF ReadFields
<1>2. ASSUME NEW i \in 1..Len(pairs) PROVE ReadsItem(items[i], "object", pairs[i])
  <2> DEFINE key == fields[i][1]
             t == fields[i][2]
             v == pairs[i][2]
  <2>1. key \in Seq(Symbols) /\ ReadsAs(t, v) /\ pairs[i] = <<key, v>>
    BY DEF ReadFields, FieldAs
  <2>2. items[i] = json_string(key) \o <<Ch(":")>> \o t
    BY DEF ReadFields
  <2> HIDE DEF key, t, v, items
  <2>3. ReadsItem(json_string(key) \o <<Ch(":")>> \o t, "object", <<key, v>>)
    BY <2>1, FieldIsItem
  <2>4. QED
    BY <2>1, <2>2, <2>3
<1>3. json_object(fields) = <<Opening("object")>> \o json_join(items) \o <<Closing("object")>>
  BY DEF json_object, Opening, Closing
<1> HIDE DEF items
<1>4. ReadItems(items, "object", pairs) /\ Kind("object")
  BY <1>1, <1>2 DEF ReadItems, Kind
<1>5. QED
  BY <1>3, <1>4, JoinReads

\* Brackets around values: an array of those values.
LEMMA ArrayReads ==
  ASSUME NEW V, NEW vals \in Seq(V), NEW items, DOMAIN items = 1..Len(vals),
         \A i \in 1..Len(vals) : ReadsAs(items[i], vals[i])
  PROVE  ReadsAs(<<Ch("[")>> \o json_join(items) \o <<Ch("]")>>, [kind |-> "array", of |-> vals])
<1>1. ReadItems(items, "array", vals) /\ Kind("array")
  BY ValueIsItem DEF ReadItems, Kind
<1>2. ReadsAs(<<Opening("array")>> \o json_join(items) \o <<Closing("array")>>, [kind |-> "array", of |-> vals])
  BY <1>1, JoinReads
<1>3. Opening("array") = Ch("[") /\ Closing("array") = Ch("]")
  BY DEF Opening, Closing
<1>4. QED
  BY <1>2, <1>3

-----------------------------------------------------------------------------
(* The significant digits of a number.                                     *)

Units(f, m) == f = [w \in 0..m |-> IF w < Precision THEN 1 ELSE 10 * f[w \div 10]]

\* Dividing by ten ends.
LEMMA TenthIsLess ==
  ASSUME NEW w \in Nat, w # 0
  PROVE  w \div 10 \in Nat /\ w \div 10 < w
OBVIOUS

\* The recursive function of Unit is what its equation says.
LEMMA UnitStates ==
  ASSUME NEW m \in Nat
  PROVE  \E f : Units(f, m)
<1> DEFINE Has == {k \in Nat : \E f : Units(f, k)}
<1>0. Precision \in Nat \ {0}
  BY WidthAssumption
<1>1. 0 \in Has
  <2> DEFINE f == [w \in 0..0 |-> 1]
  <2>1. \A w \in 0..0 : w < Precision
    BY <1>0
  <2>2. f = [w \in 0..0 |-> IF w < Precision THEN 1 ELSE 10 * f[w \div 10]]
    BY <2>1
  <2>3. QED
    BY <2>2 DEF Units
<1>2. ASSUME NEW k \in Has PROVE k + 1 \in Has
  <2>1. PICK f : Units(f, k)
    BY <1>2
  <2>2. k \in Nat
    BY <1>2
  <2> DEFINE last == IF k + 1 < Precision THEN 1 ELSE 10 * f[(k + 1) \div 10]
             g == [w \in 0..k + 1 |-> IF w = k + 1 THEN last ELSE f[w]]
  <2>3. ASSUME NEW w \in 0..k + 1
        PROVE  g[w] = IF w < Precision THEN 1 ELSE 10 * g[w \div 10]
    <3>0. w \in Nat /\ (w # 0 => w \div 10 \in 0..k /\ w \div 10 # k + 1)
      BY <2>2, TenthIsLess
    <3>1. w # 0 => g[w \div 10] = f[w \div 10]
      <4>1. SUFFICES ASSUME w # 0 PROVE g[w \div 10] = f[w \div 10]
        OBVIOUS
      <4>2. w \div 10 \in 0..k + 1 /\ w \div 10 # k + 1
        BY <2>2, <3>0, <4>1
      <4>3. QED
        BY <4>2
    <3>2. w = 0 => w < Precision
      BY <1>0
    <3>3. CASE w = k + 1
      BY <3>1, <3>2, <3>3
    <3>4. CASE w # k + 1
      <4>1. w \in 0..k /\ g[w] = f[w]
        BY <2>2, <3>4
      <4>2. f[w] = IF w < Precision THEN 1 ELSE 10 * f[w \div 10]
        BY <2>1, <4>1 DEF Units
      <4>3. QED
        BY <3>1, <3>2, <4>1, <4>2
    <3>5. QED
      BY <3>3, <3>4
  <2>4. Units(g, k + 1)
    BY <2>3 DEF Units
  <2>5. QED
    BY <2>2, <2>4
<1>3. Has = Nat
  <2> HIDE DEF Has
  <2>1. Has \in SUBSET Nat
    BY DEF Has
  <2>2. QED
    BY <1>1, <1>2, <2>1, SetInduction
<1>4. QED
  BY <1>3

\* The unit of the last digit kept is at least one and divides by no less.
LEMMA UnitIsPositive ==
  ASSUME NEW v \in Nat
  PROVE  Unit(v) \in Nat /\ Unit(v) >= 1
<1> DEFINE unit == CHOOSE f : Units(f, v)
<1>1. Units(unit, v)
  BY UnitStates
<1>2. Unit(v) = unit[v]
  BY DEF Unit, Units
<1> HIDE DEF unit
<1>3. \A w \in 0..v : unit[w] = IF w < Precision THEN 1 ELSE 10 * unit[w \div 10]
  BY <1>1 DEF Units
<1>0. Precision \in Nat \ {0}
  BY WidthAssumption
<1> DEFINE Good == {k \in Nat : \A w \in 0..v : w <= k => unit[w] \in Nat /\ unit[w] >= 1}
<1>4. Good = Nat
  <2>1. 0 \in Good
    <3>1. unit[0] = 1
      BY <1>0, <1>3
    <3>2. QED
      BY <3>1
  <2>2. ASSUME NEW k \in Good PROVE k + 1 \in Good
    <3>1. k \in Nat /\ \A w \in 0..v : w <= k => unit[w] \in Nat /\ unit[w] >= 1
      BY <2>2
    <3>2. SUFFICES ASSUME NEW w \in 0..v, w <= k + 1 PROVE unit[w] \in Nat /\ unit[w] >= 1
      BY <3>1
    <3> HIDE DEF Good
    <3>3. CASE w < Precision
      BY <1>3, <3>3
    <3>4. CASE ~ (w < Precision)
      <4>1. w \in Nat /\ w # 0 /\ unit[w] = 10 * unit[w \div 10]
        BY <1>0, <1>3, <3>4
      <4>2. w \div 10 \in 0..v /\ w \div 10 <= k
        BY <3>1, <3>2, <4>1, TenthIsLess
      <4>3. unit[w \div 10] \in Nat /\ unit[w \div 10] >= 1
        BY <3>1, <4>2
      <4>4. QED
        BY <4>1, <4>3
    <3>5. QED
      BY <3>3, <3>4
  <2> HIDE DEF Good
  <2>3. Good \in SUBSET Nat
    BY DEF Good
  <2>4. QED
    BY <2>1, <2>2, <2>3, SetInduction
<1>5. QED
  <2>1. v \in Good /\ v \in 0..v /\ v <= v
    BY <1>4
  <2>2. unit[v] \in Nat /\ unit[v] >= 1
    BY <2>1
  <2>3. QED
    BY <1>2, <2>2

\* A duration rounded to its unit is within half a unit of what it was.
LEMMA RoundedIsNear ==
  ASSUME NEW v \in Nat
  PROVE  Rounded(v) \in Int /\ 2 * (Rounded(v) - v) \in -Unit(v)..Unit(v)
<1> DEFINE u == Unit(v)
           down == v \div u
           rest == v % u
           p == u * down
<1>1. u \in Nat /\ u >= 1
  BY UnitIsPositive
<1>2. Rounded(v) = u * IF 2 * rest > u \/ (2 * rest = u /\ down % 2 = 1) THEN down + 1 ELSE down
  BY DEF Rounded
<1> HIDE DEF u
<1>3. down \in Int /\ rest \in Int /\ 0 <= rest /\ rest < u /\ v = p + rest
  BY <1>1
<1>4. p \in Int /\ u * (down + 1) = p + u
  BY <1>1, <1>3
<1> HIDE DEF down, rest, p
<1>5. CASE 2 * rest > u \/ (2 * rest = u /\ down % 2 = 1)
  <2>1. Rounded(v) = p + u
    BY <1>2, <1>4, <1>5
  <2>2. QED
    BY <1>1, <1>3, <1>4, <1>5, <2>1 DEF u
<1>6. CASE ~ (2 * rest > u \/ (2 * rest = u /\ down % 2 = 1))
  <2>1. Rounded(v) = p
    BY <1>2, <1>6 DEF p
  <2>2. ~ (2 * rest > u)
    BY <1>6
  <2>3. QED
    BY <1>1, <1>3, <1>4, <2>1, <2>2 DEF u
<1>7. QED
  BY <1>5, <1>6

-----------------------------------------------------------------------------
(* Sequences of fields, one after another.                                 *)

\* Two sequences, one after the other.
LEMMA SeqsInOne ==
  ASSUME NEW p, NEW q, IsSeq(p), IsSeq(q)
  PROVE  /\ IsSeq(p \o q) /\ Len(p) \in Nat /\ Len(q) \in Nat /\ Len(p \o q) = Len(p) + Len(q)
         /\ DOMAIN p = 1..Len(p) /\ DOMAIN q = 1..Len(q) /\ DOMAIN (p \o q) = 1..Len(p \o q)
         /\ \A i \in 1..Len(p) : (p \o q)[i] = p[i]
         /\ \A i \in 1..Len(q) : (p \o q)[Len(p) + i] = q[i]
<1>1. PICK F : p \in Seq(F)
  BY DEF IsSeq
<1>2. PICK G : q \in Seq(G)
  BY DEF IsSeq
<1> DEFINE H == F \cup G
<1>3. p \in Seq(H) /\ q \in Seq(H)
  BY <1>1, <1>2
<1> HIDE DEF H
<1>4. p \o q \in Seq(H)
  BY <1>3
<1>5. QED
  BY <1>3, <1>4, ConcatProperties DEF IsSeq

\* The fields an object has of two sequences of them.
LEMMA FieldsOfBoth ==
  ASSUME NEW f, NEW g, NEW p, NEW q, IsSeq(f), IsSeq(g), IsSeq(p), IsSeq(q), ReadFields(f, p), ReadFields(g, q)
  PROVE  ReadFields(f \o g, p \o q)
<1> DEFINE fg == f \o g
           pq == p \o q
           a == Len(p)
           b == Len(q)
<1>1. /\ a \in Nat /\ b \in Nat /\ Len(pq) = a + b
      /\ \A i \in 1..a : pq[i] = p[i]
      /\ \A i \in 1..b : pq[a + i] = q[i]
  BY SeqsInOne
<1>2. /\ Len(f) \in Nat /\ Len(g) \in Nat /\ 1..Len(f) = 1..a /\ 1..Len(g) = 1..b
      /\ Len(fg) = Len(f) + Len(g) /\ DOMAIN fg = 1..Len(fg)
      /\ \A i \in 1..Len(f) : fg[i] = f[i]
      /\ \A i \in 1..Len(g) : fg[Len(f) + i] = g[i]
  BY SeqsInOne DEF ReadFields
<1>3. \A i \in 1..a : FieldAs(f[i], p[i])
  BY DEF ReadFields
<1>4. \A i \in 1..b : FieldAs(g[i], q[i])
  BY DEF ReadFields
<1> HIDE DEF fg, pq, a, b
<1>5. Len(f) = a /\ Len(g) = b
  BY <1>1, <1>2
<1>6. ASSUME NEW i \in 1..(a + b) PROVE FieldAs(fg[i], pq[i])
  <2>1. CASE i <= a
    <3>1. i \in 1..a
      BY <1>1, <2>1
    <3>2. QED
      BY <1>1, <1>2, <1>3, <1>5, <3>1
  <2>2. CASE ~ (i <= a)
    <3>1. i - a \in 1..b /\ a + (i - a) = i
      BY <1>1, <2>2
    <3>2. pq[i] = q[i - a] /\ fg[i] = g[i - a]
      BY <1>1, <1>2, <1>5, <3>1
    <3>3. QED
      BY <1>4, <3>1, <3>2
  <2>3. QED
    BY <2>1, <2>2
<1>7. ReadFields(fg, pq)
  BY <1>1, <1>2, <1>5, <1>6 DEF ReadFields
<1>8. QED
  BY <1>7 DEF fg, pq

\* Fields written of two sequences are written of the two in one.
LEMMA FieldsInOne ==
  ASSUME NEW f1, NEW f2, NEW f3, NEW p1, NEW p2, NEW p3, FieldAs(f1, p1), FieldAs(f2, p2), FieldAs(f3, p3)
  PROVE  /\ ReadFields(<<f1, f2, f3>>, <<p1, p2, p3>>) /\ IsSeq(<<f1, f2, f3>>) /\ IsSeq(<<p1, p2, p3>>)
         /\ ReadFields(<<f1, f2>>, <<p1, p2>>) /\ IsSeq(<<f1, f2>>) /\ IsSeq(<<p1, p2>>)
         /\ ReadFields(<<f1>>, <<p1>>) /\ IsSeq(<<f1>>) /\ IsSeq(<<p1>>)
<1> DEFINE f == <<f1, f2, f3>>
           p == <<p1, p2, p3>>
           g == <<f1, f2>>
           q == <<p1, p2>>
           h == <<f1>>
           s == <<p1>>
<1>1. f \in Seq({f1, f2, f3}) /\ p \in Seq({p1, p2, p3}) /\ g \in Seq({f1, f2}) /\ q \in Seq({p1, p2})
      /\ h \in Seq({f1}) /\ s \in Seq({p1})
  OBVIOUS
<1>2. /\ DOMAIN f = 1..3 /\ Len(p) = 3 /\ f[1] = f1 /\ f[2] = f2 /\ f[3] = f3 /\ p[1] = p1 /\ p[2] = p2 /\ p[3] = p3
      /\ DOMAIN g = 1..2 /\ Len(q) = 2 /\ g[1] = f1 /\ g[2] = f2 /\ q[1] = p1 /\ q[2] = p2
      /\ DOMAIN h = 1..1 /\ Len(s) = 1 /\ h[1] = f1 /\ s[1] = p1
  OBVIOUS
<1> HIDE DEF f, g, p, q, h, s
<1>3. ReadFields(f, p)
  BY <1>2 DEF ReadFields
<1>4. ReadFields(g, q)
  BY <1>2 DEF ReadFields
<1>5. ReadFields(h, s)
  BY <1>2 DEF ReadFields
<1>6. IsSeq(f) /\ IsSeq(p) /\ IsSeq(g) /\ IsSeq(q) /\ IsSeq(h) /\ IsSeq(s)
  BY <1>1 DEF IsSeq
<1>7. QED
  BY <1>3, <1>4, <1>5, <1>6 DEF f, g, p, q, h, s

-----------------------------------------------------------------------------
(* The dict of a sequence of pairs.                                        *)

\* The last pair of the key k is the i-th.
LastOf(p, k, i) ==
  /\ i \in 1..Len(p) /\ p[i][1] = k
  /\ \A j \in 1..Len(p) : p[j][1] = k => j <= i

\* A key that is in a dict has a last pair.
LEMMA KeyHasLast ==
  ASSUME NEW p, IsSeq(p), NEW k, NEW j \in 1..Len(p), p[j][1] = k
  PROVE  \E i : LastOf(p, k, i)
<1> DEFINE I == {i \in 1..Len(p) : p[i][1] = k}
<1>1. Len(p) \in Nat /\ I \in SUBSET (1..Len(p)) /\ j \in I
  BY SeqsInOne
<1>2. Max(I) \in I /\ \A i \in I : Max(I) >= i
  BY <1>1, MaxOfBounded
<1>3. \A i \in 1..Len(p) : p[i][1] = k => i <= Max(I)
  BY <1>1, <1>2
<1>4. LastOf(p, k, Max(I))
  BY <1>2, <1>3 DEF LastOf
<1>5. QED
  BY <1>4

\* A dict's keys are its pairs' keys.
LEMMA DictDomain ==
  ASSUME NEW p, IsSeq(p), NEW k
  PROVE  k \in DOMAIN Dict(p) <=> \E i : LastOf(p, k, i)
<1>1. DOMAIN p = 1..Len(p)
  BY SeqsInOne
<1>2. DOMAIN Dict(p) = {p[i][1] : i \in DOMAIN p}
  BY DEF Dict
<1>3. ASSUME k \in DOMAIN Dict(p) PROVE \E i : LastOf(p, k, i)
  <2>1. PICK j \in 1..Len(p) : p[j][1] = k
    BY <1>1, <1>2, <1>3
  <2>2. QED
    BY <2>1, KeyHasLast
<1>4. ASSUME NEW i, LastOf(p, k, i) PROVE k \in DOMAIN Dict(p)
  BY <1>1, <1>2, <1>4 DEF LastOf
<1>5. QED
  BY <1>3, <1>4

\* Of two pairs with one key, a dict keeps the last.
LEMMA DictIsLast ==
  ASSUME NEW p, IsSeq(p), NEW k, NEW i, LastOf(p, k, i)
  PROVE  k \in DOMAIN Dict(p) /\ Dict(p)[k] = p[i][2]
<1> DEFINE I == {j \in DOMAIN p : p[j][1] = k}
<1>1. Len(p) \in Nat /\ DOMAIN p = 1..Len(p)
  BY SeqsInOne
<1>2. k \in DOMAIN Dict(p)
  BY DictDomain
<1>3. Dict(p)[k] = p[Max(I)][2]
  BY <1>2 DEF Dict
<1>4. i \in I /\ \A j \in I : j <= i
  BY <1>1 DEF LastOf
<1>5. I \in SUBSET (1..Len(p))
  BY <1>1
<1>6. Max(I) \in I /\ \A j \in I : Max(I) >= j
  <2>1. I # {}
    BY <1>4
  <2> HIDE DEF I
  <2>2. QED
    BY <1>1, <1>5, <2>1, MaxOfBounded
<1>7. Max(I) = i
  <2> HIDE DEF I
  <2> DEFINE top == Max(I)
  <2>1. top \in 1..Len(p) /\ i \in 1..Len(p)
    BY <1>4, <1>5, <1>6
  <2>2. top >= i /\ top <= i
    BY <1>4, <1>6
  <2> HIDE DEF top
  <2>3. top = i
    BY <2>1, <2>2
  <2>4. QED
    BY <2>3 DEF top
<1>8. QED
  BY <1>2, <1>3, <1>7

\* The dict of two sequences: the second over the first.
LEMMA DictOfBoth ==
  ASSUME NEW p, NEW q, IsSeq(p), IsSeq(q)
  PROVE  Dict(p \o q) = Over(Dict(q), Dict(p))
<1> DEFINE pq == p \o q
           a == Len(p)
           b == Len(q)
<1>1. /\ IsSeq(pq) /\ a \in Nat /\ b \in Nat /\ Len(pq) = a + b
      /\ \A i \in 1..a : pq[i] = p[i]
      /\ \A i \in 1..b : pq[a + i] = q[i]
  BY SeqsInOne
<1> HIDE DEF pq, a, b
<1>2. ASSUME NEW k, NEW i, LastOf(q, k, i) PROVE LastOf(pq, k, a + i)
  <2>1. i \in 1..b /\ q[i][1] = k /\ \A j \in 1..b : q[j][1] = k => j <= i
    BY <1>2 DEF LastOf, b
  <2>2. a + i \in 1..Len(pq) /\ pq[a + i][1] = k
    BY <1>1, <2>1
  <2>3. ASSUME NEW j \in 1..Len(pq), pq[j][1] = k PROVE j <= a + i
    <3>1. CASE j <= a
      BY <1>1, <2>1, <3>1
    <3>2. CASE ~ (j <= a)
      <4>1. j - a \in 1..b /\ a + (j - a) = j
        BY <1>1, <3>2
      <4>2. q[j - a][1] = k
        BY <1>1, <2>3, <4>1
      <4>3. j - a <= i
        BY <2>1, <4>1, <4>2
      <4>4. QED
        BY <1>1, <2>1, <4>1, <4>3
    <3>3. QED
      BY <3>1, <3>2
  <2>4. QED
    BY <2>2, <2>3 DEF LastOf
<1>3. ASSUME NEW k, NEW i, LastOf(p, k, i), ~ \E j : LastOf(q, k, j) PROVE LastOf(pq, k, i)
  <2>1. i \in 1..a /\ p[i][1] = k /\ \A j \in 1..a : p[j][1] = k => j <= i
    BY <1>3 DEF LastOf, a
  <2>2. i \in 1..Len(pq) /\ pq[i][1] = k
    BY <1>1, <2>1
  <2>3. ASSUME NEW j \in 1..Len(pq), pq[j][1] = k PROVE j <= i
    <3>1. CASE j <= a
      <4>1. j \in 1..a
        BY <1>1, <3>1
      <4>2. p[j][1] = k
        BY <1>1, <2>3, <4>1
      <4>3. QED
        BY <2>1, <4>1, <4>2
    <3>2. CASE ~ (j <= a)
      <4>1. j - a \in 1..b /\ a + (j - a) = j
        BY <1>1, <3>2
      <4>2. q[j - a][1] = k
        BY <1>1, <2>3, <4>1
      <4>3. QED
        BY <1>3, <4>1, <4>2, KeyHasLast DEF b
    <3>3. QED
      BY <3>1, <3>2
  <2>4. QED
    BY <2>2, <2>3 DEF LastOf
<1>4. ASSUME NEW k, NEW i, LastOf(pq, k, i) PROVE (\E j : LastOf(p, k, j)) \/ (\E j : LastOf(q, k, j))
  <2>1. i \in 1..a + b /\ pq[i][1] = k
    BY <1>1, <1>4 DEF LastOf
  <2>2. CASE i <= a
    <3>1. i \in 1..a /\ p[i][1] = k
      BY <1>1, <2>1, <2>2
    <3>2. QED
      BY <3>1, KeyHasLast DEF a
  <2>3. CASE ~ (i <= a)
    <3>1. i - a \in 1..b /\ a + (i - a) = i
      BY <1>1, <2>1, <2>3
    <3>2. q[i - a][1] = k
      BY <1>1, <2>1, <3>1
    <3>3. QED
      BY <3>1, <3>2, KeyHasLast DEF b
  <2>4. QED
    BY <2>2, <2>3
<1> DEFINE d == Dict(pq)
           e == Over(Dict(q), Dict(p))
<1>5. DOMAIN e = DOMAIN Dict(q) \cup DOMAIN Dict(p)
      /\ \A k \in DOMAIN e : e[k] = IF k \in DOMAIN Dict(q) THEN Dict(q)[k] ELSE Dict(p)[k]
  BY DEF Over
<1>6. \A k : k \in DOMAIN d <=> k \in DOMAIN e
  <2>1. \A k : k \in DOMAIN d <=> \E i : LastOf(pq, k, i)
    BY <1>1, DictDomain
  <2>2. \A k : k \in DOMAIN e <=> (\E j : LastOf(p, k, j)) \/ (\E j : LastOf(q, k, j))
    BY <1>5, DictDomain
  <2> HIDE DEF d, e
  <2>3. QED
    BY <1>2, <1>3, <1>4, <2>1, <2>2
<1>7. ASSUME NEW k, k \in DOMAIN e PROVE d[k] = e[k]
  <2>1. CASE k \in DOMAIN Dict(q)
    <3>1. PICK j : LastOf(q, k, j)
      BY <2>1, DictDomain
    <3>2. Dict(q)[k] = q[j][2] /\ j \in 1..b
      BY <3>1, DictIsLast DEF LastOf, b
    <3>3. d[k] = pq[a + j][2]
      BY <1>1, <1>2, <3>1, DictIsLast
    <3> HIDE DEF d, e
    <3>4. QED
      BY <1>1, <1>5, <1>7, <2>1, <3>2, <3>3
  <2>2. CASE k \notin DOMAIN Dict(q)
    <3>1. PICK j : LastOf(p, k, j)
      BY <1>5, <1>7, <2>2, DictDomain
    <3>2. ~ \E i : LastOf(q, k, i)
      BY <2>2, DictDomain
    <3>3. Dict(p)[k] = p[j][2] /\ j \in 1..a
      BY <3>1, DictIsLast DEF LastOf, a
    <3>4. d[k] = pq[j][2]
      BY <1>1, <1>3, <3>1, <3>2, DictIsLast
    <3> HIDE DEF d, e
    <3>5. QED
      BY <1>1, <1>5, <1>7, <2>2, <3>3, <3>4
  <2>3. QED
    BY <2>1, <2>2
<1>8. d = [k \in DOMAIN d |-> d[k]] /\ e = [k \in DOMAIN e |-> e[k]]
  BY DEF Dict, Over
<1> HIDE DEF d, e
<1>9. d = e
  BY <1>6, <1>7, <1>8
<1>10. QED
  BY <1>9 DEF d, e, pq

-----------------------------------------------------------------------------
(* A case and a run.                                                       *)

Case == [name : Names, samples : Seq(Measures), domain : Domains, result : Outcomes]

\* What the reporter has of a sample, and of all of a case.
Kept(v) == IF v < 0 THEN v ELSE Rounded(v)
KeptArray(samples) == [kind |-> "array", of |-> [i \in DOMAIN samples |-> Int_(Kept(samples[i]))]]

\* The pairs of a case but the domain's, its samples being arr; and all that are read of it.
ResultOf(c) == IF c.result = Absent THEN <<>> ELSE <<<<Key("result"), c.result>>>>
Schema(c, arr) ==
  <<<<Key("name"), Str(c.name)>>, <<Key("unit"), Str(Key("s"))>>, <<Key("samples"), arr>>>> \o ResultOf(c)
ReadPairs(c) == Schema(c, KeptArray(c.samples)) \o c.domain
Object(pairs) == [kind |-> "object", of |-> pairs]

\* The keys of the schema are texts.
LEMMA KeysAreTexts ==
  /\ Key("name") \in Seq(Symbols) /\ Key("unit") \in Seq(Symbols) /\ Key("samples") \in Seq(Symbols)
  /\ Key("result") \in Seq(Symbols) /\ Key("meta") \in Seq(Symbols) /\ Key("cases") \in Seq(Symbols)
  /\ Key("bench") \in Seq(Symbols) /\ Key("selftest") \in Seq(Symbols) /\ Key("s") \in Seq(Symbols)
<1>1. \A k \in {"name", "unit", "samples", "result", "meta", "cases", "bench", "selftest", "s"} : Ch(k) \in Symbols
  BY DEF Symbols, Marks
<1>2. \A k : Ch(k) \in Symbols => Key(k) \in Seq(Symbols)
  BY DEF Key
<1>3. QED
  BY <1>1, <1>2

\* A sample is read as what is kept of it: itself, or its digits.
LEMMA MeasureReads ==
  ASSUME NEW v \in Measures
  PROVE  /\ ReadsAs(json_number(v), Int_(Kept(v)))
         /\ v \in Int /\ Kept(v) \in Int
         /\ IF v < 0 THEN Kept(v) = v ELSE 2 * (Kept(v) - v) \in -Unit(v)..Unit(v)
<1>1. v \in Nat \/ v = NaN \/ v = Infinity \/ v = MinusInfinity
  BY MeasuresAssumption
<1>2. CASE v \in Nat
  <2>1. v # NaN /\ v # Infinity /\ v # MinusInfinity /\ ~ (v < 0)
    BY <1>2 DEF NaN, Infinity, MinusInfinity
  <2>2. json_number(v) = <<Num(Rounded(v))>> /\ Kept(v) = Rounded(v)
    BY <2>1 DEF json_number, Kept
  <2>3. Rounded(v) \in Int /\ 2 * (Rounded(v) - v) \in -Unit(v)..Unit(v)
    BY <1>2, RoundedIsNear
  <2>4. ReadsAs(<<Num(Rounded(v))>>, Int_(Rounded(v)))
    BY <2>3, NumberReads
  <2>5. QED
    BY <1>2, <2>1, <2>2, <2>3, <2>4
<1>3. NaN # Infinity /\ NaN # MinusInfinity /\ Infinity # MinusInfinity
      /\ NaN \in Int /\ Infinity \in Int /\ MinusInfinity \in Int /\ NaN < 0 /\ Infinity < 0 /\ MinusInfinity < 0
  BY DEF NaN, Infinity, MinusInfinity
<1>4. CASE v = NaN
  <2>1. json_number(v) = <<Word("NaN")>> /\ Kept(v) = NaN
    BY <1>3, <1>4 DEF json_number, Kept
  <2>2. QED
    BY <1>3, <1>4, <2>1, NumberReads
<1>5. CASE v = Infinity
  <2>1. json_number(v) = <<Word("Infinity")>> /\ Kept(v) = Infinity
    BY <1>3, <1>5 DEF json_number, Kept
  <2>2. QED
    BY <1>3, <1>5, <2>1, NumberReads
<1>6. CASE v = MinusInfinity
  <2>1. json_number(v) = <<Word("-Infinity")>> /\ Kept(v) = MinusInfinity
    BY <1>3, <1>6 DEF json_number, Kept
  <2>2. QED
    BY <1>3, <1>6, <2>1, NumberReads
<1>7. QED
  BY <1>1, <1>2, <1>4, <1>5, <1>6

\* The samples of a case, one by one.
LEMMA SamplesRead ==
  ASSUME NEW samples \in Seq(Measures)
  PROVE  ReadsAs(json_array(samples), KeptArray(samples))
<1> DEFINE vals == [i \in DOMAIN samples |-> Int_(Kept(samples[i]))]
           items == [i \in DOMAIN samples |-> json_number(samples[i])]
           V == {Int_(k) : k \in Int}
<1>1. Len(samples) \in Nat /\ DOMAIN samples = 1..Len(samples) /\ \A i \in 1..Len(samples) : samples[i] \in Measures
  OBVIOUS
<1>2. \A i \in 1..Len(samples) : vals[i] \in V /\ ReadsAs(items[i], vals[i])
  BY <1>1, MeasureReads
<1>3. vals \in Seq(V) /\ Len(vals) = Len(samples)
  <2>1. vals = [i \in 1..Len(samples) |-> vals[i]]
    BY <1>1
  <2> HIDE DEF vals, V
  <2>2. vals \in [1..Len(samples) -> V]
    BY <1>2, <2>1
  <2>3. QED
    BY <1>1, <2>2
<1>4. DOMAIN items = 1..Len(samples)
  BY <1>1
<1>5. json_array(samples) = <<Ch("[")>> \o json_join(items) \o <<Ch("]")>>
  BY DEF json_array
<1>6. KeptArray(samples) = [kind |-> "array", of |-> vals]
  BY DEF KeptArray
<1> HIDE DEF vals, items, V
<1>7. QED
  BY <1>2, <1>3, <1>4, <1>5, <1>6, ArrayReads

\* Names are texts, whatever characters they hold.
LEMMA NamesAreTexts == Seq(Chars) \subseteq Seq(Symbols)
<1>1. Chars \subseteq Symbols
  BY DEF Symbols
<1> HIDE DEF Symbols, Chars
<1>2. QED
  BY <1>1

\* A value of the domain is read for itself.
LEMMA ValueReads ==
  ASSUME NEW v \in Values
  PROVE  ReadsAs(Render(v), v)
<1>1. CASE v \in [kind : {"string"}, of : Seq(Chars)]
  <2>1. v.kind = "string" /\ v.of \in Seq(Symbols) /\ v = [kind |-> "string", of |-> v.of]
    BY <1>1, NamesAreTexts
  <2>2. Render(v) = json_string(v.of) /\ v = Str(v.of)
    BY <2>1 DEF Render, Str
  <2>3. QED
    BY <2>1, <2>2, StringReads
<1>2. CASE v \in [kind : {"integer"}, of : Int]
  <2>1. v.kind = "integer" /\ v.of \in Int /\ v = [kind |-> "integer", of |-> v.of]
    BY <1>2
  <2>2. Render(v) = <<Num(v.of)>> /\ v = Int_(v.of)
    BY <2>1 DEF Render, Int_, json_integer
  <2>3. QED
    BY <2>1, <2>2, NumberReads
<1>3. QED
  BY <1>1, <1>2 DEF Values

\* A field, of a text and of what its value reads as.
LEMMA FieldReads ==
  ASSUME NEW key \in Seq(Symbols), NEW t, NEW v, ReadsAs(t, v)
  PROVE  FieldAs(<<key, t>>, <<key, v>>)
<1>1. <<key, t>>[1] = key /\ <<key, t>>[2] = t /\ <<key, v>>[2] = v
  OBVIOUS
<1>2. QED
  BY <1>1 DEF FieldAs

\* The author's domain, field by field.
LEMMA DomainReads ==
  ASSUME NEW domain \in Domains
  PROVE  /\ IsSeq(domain) /\ IsSeq([i \in DOMAIN domain |-> <<domain[i][1], Render(domain[i][2])>>])
         /\ ReadFields([i \in DOMAIN domain |-> <<domain[i][1], Render(domain[i][2])>>], domain)
<1> DEFINE fields == [i \in DOMAIN domain |-> <<domain[i][1], Render(domain[i][2])>>]
           m == Len(domain)
<1>1. domain \in Seq(Seq(Chars) \X Values)
  BY NamesAssumption
<1>2. m \in Nat /\ DOMAIN domain = 1..m /\ \A i \in 1..m : domain[i] \in Seq(Chars) \X Values
  BY <1>1
<1>3. ASSUME NEW i \in 1..m PROVE FieldAs(fields[i], domain[i])
  <2> DEFINE key == domain[i][1]
             v == domain[i][2]
  <2>1. key \in Seq(Symbols) /\ v \in Values /\ domain[i] = <<key, v>>
    BY <1>2, NamesAreTexts
  <2>2. fields[i] = <<key, Render(v)>>
    BY <1>2
  <2> HIDE DEF key, v, fields, m
  <2>3. QED
    BY <2>1, <2>2, FieldReads, ValueReads
<1>4. DOMAIN fields = 1..m
  BY <1>2
<1>5. IsSeq(fields)
  <2> DEFINE F == {fields[i] : i \in 1..m}
  <2>0. m \in Nat
    BY <1>2
  <2>1. fields = [i \in 1..m |-> fields[i]]
    BY <1>2
  <2> HIDE DEF fields, m
  <2>2. fields \in [1..m -> F]
    BY <2>1
  <2> HIDE DEF F
  <2>3. fields \in Seq(F)
    BY <2>0, <2>2
  <2>4. QED
    BY <2>3 DEF IsSeq
<1>6. ReadFields(fields, domain)
  BY <1>3, <1>4 DEF ReadFields
<1>7. QED
  BY <1>1, <1>5, <1>6 DEF IsSeq

\* The fields that emit_case writes itself.
LEMMA SchemaReads ==
  ASSUME NEW c \in Case
  PROVE  /\ ReadFields(Fields(c), Schema(c, KeptArray(c.samples)))
         /\ IsSeq(Fields(c)) /\ IsSeq(Schema(c, KeptArray(c.samples)))
<1> DEFINE f1 == <<Key("name"), json_string(c.name)>>
           f2 == <<Key("unit"), json_string(Key("s"))>>
           f3 == <<Key("samples"), json_array(c.samples)>>
           p1 == <<Key("name"), Str(c.name)>>
           p2 == <<Key("unit"), Str(Key("s"))>>
           p3 == <<Key("samples"), KeptArray(c.samples)>>
           f4 == <<Key("result"), Render(c.result)>>
           p4 == <<Key("result"), c.result>>
           fs == IF c.result = Absent THEN <<>> ELSE <<f4>>
           ps == ResultOf(c)
<1>1. c.name \in Seq(Symbols) /\ c.samples \in Seq(Measures) /\ c.result \in Values \cup {Absent}
  BY NamesAssumption, NamesAreTexts DEF Case
<1>2. FieldAs(f1, p1) /\ FieldAs(f2, p2) /\ FieldAs(f3, p3)
  <2>1. ReadsAs(json_string(c.name), Str(c.name)) /\ ReadsAs(json_string(Key("s")), Str(Key("s")))
    BY <1>1, KeysAreTexts, StringReads
  <2>2. ReadsAs(json_array(c.samples), KeptArray(c.samples))
    BY <1>1, SamplesRead
  <2>3. QED
    BY <2>1, <2>2, KeysAreTexts, FieldReads
<1>3. ReadFields(fs, ps) /\ IsSeq(fs) /\ IsSeq(ps)
  <2>1. CASE c.result = Absent
    <3> DEFINE none == <<>>
    <3>1. fs = none /\ ps = none
      BY <2>1 DEF ResultOf
    <3>2. none \in Seq({}) /\ DOMAIN none = 1..Len(none) /\ 1..Len(none) = {}
      OBVIOUS
    <3> HIDE DEF none, fs, ps
    <3>3. ReadFields(none, none) /\ IsSeq(none)
      BY <3>2 DEF ReadFields, IsSeq
    <3>4. QED
      BY <3>1, <3>3
  <2>2. CASE c.result # Absent
    <3>1. FieldAs(f4, p4)
      BY <1>1, <2>2, KeysAreTexts, ValueReads, FieldReads
    <3>2. fs = <<f4>> /\ ps = <<p4>>
      BY <2>2 DEF ResultOf
    <3> HIDE DEF fs, ps, f4, p4
    <3>3. QED
      BY <3>1, <3>2, FieldsInOne
  <2>3. QED
    BY <2>1, <2>2
<1>4. Fields(c) = <<f1, f2, f3>> \o fs
  BY DEF Fields
<1>5. Schema(c, KeptArray(c.samples)) = <<p1, p2, p3>> \o ps
  BY DEF Schema
<1> DEFINE f == <<f1, f2, f3>>
           p == <<p1, p2, p3>>
<1>6. ReadFields(f, p) /\ IsSeq(f) /\ IsSeq(p)
  <2> HIDE DEF f1, f2, f3, p1, p2, p3
  <2>1. QED
    BY <1>2, FieldsInOne
<1> HIDE DEF f, p, fs, ps
<1>7. ReadFields(f \o fs, p \o ps) /\ IsSeq(f \o fs) /\ IsSeq(p \o ps)
  BY <1>3, <1>6, FieldsOfBoth, SeqsInOne
<1>8. QED
  BY <1>4, <1>5, <1>7 DEF f, p

\* emit_case: the fields it writes itself, then the domain.
LEMMA CaseReads ==
  ASSUME NEW c \in Case
  PROVE  IsSeq(ReadPairs(c)) /\ ReadsAs(emit_case(c), Object(ReadPairs(c)))
<1> DEFINE d == [i \in DOMAIN c.domain |-> <<c.domain[i][1], Render(c.domain[i][2])>>]
<1>1. c.domain \in Domains
  BY DEF Case
<1>2. IsSeq(c.domain) /\ IsSeq(d) /\ ReadFields(d, c.domain)
  BY <1>1, DomainReads
<1>3. emit_case(c) = json_object(Fields(c) \o d)
  BY DEF emit_case
<1> HIDE DEF d
<1>4. ReadFields(Fields(c) \o d, ReadPairs(c)) /\ IsSeq(ReadPairs(c))
  BY <1>2, SchemaReads, FieldsOfBoth, SeqsInOne DEF ReadPairs
<1>5. PICK V : ReadPairs(c) \in Seq(V)
  BY <1>4 DEF IsSeq
<1>6. QED
  BY <1>3, <1>4, <1>5, ObjectReads DEF Object

-----------------------------------------------------------------------------
(* A run: its meta, its cases, and what Load makes of its text.            *)

\* All that is read of a run.
MetaPairs == <<<<Key("bench"), Str(Key("selftest"))>>>>
RunPairs(cs) ==
  <<<<Key("meta"), Object(MetaPairs)>>,
    <<Key("cases"), [kind |-> "array", of |-> [i \in DOMAIN cs |-> Object(ReadPairs(cs[i]))]]>>>>
Printed(cs) == emit_run(Meta, [i \in DOMAIN cs |-> emit_case(cs[i])])

\* The header of a run.
LEMMA MetaReads == ReadsAs(Meta, Object(MetaPairs))
<1> DEFINE f == <<Key("bench"), json_string(Key("selftest"))>>
           p == <<Key("bench"), Str(Key("selftest"))>>
<1>1. FieldAs(f, p)
  BY KeysAreTexts, StringReads, FieldReads
<1>2. Meta = json_object(<<f>>) /\ MetaPairs = <<p>>
  BY DEF Meta, MetaPairs
<1> HIDE DEF f, p
<1>3. ReadFields(<<f>>, <<p>>) /\ <<p>> \in Seq({p})
  <2>1. ReadFields(<<f>>, <<p>>)
    BY <1>1, FieldsInOne
  <2>2. <<p>> \in Seq({p})
    OBVIOUS
  <2>3. QED
    BY <2>1, <2>2
<1> DEFINE fs == <<f>>
           ps == <<p>>
<1> HIDE DEF fs, ps
<1>4. ReadsAs(json_object(fs), Object(ps))
  BY <1>3, ObjectReads DEF Object, fs, ps
<1>5. QED
  BY <1>2, <1>4 DEF fs, ps

\* emit_run: the header and every case.
LEMMA RunReads ==
  ASSUME NEW cs \in Seq(Case)
  PROVE  ReadsAs(Printed(cs), Object(RunPairs(cs)))
<1> DEFINE items == [i \in DOMAIN cs |-> emit_case(cs[i])]
           vals == [i \in DOMAIN cs |-> Object(ReadPairs(cs[i]))]
           m == Len(cs)
           array == <<Ch("[")>> \o json_join(items) \o <<Ch("]")>>
           list == [kind |-> "array", of |-> vals]
           f1 == <<Key("meta"), Meta>>
           f2 == <<Key("cases"), array>>
           p1 == <<Key("meta"), Object(MetaPairs)>>
           p2 == <<Key("cases"), list>>
<1>0. m \in Nat
  OBVIOUS
<1>1. DOMAIN cs = 1..m /\ \A i \in 1..m : cs[i] \in Case
  OBVIOUS
<1>2. \A i \in 1..m : ReadsAs(items[i], vals[i])
  BY <1>1, CaseReads
<1>3. DOMAIN items = 1..m /\ vals = [i \in 1..m |-> vals[i]]
  BY <1>1
<1> HIDE DEF items, vals, m
<1> DEFINE V == {vals[i] : i \in 1..m}
<1>4. vals \in Seq(V) /\ Len(vals) = m
  <2>1. vals \in [1..m -> V]
    BY <1>3
  <2> HIDE DEF V
  <2>2. QED
    BY <1>0, <2>1
<1> HIDE DEF V
<1>5. ReadsAs(array, list)
  BY <1>2, <1>3, <1>4, ArrayReads
<1>6. Printed(cs) = json_object(<<f1, f2>>)
  BY DEF Printed, emit_run, items
<1>7. RunPairs(cs) = <<p1, p2>>
  BY DEF RunPairs, vals
<1> HIDE DEF array, list
<1>8. FieldAs(f1, p1) /\ FieldAs(f2, p2)
  BY <1>5, KeysAreTexts, MetaReads, FieldReads
<1> HIDE DEF f1, f2, p1, p2
<1>9. ReadFields(<<f1, f2>>, <<p1, p2>>) /\ <<p1, p2>> \in Seq({p1, p2})
  <2>1. ReadFields(<<f1, f2>>, <<p1, p2>>)
    BY <1>8, FieldsInOne
  <2>2. <<p1, p2>> \in Seq({p1, p2})
    OBVIOUS
  <2>3. QED
    BY <2>1, <2>2
<1> DEFINE fs == <<f1, f2>>
           ps == <<p1, p2>>
<1> HIDE DEF fs, ps
<1>10. ReadsAs(json_object(fs), Object(ps))
  BY <1>9, ObjectReads DEF Object, fs, ps
<1>11. QED
  BY <1>6, <1>7, <1>10 DEF fs, ps

\* A text that is read as an object is what json_load gives.
LEMMA TextLoads ==
  ASSUME NEW t, NEW v, ReadsAs(t, v)
  PROVE  json_load(t) = v
<1> DEFINE r == ReadPiece(Reading, t)
           none == <<>>
<1>1. t \in Seq(Symbols)
  BY DEF ReadsAs, Texts
<1>2. ReadAll(t) = r
  BY <1>1, ReadAllReads
<1>3. Reading = State("plain", none, none, "value", Absent)
  BY DEF Reading, State
<1>4. Between(Reading, none, "value") /\ Value("value")
  BY <1>3 DEF Between, Value
<1>5. IsSeq(none)
  <2>1. none \in Seq({})
    OBVIOUS
  <2> HIDE DEF none
  <2>2. QED
    BY <2>1 DEF IsSeq
<1> HIDE DEF r
<1>6. Leaves(r, none, "value", v)
  <2> HIDE DEF none
  <2>1. QED
    BY <1>4, <1>5 DEF ReadsAs, r
<1>7. r.mode = "plain" /\ r.want = "end" /\ r.read = v
  BY <1>6, DeliverAlone
<1>8. QED
  BY <1>2, <1>7 DEF json_load

\* The keys of a case differ from its samples, those of a run from each other.
LEMMA KeysDiffer ==
  /\ Key("name") # Key("samples") /\ Key("unit") # Key("samples") /\ Key("result") # Key("samples")
  /\ Key("meta") # Key("cases")
<1>1. \A a, b : Key(a) = Key(b) => Ch(a) = Ch(b)
  <2>1. \A a : Key(a)[1] = Ch(a)
    BY DEF Key
  <2>2. QED
    BY <2>1
<1>2. Ch("name") # Ch("samples") /\ Ch("unit") # Ch("samples") /\ Ch("result") # Ch("samples") /\ Ch("meta") # Ch("cases")
  BY DEF Ch
<1>3. QED
  BY <1>1, <1>2

\* What Load finds in a printed run: the dict of what is read of each case.
LEMMA RunLoads ==
  ASSUME NEW cs \in Seq(Case)
  PROVE  /\ json_load(Printed(cs)) # Absent
         /\ Objects(json_load(Printed(cs))) = [i \in DOMAIN cs |-> Dict(ReadPairs(cs[i]))]
<1> DEFINE list == [kind |-> "array", of |-> [i \in DOMAIN cs |-> Object(ReadPairs(cs[i]))]]
           p1 == <<Key("meta"), Object(MetaPairs)>>
           p2 == <<Key("cases"), list>>
           ps == RunPairs(cs)
           read == [i \in DOMAIN cs |-> Object(ReadPairs(cs[i]))]
<1>1. json_load(Printed(cs)) = Object(ps)
  BY RunReads, TextLoads
<1>2. Object(ps) # Absent /\ Object(ps).of = ps
  BY DEF Object, Absent
<1>3. ps = <<p1, p2>>
  BY DEF RunPairs
<1>4. Dict(ps)[Key("cases")] = list
  <2>1. p2[1] = Key("cases") /\ p2[2] = list /\ p1[1] = Key("meta")
    OBVIOUS
  <2> HIDE DEF p1, p2, ps, list
  <2>2. ps \in Seq({p1, p2}) /\ Len(ps) = 2 /\ ps[1] = p1 /\ ps[2] = p2
    BY <1>3
  <2>3. IsSeq(ps)
    BY <2>2 DEF IsSeq
  <2>4. LastOf(ps, Key("cases"), 2)
    BY <2>1, <2>2 DEF LastOf
  <2>5. QED
    BY <2>1, <2>2, <2>3, <2>4, DictIsLast
<1>5. list.of = read
  OBVIOUS
<1>6. \A i \in DOMAIN cs : read[i].of = ReadPairs(cs[i])
  BY DEF Object
<1>7. DOMAIN read = DOMAIN cs
  OBVIOUS
<1> HIDE DEF ps, list, read
<1>8. Objects(json_load(Printed(cs))) = [i \in DOMAIN read |-> Dict(read[i].of)]
  BY <1>1, <1>2, <1>4, <1>5 DEF Objects
<1>9. QED
  BY <1>1, <1>2, <1>6, <1>7, <1>8

-----------------------------------------------------------------------------
(* What is loaded of a case is what Python writes of it.                   *)

ArrayOf(samples) == [kind |-> "array", of |-> [i \in DOMAIN samples |-> Int_(samples[i])]]

\* The fields of a case but the domain, one by one.
LEMMA SchemaFields ==
  ASSUME NEW c, NEW arr
  PROVE  /\ IsSeq(Schema(c, arr)) /\ Len(Schema(c, arr)) \in {3, 4}
         /\ Len(Schema(c, arr)) = IF c.result = Absent THEN 3 ELSE 4
         /\ Schema(c, arr)[1] = <<Key("name"), Str(c.name)>>
         /\ Schema(c, arr)[2] = <<Key("unit"), Str(Key("s"))>>
         /\ Schema(c, arr)[3] = <<Key("samples"), arr>>
         /\ c.result # Absent => Schema(c, arr)[4] = <<Key("result"), c.result>>
<1> DEFINE p1 == <<Key("name"), Str(c.name)>>
           p2 == <<Key("unit"), Str(Key("s"))>>
           p3 == <<Key("samples"), arr>>
           p4 == <<Key("result"), c.result>>
           p == <<p1, p2, p3>>
           q == ResultOf(c)
<1>1. Schema(c, arr) = p \o q
  BY DEF Schema
<1>2. q = IF c.result = Absent THEN <<>> ELSE <<p4>>
  BY DEF ResultOf
<1> HIDE DEF p1, p2, p3, p4, q
<1>3. p \in Seq({p1, p2, p3}) /\ Len(p) = 3 /\ p[1] = p1 /\ p[2] = p2 /\ p[3] = p3
  OBVIOUS
<1>4. q \in Seq({p4}) /\ (c.result = Absent => Len(q) = 0) /\ (c.result # Absent => Len(q) = 1 /\ q[1] = p4)
  BY <1>2
<1> HIDE DEF p
<1>5. IsSeq(p) /\ IsSeq(q)
  BY <1>3, <1>4 DEF IsSeq
<1> DEFINE s == p \o q
<1>6. /\ IsSeq(s) /\ Len(s) = 3 + Len(q)
      /\ \A i \in 1..3 : s[i] = p[i]
      /\ \A i \in 1..Len(q) : s[3 + i] = q[i]
  <2>1. Len(p) = 3
    BY <1>3
  <2>2. /\ IsSeq(s) /\ Len(s) = Len(p) + Len(q)
        /\ \A i \in 1..Len(p) : s[i] = p[i]
        /\ \A i \in 1..Len(q) : s[Len(p) + i] = q[i]
    BY <1>5, SeqsInOne
  <2> HIDE DEF s
  <2>3. QED
    BY <2>1, <2>2
<1> HIDE DEF s
<1>7. s[1] = p1 /\ s[2] = p2 /\ s[3] = p3
  BY <1>3, <1>6
<1>8. c.result # Absent => s[4] = p4
  BY <1>4, <1>6
<1>9. Len(s) = IF c.result = Absent THEN 3 ELSE 4
  BY <1>4, <1>6
<1>10. QED
  BY <1>1, <1>6, <1>7, <1>8, <1>9 DEF s, p1, p2, p3, p4

\* The samples are where they are, and all else is what it is, whatever array they are in.
LEMMA SchemaDiffersInSamples ==
  ASSUME NEW c, NEW arr, NEW arr2
  PROVE  /\ DOMAIN Dict(Schema(c, arr)) = DOMAIN Dict(Schema(c, arr2))
         /\ \A k \in DOMAIN Dict(Schema(c, arr)) :
              k # Key("samples") => Dict(Schema(c, arr))[k] = Dict(Schema(c, arr2))[k]
         /\ Key("samples") \in DOMAIN Dict(Schema(c, arr)) /\ Dict(Schema(c, arr))[Key("samples")] = arr
<1> DEFINE p == Schema(c, arr)
           q == Schema(c, arr2)
<1>1. /\ IsSeq(p) /\ IsSeq(q) /\ Len(p) = Len(q) /\ Len(p) \in {3, 4}
      /\ \A i \in 1..Len(p) : i # 3 => p[i] = q[i]
      /\ p[3] = <<Key("samples"), arr>> /\ q[3] = <<Key("samples"), arr2>>
      /\ \A i \in 1..Len(p) : i # 3 => p[i][1] # Key("samples")
  <2> DEFINE p1 == <<Key("name"), Str(c.name)>>
             p2 == <<Key("unit"), Str(Key("s"))>>
             p4 == <<Key("result"), c.result>>
  <2>1. /\ IsSeq(p) /\ Len(p) = IF c.result = Absent THEN 3 ELSE 4
        /\ p[1] = p1 /\ p[2] = p2 /\ p[3] = <<Key("samples"), arr>> /\ (c.result # Absent => p[4] = p4)
    BY SchemaFields
  <2>2. /\ IsSeq(q) /\ Len(q) = IF c.result = Absent THEN 3 ELSE 4
        /\ q[1] = p1 /\ q[2] = p2 /\ q[3] = <<Key("samples"), arr2>> /\ (c.result # Absent => q[4] = p4)
    BY SchemaFields
  <2>3. p1[1] # Key("samples") /\ p2[1] # Key("samples") /\ p4[1] # Key("samples")
    BY KeysDiffer
  <2> HIDE DEF p, q, p1, p2, p4
  <2>4. \A i \in 1..Len(p) : i # 3 => i = 1 \/ i = 2 \/ (i = 4 /\ c.result # Absent)
    BY <2>1
  <2>5. \A i \in 1..Len(p) : i # 3 => p[i] = q[i] /\ p[i][1] # Key("samples")
    BY <2>1, <2>2, <2>3, <2>4
  <2>6. QED
    BY <2>1, <2>2, <2>5
<1>2. p[3][1] = Key("samples") /\ q[3][1] = Key("samples") /\ p[3][2] = arr
  BY <1>1
<1> HIDE DEF p, q
<1>3. \A i \in 1..Len(p) : p[i][1] = q[i][1]
  BY <1>1, <1>2
<1>4. ASSUME NEW k, NEW i PROVE LastOf(p, k, i) <=> LastOf(q, k, i)
  BY <1>1, <1>3 DEF LastOf
<1>5. \A k : k \in DOMAIN Dict(p) <=> k \in DOMAIN Dict(q)
  BY <1>1, <1>4, DictDomain
<1>6. ASSUME NEW k \in DOMAIN Dict(p), k # Key("samples") PROVE Dict(p)[k] = Dict(q)[k]
  <2>1. PICK i : LastOf(p, k, i)
    BY <1>1, DictDomain
  <2>2. i \in 1..Len(p) /\ i # 3
    BY <1>2, <1>6, <2>1 DEF LastOf
  <2>3. Dict(p)[k] = p[i][2] /\ Dict(q)[k] = q[i][2]
    BY <1>1, <1>4, <2>1, DictIsLast
  <2>4. QED
    BY <1>1, <2>2, <2>3
<1>7. LastOf(p, Key("samples"), 3)
  BY <1>1, <1>2 DEF LastOf
<1>8. Key("samples") \in DOMAIN Dict(p) /\ Dict(p)[Key("samples")] = arr
  BY <1>1, <1>2, <1>7, DictIsLast
<1>9. DOMAIN Dict(p) = DOMAIN Dict(q)
  BY <1>5
<1>10. QED
  BY <1>6, <1>8, <1>9 DEF p, q

\* What is kept of the samples has their digits.
LEMMA SamplesKeepDigits ==
  ASSUME NEW samples \in Seq(Measures)
  PROVE  KeepsDigits(KeptArray(samples).of, samples)
<1> DEFINE kept == [j \in DOMAIN samples |-> Int_(Kept(samples[j]))]
<1>1. Len(samples) \in Nat /\ DOMAIN samples = 1..Len(samples) /\ \A j \in 1..Len(samples) : samples[j] \in Measures
  OBVIOUS
<1>2. KeptArray(samples).of = kept
  BY DEF KeptArray
<1>3. Len(kept) = Len(samples) /\ DOMAIN kept = 1..Len(samples)
  BY <1>1
<1>4. ASSUME NEW j \in 1..Len(samples) PROVE kept[j].of = Kept(samples[j])
  BY <1>1 DEF Int_
<1> HIDE DEF kept
<1>5. ASSUME NEW j \in DOMAIN kept
      PROVE  LET was == samples[j]
                 is == kept[j].of
             IN IF was < 0 THEN is = was ELSE 2 * (is - was) \in -Unit(was)..Unit(was)
  <2> DEFINE was == samples[j]
             is == kept[j].of
  <2>1. was \in Measures /\ is = Kept(was)
    BY <1>1, <1>3, <1>4
  <2> HIDE DEF was, is
  <2>2. IF was < 0 THEN Kept(was) = was ELSE 2 * (Kept(was) - was) \in -Unit(was)..Unit(was)
    BY <2>1, MeasureReads
  <2>3. IF was < 0 THEN is = was ELSE 2 * (is - was) \in -Unit(was)..Unit(was)
    BY <2>1, <2>2
  <2>4. QED
    BY <2>3 DEF was, is
<1>6. QED
  BY <1>2, <1>3, <1>5 DEF KeepsDigits

\* The dict that is read of a case and the one that Python writes differ in the samples at most.
DictsAgree(got, c) ==
  LET written == _case_to_json(c) IN
  /\ DOMAIN got = DOMAIN written
  /\ {Key("name"), Key("unit"), Key("samples")} \subseteq DOMAIN written
  /\ \A k \in DOMAIN written : k # Key("samples") \/ k \in DOMAIN Dict(c.domain) => got[k] = written[k]
  /\ Key("samples") \notin DOMAIN Dict(c.domain) =>
       /\ got[Key("samples")].kind = "array" /\ written[Key("samples")].kind = "array"
       /\ KeepsDigits(got[Key("samples")].of, c.samples)

\* The schema's keys are there whatever else is.
LEMMA SchemaKeysAreThere ==
  ASSUME NEW c, NEW arr
  PROVE  {Key("name"), Key("unit"), Key("samples")} \subseteq DOMAIN Dict(Schema(c, arr))
<1> DEFINE s == Schema(c, arr)
<1>1. /\ IsSeq(s) /\ Len(s) \in {3, 4}
      /\ s[1][1] = Key("name") /\ s[2][1] = Key("unit") /\ s[3][1] = Key("samples")
  BY SchemaFields
<1> HIDE DEF s
<1>2. 1 \in DOMAIN s /\ 2 \in DOMAIN s /\ 3 \in DOMAIN s
  BY <1>1 DEF IsSeq
<1>3. {Key("name"), Key("unit"), Key("samples")} \subseteq {s[i][1] : i \in DOMAIN s}
  BY <1>1, <1>2
<1>4. QED
  BY <1>3 DEF Dict, s

\* What is read of a case is what Python writes of it.
LEMMA CaseDictsAgree ==
  ASSUME NEW c \in Case
  PROVE  DictsAgree(Dict(ReadPairs(c)), c)
<1> DEFINE got == Dict(ReadPairs(c))
           written == _case_to_json(c)
           d == Dict(c.domain)
           kept == KeptArray(c.samples)
           arr == ArrayOf(c.samples)
           p == Dict(Schema(c, kept))
           q == Dict(Schema(c, arr))
<1>1. IsSeq(c.domain) /\ c.samples \in Seq(Measures)
  BY DomainReads DEF Case
<1>2. got = Over(d, p)
  BY <1>1, SchemaFields, DictOfBoth DEF ReadPairs
<1>3. written = Over(d, q)
  BY DEF _case_to_json, Schema, ResultOf, ArrayOf
<1>4. /\ DOMAIN p = DOMAIN q /\ \A k \in DOMAIN p : k # Key("samples") => p[k] = q[k]
      /\ Key("samples") \in DOMAIN p /\ p[Key("samples")] = kept
      /\ Key("samples") \in DOMAIN q /\ q[Key("samples")] = arr
  BY SchemaDiffersInSamples
<1>5. KeepsDigits(kept.of, c.samples) /\ kept.kind = "array" /\ arr.kind = "array"
  BY <1>1, SamplesKeepDigits DEF KeptArray, ArrayOf
<1>6. /\ DOMAIN got = DOMAIN d \cup DOMAIN p
      /\ \A k \in DOMAIN got : got[k] = IF k \in DOMAIN d THEN d[k] ELSE p[k]
  BY <1>2 DEF Over
<1>7. /\ DOMAIN written = DOMAIN d \cup DOMAIN q
      /\ \A k \in DOMAIN written : written[k] = IF k \in DOMAIN d THEN d[k] ELSE q[k]
  BY <1>3 DEF Over
<1>8. {Key("name"), Key("unit"), Key("samples")} \subseteq DOMAIN q
  BY SchemaKeysAreThere
<1> HIDE DEF got, written, d, kept, arr, p, q
<1>9. DOMAIN got = DOMAIN written /\ {Key("name"), Key("unit"), Key("samples")} \subseteq DOMAIN written
  BY <1>4, <1>6, <1>7, <1>8
<1>10. ASSUME NEW k \in DOMAIN written, k # Key("samples") \/ k \in DOMAIN d
       PROVE  got[k] = written[k]
  <2>1. CASE k \in DOMAIN d
    BY <1>6, <1>7, <1>9, <2>1
  <2>2. CASE k \notin DOMAIN d
    <3>1. k \in DOMAIN p /\ got[k] = p[k] /\ written[k] = q[k]
      BY <1>4, <1>6, <1>7, <1>9, <2>2
    <3>2. QED
      BY <1>4, <1>10, <2>2, <3>1
  <2>3. QED
    BY <2>1, <2>2
<1>11. ASSUME Key("samples") \notin DOMAIN d
       PROVE  got[Key("samples")] = kept /\ written[Key("samples")] = arr
  BY <1>4, <1>6, <1>7, <1>9, <1>11
<1>12. QED
  BY <1>5, <1>9, <1>10, <1>11 DEF DictsAgree, got, written, d

\* Its samples are a list exactly if the case means one.
LEMMA ListsAgree ==
  ASSUME NEW got, NEW c, DictsAgree(got, c)
  PROVE  Listable(got[Key("samples")]) <=> MeansACase(c)
<1>1. CASE Key("samples") \in DOMAIN Dict(c.domain)
  BY <1>1 DEF DictsAgree, MeansACase
<1>2. CASE Key("samples") \notin DOMAIN Dict(c.domain)
  BY <1>2 DEF DictsAgree, MeansACase, Listable
<1>3. QED
  BY <1>1, <1>2

\* The case that it loads as is the one meant.
LEMMA CaseReadsBack ==
  ASSUME NEW got, NEW c, DictsAgree(got, c)
  PROVE  ReadsBack(_case_from_json(got), c)
<1> DEFINE written == _case_to_json(c)
           is == _case_from_json(got)
           meant == _case_from_json(written)
           S == Key("samples")
<1>1. /\ DOMAIN got = DOMAIN written
      /\ {Key("name"), Key("unit"), S} \subseteq DOMAIN written
      /\ \A k \in DOMAIN written : k # S \/ k \in DOMAIN Dict(c.domain) => got[k] = written[k]
      /\ S \notin DOMAIN Dict(c.domain) => got[S].kind = "array" /\ KeepsDigits(got[S].of, c.samples)
  BY DEF DictsAgree
<1>2. S \in _CASE_KEYS /\ Key("name") # S /\ Key("unit") # S /\ Key("result") # S
  BY KeysDiffer DEF _CASE_KEYS
<1> HIDE DEF S, written
<1>3. is.name = meant.name /\ is.unit = meant.unit
  BY <1>1, <1>2 DEF _case_from_json
<1>4. is.result = meant.result
  BY <1>1, <1>2 DEF _case_from_json
<1>5. is.extra = meant.extra
  <2>1. \A k \in DOMAIN got \ _CASE_KEYS : got[k] = written[k]
    BY <1>1, <1>2
  <2>2. [k \in DOMAIN got \ _CASE_KEYS |-> got[k]] = [k \in DOMAIN written \ _CASE_KEYS |-> written[k]]
    BY <1>1, <2>1
  <2>3. QED
    BY <2>2 DEF _case_from_json
<1>6. [is EXCEPT !.samples = meant.samples] = meant
  BY <1>3, <1>4, <1>5 DEF _case_from_json
<1>7. IF S \in DOMAIN Dict(c.domain) THEN is.samples = meant.samples ELSE KeepsDigits(is.samples, c.samples)
  <2>1. is.samples = AsList(got[S]) /\ meant.samples = AsList(written[S])
    BY DEF _case_from_json, S
  <2> HIDE DEF is, meant
  <2>2. CASE S \in DOMAIN Dict(c.domain)
    BY <1>1, <2>1, <2>2
  <2>3. CASE S \notin DOMAIN Dict(c.domain)
    <3>1. AsList(got[S]) = got[S].of
      BY <1>1, <2>3 DEF AsList
    <3>2. QED
      BY <1>1, <2>1, <2>3, <3>1
  <2>4. QED
    BY <2>2, <2>3
<1> HIDE DEF is
<1>8. QED
  BY <1>6, <1>7 DEF ReadsBack, Meant, written, S, is

-----------------------------------------------------------------------------
(* The invariant of a run: what is printed is the text of the cases, what  *)
(* is loaded is what that text reads as.                                   *)

\* The dicts that the reporter has of the cases.
Got(cs) == [i \in DOMAIN cs |-> Dict(ReadPairs(cs[i]))]
AllListable(ds) == \A i \in DOMAIN ds : Listable(ds[i][Key("samples")])

\* The cases are cases, the samples measures; what is printed is the run, and what is loaded is read of it.
RunInv ==
  /\ raw \in Seq(Measures)
  /\ cases \in Seq(Case)
  /\ pc = "printed" => text = Printed(cases)
  /\ pc = "loaded" => /\ AllListable(Got(cases))
                      /\ loaded = [i \in DOMAIN cases |-> _case_from_json(Got(cases)[i])]
  /\ pc = "refused" => ~AllListable(Got(cases))

\* No case is there to begin with.
LEMMA RunInvInit == Init => RunInv
<1>1. <<>> \in Seq(Measures) /\ <<>> \in Seq(Case)
  OBVIOUS
<1>2. QED
  BY <1>1 DEF Init, RunInv

\* A case is measures and what its author gave it, and is not changed; printing and loading are as above.
LEMMA RunInvStep == RunInv /\ [Next]_vars => RunInv'
<1> SUFFICES ASSUME RunInv, [Next]_vars PROVE RunInv'
  OBVIOUS
<1>1. CASE Collect
  <2>1. raw' = <<>> /\ cases' = cases /\ pc' \in {"sized", "warm"}
    BY <1>1 DEF Collect
  <2>2. <<>> \in Seq(Measures)
    OBVIOUS
  <2>3. QED
    BY <2>1, <2>2 DEF RunInv
<1>2. CASE Calibrate
  <2>1. raw' = raw /\ cases' = cases /\ pc' = "sized"
    BY <1>2 DEF Calibrate
  <2>2. QED
    BY <2>1 DEF RunInv
<1>3. CASE Sample
  <2>1. cases' = cases /\ pc' = pc /\ pc = "sized"
    BY <1>3 DEF Sample
  <2>2. PICK m \in Measures : raw' = Append(raw, m)
    BY <1>3 DEF Sample
  <2>3. raw' \in Seq(Measures)
    BY <2>2 DEF RunInv
  <2>4. QED
    BY <2>1, <2>3 DEF RunInv
<1>4. CASE Emit
  <2>1. PICK name \in Names, domain \in Domains, result \in Outcomes :
          cases' = Append(cases, [name |-> name, samples |-> raw, domain |-> domain, result |-> result])
    BY <1>4 DEF Emit
  <2>2. raw' = <<>> /\ pc' = "idle"
    BY <1>4 DEF Emit
  <2> DEFINE c == [name |-> name, samples |-> raw, domain |-> domain, result |-> result]
  <2>3. c \in Case
    BY DEF RunInv, Case
  <2> HIDE DEF c
  <2>4. cases' \in Seq(Case)
    <3>1. cases' = Append(cases, c)
      BY <2>1 DEF c
    <3>2. QED
      BY <2>3, <3>1 DEF RunInv
  <2>5. <<>> \in Seq(Measures)
    OBVIOUS
  <2>6. QED
    BY <2>2, <2>4, <2>5 DEF RunInv
<1>5. CASE Throw
  <2>1. raw' = raw /\ cases' = cases /\ pc' = "gone"
    BY <1>5 DEF Throw
  <2>2. QED
    BY <2>1 DEF RunInv
<1>6. CASE PrintRun
  <2>1. raw' = raw /\ cases' = cases /\ pc' = "printed" /\ text' = Printed(cases)
    BY <1>6 DEF PrintRun, Printed
  <2>2. QED
    BY <2>1 DEF RunInv
<1>7. CASE Load
  <2> DEFINE run == json_load(text)
             objects == Objects(run)
  <2>1. raw' = raw /\ cases' = cases /\ pc = "printed"
    BY <1>7 DEF Load
  <2>2. \/ AllListable(objects) /\ pc' = "loaded" /\ loaded' = [i \in DOMAIN objects |-> _case_from_json(objects[i])]
        \/ ~(run # Absent /\ AllListable(objects)) /\ pc' = "refused"
    BY <1>7 DEF Load, AllListable
  <2>3. text = Printed(cases) /\ cases \in Seq(Case)
    BY <2>1 DEF RunInv
  <2>4. run # Absent /\ objects = Got(cases)
    BY <2>3, RunLoads DEF Got
  <2> HIDE DEF run, objects
  <2>5. DOMAIN objects = DOMAIN cases
    BY <2>4 DEF Got
  <2>6. QED
    BY <2>1, <2>2, <2>3, <2>4, <2>5 DEF RunInv
<1>8. CASE UNCHANGED vars
  BY <1>8 DEF vars, RunInv
<1>9. QED
  BY <1>1, <1>2, <1>3, <1>4, <1>5, <1>6, <1>7, <1>8 DEF Next

\* So what is loaded of a run is what Python writes of it.
LEMMA RunInvReadsBack == RunInv => RunReadsBack
<1> SUFFICES ASSUME RunInv, pc \in {"loaded", "refused"}
             PROVE  /\ pc = "loaded" <=> \A i \in DOMAIN cases : MeansACase(cases[i])
                    /\ pc = "loaded" => /\ Len(loaded) = Len(cases)
                                        /\ \A i \in DOMAIN cases : ReadsBack(loaded[i], cases[i])
  BY DEF RunReadsBack
<1>1. Len(cases) \in Nat /\ DOMAIN cases = 1..Len(cases) /\ \A i \in DOMAIN cases : cases[i] \in Case
  BY DEF RunInv
<1>2. DOMAIN Got(cases) = DOMAIN cases /\ \A i \in DOMAIN cases : DictsAgree(Got(cases)[i], cases[i])
  BY <1>1, CaseDictsAgree DEF Got
<1>3. AllListable(Got(cases)) <=> \A i \in DOMAIN cases : MeansACase(cases[i])
  BY <1>2, ListsAgree DEF AllListable
<1>4. pc = "loaded" <=> AllListable(Got(cases))
  BY DEF RunInv
<1>5. ASSUME pc = "loaded"
      PROVE  Len(loaded) = Len(cases) /\ \A i \in DOMAIN cases : ReadsBack(loaded[i], cases[i])
  <2>1. loaded = [i \in DOMAIN cases |-> _case_from_json(Got(cases)[i])]
    BY <1>5 DEF RunInv
  <2>2. Len(loaded) = Len(cases)
    BY <1>1, <2>1
  <2>3. ASSUME NEW i \in DOMAIN cases PROVE ReadsBack(loaded[i], cases[i])
    BY <1>2, <2>1, CaseReadsBack
  <2>4. QED
    BY <2>2, <2>3
<1>6. QED
  BY <1>3, <1>4, <1>5

(***************************************************************************)
(* Whatever its author names a case, whatever domain and result it is      *)
(* given and whatever it measures, the text that print_run writes of a run *)
(* is read by the reporter's json.load for what Python's emitter writes of *)
(* it: load_run raises exactly where it would at that, a domain field that *)
(* is called samples being a number; and else it has every case as it is   *)
(* meant, the samples to the digits that json_number keeps (bench.hpp,     *)
(* json_string to emit_run; schema.py, _case_to_json, _case_from_json).    *)
(***************************************************************************)
THEOREM RunsReadBack == Spec => []RunReadsBack
<1>1. Spec => []RunInv
  BY RunInvInit, RunInvStep, PTL DEF Spec
<1>2. QED
  BY <1>1, RunInvReadsBack, PTL
=============================================================================
