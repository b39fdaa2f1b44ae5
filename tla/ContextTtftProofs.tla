--------------------------- MODULE ContextTtftProofs ---------------------------
(***************************************************************************)
(* What run_context_ttft.py writes, for any matrix, window, server and     *)
(* network: the safety properties of ContextTtft.                          *)
(***************************************************************************)
EXTENDS ContextTtft, FiniteSetTheorems, WellFoundedInduction, SequenceTheorems, TLAPS

Matrix == 1..Runs
Piece == [kind : {"text", "usage", "error", "nl"}, n : Nat]
PCs == {"base", "open", "read", "join", "write", "end"}

TypeOK ==
    /\ up \in BOOLEAN /\ made \in Nat /\ reply \in {"none", "open", "ended", "broken"}
    /\ wire \in Seq(Piece) /\ buffer \in Seq(Piece)
    /\ generated \in [Matrix -> Nat] /\ crashes \in 0..MaxCrashes
    /\ shown \in [Matrix -> BOOLEAN] /\ told \in [Matrix -> BOOLEAN]
    /\ pc \in PCs /\ run \in Matrix
    /\ base \in [Matrix -> Nat \cup {None}]
    /\ status \in {None, 200} \cup Refusals
    /\ first \in BOOLEAN /\ usage \in Nat \cup {None}
    /\ results \in [Matrix -> Result \cup {None}]
    /\ output \in [Matrix -> Result \cup {None}] \cup {None}
    /\ exit \in {None, 0, 1, 2}
    /\ sampler \in [Matrix -> {"off", "look", "scrape", "append", "done"}]
    /\ counted \in [Matrix -> Int \cup {None}]
    /\ samples \in [Matrix -> Seq(Int)]
    /\ stopped \in [Matrix -> BOOLEAN]

-----------------------------------------------------------------------------
(* The inductive invariant.                                                *)

\* Requests to come have left no trace.
Fresh ==
    \A k \in Matrix : k > run \/ (k = run /\ pc = "base") =>
        /\ generated[k] = 0 /\ ~shown[k] /\ ~told[k] /\ results[k] = None
        /\ sampler[k] = "off" /\ counted[k] = None /\ samples[k] = <<>>

\* A request that was not yet answered has nothing of the one before it.
Clean ==
    /\ pc \in {"base", "open"} =>
        /\ reply = "none" /\ buffer = <<>> /\ ~first /\ usage = None
        /\ status = None /\ results[run] = None
        /\ generated[run] = 0 /\ ~shown[run] /\ ~told[run]
    /\ pc \in {"read", "join"} => results[run] = None
    /\ pc = "read" => reply # "none" /\ status = 200
    /\ reply # "none" => pc \in {"read", "end"}
    /\ pc = "join" => status # None

\* What was sent and is not yet parsed: line by line, the number of tokens if there is one.
Stream == buffer \o wire
Whole == Stream # <<>> => Stream[Len(Stream)] = NL
Totals ==
    /\ \A i \in 1..Len(Stream) : Stream[i].kind = "usage" => told[run] /\ Stream[i].n = generated[run]
    /\ told[run] =>
          /\ reply # "open"
          /\ usage = generated[run] \/ \E i \in 1..Len(Stream) : Stream[i].kind = "usage"
    /\ ~told[run] => usage = None
Texts ==
    /\ \A i \in 1..Len(Stream) : Stream[i].kind = "text" => shown[run]
    /\ first => shown[run]
    /\ shown[run] => first \/ \E i \in 1..Len(Stream) : Stream[i].kind = "text"

Streaming ==
    /\ pc = "read" => Ends(buffer) = {} /\ Whole /\ Totals /\ Texts
    /\ pc = "join" /\ status = 200 => usage = Told(run) /\ first = shown[run]

\* What was counted for the request in progress was made for it.
Counting ==
    /\ \A k \in Matrix : sampler[k] # "off" => base[k] # None
    /\ pc # "base" /\ base[run] # None => made - base[run] <= generated[run]
    /\ counted[run] # None => counted[run] <= generated[run]
    /\ \A i \in 1..Len(samples[run]) : samples[run][i] <= generated[run]

\* Requests that are over, and the file.
Good(k) == /\ results[k] # None /\ results[k].status = 200
           /\ results[k].completion = Told(k) /\ results[k].first = shown[k]
Over ==
    /\ \A k \in Matrix : k < run \/ pc = "write" => Good(k)
    /\ pc = "write" => run = Runs
    /\ SteadyIsOwnTail
    /\ output # None => output = results /\ pc = "end" /\ \A k \in Matrix : Good(k)
    /\ (output # None) = (exit = 0)
    /\ pc = "end" => reply \notin {"open", "ended"}

IInv == TypeOK /\ Fresh /\ Clean /\ Streaming /\ Counting /\ Over

-----------------------------------------------------------------------------
(* Lemmas about the operators.                                             *)

USE DEF Matrix

\* A set of naturals has a least element.
LEMMA LeastNat ==
    ASSUME NEW S, S \subseteq Nat, S # {}
    PROVE  \E x \in S : \A y \in S : x <= y
<1> DEFINE R == OpToRel(<, Nat)
<1>1. IsWellFoundedOn(R, Nat)
  BY NatLessThanWellFounded
<1> HIDE DEF R
<1>2. PICK x \in S : \A y \in S : <<y, x>> \notin R
  BY <1>1, WFMin
<1>3. \A y \in S : ~(y < x)
  BY <1>2 DEF R, OpToRel
<1> QED  BY <1>3

\* Min and Max of the indices of a sequence are what their names say.
LEMMA HasMin ==
    ASSUME NEW n \in Nat, NEW S, S \subseteq 1..n, S # {}
    PROVE  Min(S) \in S /\ \A y \in S : Min(S) <= y
<1>1. S \subseteq Nat
  OBVIOUS
<1>2. \E x \in S : \A y \in S : x <= y
  BY <1>1, LeastNat
<1> QED  BY <1>2 DEF Min

LEMMA HasMax ==
    ASSUME NEW n \in Nat, NEW S, S \subseteq 1..n, S # {}
    PROVE  Max(S) \in S /\ \A y \in S : Max(S) >= y
<1> DEFINE T == {n - x : x \in S}
<1>1. PICK t \in T : \A y \in T : t <= y
  <2>1. \A x \in S : n - x \in Nat
    OBVIOUS
  <2>2. T \subseteq Nat /\ T # {}
    BY <2>1
  <2> HIDE DEF T
  <2> QED  BY <2>2, LeastNat
<1>2. PICK x \in S : t = n - x
  OBVIOUS
<1>3. ASSUME NEW y \in S  PROVE x >= y
  <2>1. n - y \in T
    OBVIOUS
  <2>2. t <= n - y
    BY <1>1, <2>1
  <2>3. x \in Int /\ y \in Int
    OBVIOUS
  <2> QED  BY <1>2, <2>2, <2>3
<1> QED  BY <1>3 DEF Max

\* The lines of a portion end before what is left of it, and there is no line end in that.
LEMMA LastEndType ==
    ASSUME NEW p \in Seq(Piece)
    PROVE  /\ LastEnd(p) \in 0..Len(p)
           /\ \A i \in 1..Len(p) : i > LastEnd(p) => p[i] # NL
<1>1. Len(p) \in Nat /\ Ends(p) \subseteq 1..Len(p)
  BY DEF Ends
<1>2. CASE Ends(p) = {}
  BY <1>1, <1>2 DEF LastEnd, Ends
<1>3. CASE Ends(p) # {}
  <2>1. LastEnd(p) \in Ends(p) /\ \A y \in Ends(p) : LastEnd(p) >= y
    BY <1>1, <1>3, HasMax DEF LastEnd
  <2>2. ASSUME NEW i \in 1..Len(p), i > LastEnd(p)  PROVE p[i] # NL
    <3>1. SUFFICES ASSUME p[i] = NL  PROVE FALSE
      OBVIOUS
    <3>2. i \in Ends(p)
      BY <3>1 DEF Ends
    <3>3. LastEnd(p) >= i /\ LastEnd(p) \in 1..Len(p)
      BY <1>1, <2>1, <3>2
    <3> QED  BY <1>1, <2>2, <3>3
  <2> QED  BY <1>1, <2>1, <2>2
<1> QED  BY <1>2, <1>3

LEMMA RestProperties ==
    ASSUME NEW p \in Seq(Piece)
    PROVE  /\ Rest(p) \in Seq(Piece)
           /\ Len(Rest(p)) = Len(p) - LastEnd(p)
           /\ \A i \in 1..Len(Rest(p)) : Rest(p)[i] = p[i + LastEnd(p)]
           /\ Ends(Rest(p)) = {}
<1> DEFINE m == LastEnd(p) + 1
<1>1. LastEnd(p) \in 0..Len(p) /\ Len(p) \in Nat /\ m \in Int
  BY LastEndType
<1>2. \A i \in m..Len(p) : p[i] \in Piece
  BY <1>1, ElementOfSeq
<1>3. /\ Rest(p) \in Seq(Piece)
      /\ Len(Rest(p)) = IF m <= Len(p) THEN Len(p) - m + 1 ELSE 0
      /\ \A i \in 1..Len(p) - m + 1 : Rest(p)[i] = p[m + i - 1]
  BY <1>1, <1>2, SubSeqProperties DEF Rest
<1>4. Len(Rest(p)) = Len(p) - LastEnd(p)
  BY <1>1, <1>3
<1>5. ASSUME NEW i \in 1..Len(Rest(p))  PROVE Rest(p)[i] = p[i + LastEnd(p)]
  <2>1. \A k \in Int, d \in Int, l \in Int : k \in 1..(l - d) =>
            k \in 1..(l - (d + 1) + 1) /\ (d + 1) + k - 1 = k + d
    OBVIOUS
  <2>2. i \in 1..(Len(p) - LastEnd(p)) /\ i \in Int /\ LastEnd(p) \in Int
    BY <1>1, <1>4
  <2> QED  BY <1>1, <1>3, <2>1, <2>2
<1>6. Ends(Rest(p)) = {}
  <2>1. SUFFICES ASSUME NEW i \in 1..Len(Rest(p)), Rest(p)[i] = NL  PROVE FALSE
    BY DEF Ends
  <2>2. i + LastEnd(p) \in 1..Len(p) /\ i + LastEnd(p) > LastEnd(p)
    BY <1>1, <1>4
  <2> QED  BY <1>5, <2>1, <2>2, LastEndType
<1> QED  BY <1>3, <1>4, <1>5, <1>6

\* A line at the end of what was sent.
AddsLine(b, w, kind, n) ==
    LET s == b \o w
        t == b \o (w \o Line(kind, n))
    IN  /\ w \o Line(kind, n) \in Seq(Piece) /\ s \in Seq(Piece)
        /\ Len(t) = Len(s) + 2
        /\ \A i \in 1..Len(s) : t[i] = s[i]
        /\ t[Len(s) + 1] = [kind |-> kind, n |-> n]
        /\ t[Len(s) + 2] = NL

LEMMA SentLine ==
    \A b, w \in Seq(Piece) : \A n \in Nat : \A kind \in {"text", "usage", "error"} :
        AddsLine(b, w, kind, n)
<1> TAKE b, w \in Seq(Piece)
<1> TAKE n \in Nat
<1> TAKE kind \in {"text", "usage", "error"}
<1> DEFINE l == Line(kind, n)
           s == b \o w
           t == b \o (w \o l)
<1>1. l \in Seq(Piece) /\ Len(l) = 2 /\ l[1] = [kind |-> kind, n |-> n] /\ l[2] = NL
  BY DEF Line, NL, Piece, NoTokens
<1> HIDE DEF l
<1>2. w \o l \in Seq(Piece) /\ s \in Seq(Piece)
  BY <1>1, ConcatProperties
<1>3. t = s \o l
  <2>1. l \in Seq(Piece) /\ b \in Seq(Piece) /\ w \in Seq(Piece)
    BY <1>1
  <2>2. (b \o w) \o l = b \o (w \o l)
    BY ONLY <2>1, ConcatAssociative
  <2> QED  BY <2>2
<1> HIDE DEF t, s
<1>4. /\ Len(t) = Len(s) + 2
      /\ \A i \in 1..Len(s) + 2 : t[i] = IF i <= Len(s) THEN s[i] ELSE l[i - Len(s)]
  <2>1. /\ Len(s \o l) = Len(s) + Len(l)
        /\ \A i \in 1..Len(s) + Len(l) : (s \o l)[i] = IF i <= Len(s) THEN s[i] ELSE l[i - Len(s)]
    BY <1>1, <1>2, ConcatProperties
  <2> QED  BY <1>1, <1>3, <2>1
<1>5. Len(s) \in Nat
  BY <1>2
<1>6. \A i \in 1..Len(s) : t[i] = s[i]
  BY <1>4, <1>5
<1>7. t[Len(s) + 1] = l[1] /\ t[Len(s) + 2] = l[2]
  BY <1>4, <1>5
<1> QED  BY <1>1, <1>2, <1>4, <1>6, <1>7 DEF AddsLine, l, s, t

\* Reading a portion drops its lines from the stream and nothing else.
DropsLines(b, w, n) ==
    LET p == b \o SubSeq(w, 1, n)
        v == SubSeq(w, n + 1, Len(w))
        s == b \o w
        t == Rest(p) \o v
        d == LastEnd(p)
    IN  /\ p \in Seq(Piece) /\ v \in Seq(Piece) /\ s \in Seq(Piece) /\ t \in Seq(Piece)
        /\ d \in 0..Len(p) /\ Len(p) <= Len(s)
        /\ \A i \in 1..Len(p) : p[i] = s[i]
        /\ Len(t) = Len(s) - d
        /\ \A i \in 1..Len(t) : t[i] = s[i + d]

LEMMA ReadPortion ==
    \A b, w \in Seq(Piece) : \A n \in 1..Len(w) : DropsLines(b, w, n)
<1> TAKE b, w \in Seq(Piece)
<1> TAKE n \in 1..Len(w)
<1> DEFINE u == SubSeq(w, 1, n)
           v == SubSeq(w, n + 1, Len(w))
           p == b \o u
           s == b \o w
           t == Rest(p) \o v
           d == LastEnd(p)
<1>1. Len(w) \in Nat /\ Len(b) \in Nat /\ n \in Nat
  OBVIOUS
<1>2. u \in Seq(Piece) /\ Len(u) = n /\ \A i \in 1..n : u[i] = w[i]
  <2>1. \A i \in 1..n : w[i] \in Piece
    BY ElementOfSeq
  <2> QED  BY <1>1, <2>1, SubSeqProperties
<1>3. /\ v \in Seq(Piece) /\ Len(v) = Len(w) - n
      /\ \A i \in 1..Len(w) - n : v[i] = w[n + i]
  <2>1. \A i \in n + 1..Len(w) : w[i] \in Piece
    BY ElementOfSeq
  <2>2. /\ v \in Seq(Piece)
        /\ Len(v) = IF n + 1 <= Len(w) THEN Len(w) - (n + 1) + 1 ELSE 0
        /\ \A i \in 1..Len(w) - (n + 1) + 1 : v[i] = w[n + 1 + i - 1]
    BY <1>1, <2>1, SubSeqProperties
  <2> HIDE DEF v
  <2> QED  BY <1>1, <2>2
<1> HIDE DEF u, v
<1>4. /\ p \in Seq(Piece) /\ Len(p) = Len(b) + n
      /\ \A i \in 1..Len(b) + n : p[i] = IF i <= Len(b) THEN b[i] ELSE u[i - Len(b)]
  BY <1>2, ConcatProperties
<1>5. /\ s \in Seq(Piece) /\ Len(s) = Len(b) + Len(w)
      /\ \A i \in 1..Len(b) + Len(w) : s[i] = IF i <= Len(b) THEN b[i] ELSE w[i - Len(b)]
  BY ConcatProperties
<1> HIDE DEF p, s
<1>6. \A i \in 1..Len(p) : p[i] = s[i]
  <2>1. SUFFICES ASSUME NEW i \in 1..Len(p)  PROVE p[i] = s[i]
    OBVIOUS
  <2>2. i \in 1..Len(b) + Len(w) /\ i \in 1..Len(b) + n
    BY <1>1, <1>4
  <2>3. CASE i <= Len(b)
    BY <1>4, <1>5, <2>2, <2>3
  <2>4. CASE ~(i <= Len(b))
    <3>1. i - Len(b) \in 1..n
      BY <1>1, <2>2, <2>4
    <3> QED  BY <1>2, <1>4, <1>5, <2>2, <2>4, <3>1
  <2> QED  BY <2>3, <2>4
<1>7. d \in 0..Len(p)
  BY <1>4, LastEndType
<1>8. /\ Rest(p) \in Seq(Piece) /\ Len(Rest(p)) = Len(p) - d
      /\ \A i \in 1..Len(Rest(p)) : Rest(p)[i] = p[i + d]
  BY <1>4, RestProperties
<1>9. /\ t \in Seq(Piece) /\ Len(t) = Len(Rest(p)) + Len(v)
      /\ \A i \in 1..Len(Rest(p)) + Len(v) :
            t[i] = IF i <= Len(Rest(p)) THEN Rest(p)[i] ELSE v[i - Len(Rest(p))]
  BY <1>3, <1>8, ConcatProperties
<1> HIDE DEF t, d
<1>10. Len(t) = Len(s) - d
  BY <1>1, <1>3, <1>4, <1>5, <1>7, <1>8, <1>9
<1>11. ASSUME NEW i \in 1..Len(t)  PROVE t[i] = s[i + d]
  <2>1. i \in 1..Len(Rest(p)) + Len(v) /\ Len(Rest(p)) \in Nat
    BY <1>8, <1>9
  <2>2. CASE i <= Len(Rest(p))
    <3>1. i \in 1..Len(Rest(p)) /\ i + d \in 1..Len(p)
      BY <1>4, <1>1, <1>7, <1>8, <2>1, <2>2
    <3> QED  BY <1>6, <1>8, <1>9, <2>1, <2>2, <3>1
  <2>3. CASE ~(i <= Len(Rest(p)))
    <3>1. t[i] = v[i - Len(Rest(p))]
      BY <1>9, <2>1, <2>3
    <3>2. i - Len(Rest(p)) \in 1..Len(w) - n
      BY <1>1, <1>3, <2>1, <2>3
    <3>3. /\ n + (i - Len(Rest(p))) = i + d - Len(b)
          /\ i + d \in 1..Len(b) + Len(w) /\ ~(i + d <= Len(b))
      <4>1. \A k, x, y, z, e, r \in Int :
              /\ r = x + z - e /\ k - r \in 1..y - z /\ r >= 0 /\ e \in 0..x + z /\ x >= 0 /\ z >= 0
              => /\ z + (k - r) = k + e - x
             /\ k + e \in 1..x + y /\ ~(k + e <= x)
        OBVIOUS
      <4>2. /\ i \in Int /\ Len(Rest(p)) = Len(b) + n - d /\ d \in Int /\ d \in 0..Len(b) + n
            /\ Len(b) \in Int /\ Len(w) \in Int /\ Len(Rest(p)) \in Int /\ n \in Int
            /\ Len(Rest(p)) >= 0 /\ Len(b) >= 0 /\ n >= 0
        BY <1>1, <1>4, <1>7, <1>8, <2>1
      <4> QED  BY <3>2, <4>1, <4>2
    <3>4. v[i - Len(Rest(p))] = w[n + (i - Len(Rest(p)))]
      BY <1>3, <3>2
    <3>5. s[i + d] = w[i + d - Len(b)]
      <4>1. PICK k \in 1..Len(b) + Len(w) : k = i + d
        BY <3>3
      <4>2. s[k] = w[k - Len(b)]
        BY <1>5, <3>3, <4>1
      <4>3. d \in Int /\ i \in Int /\ Len(b) \in Int
        BY <1>1, <1>7
      <4> QED  BY <4>1, <4>2, <4>3
    <3> QED  BY <3>1, <3>3, <3>4, <3>5
  <2> QED  BY <2>2, <2>3
<1>12. Len(p) <= Len(s)
  BY <1>1, <1>4, <1>5
<1>13. /\ p \in Seq(Piece) /\ v \in Seq(Piece) /\ s \in Seq(Piece) /\ t \in Seq(Piece)
       /\ d \in 0..Len(p) /\ Len(p) <= Len(s)
       /\ \A i \in 1..Len(p) : p[i] = s[i]
       /\ Len(t) = Len(s) - d
       /\ \A i \in 1..Len(t) : t[i] = s[i + d]
  BY <1>3, <1>4, <1>5, <1>6, <1>7, <1>9, <1>10, <1>11, <1>12
<1> QED  BY ONLY <1>13 DEF DropsLines, p, s, t, d, u, v

\* A steady window is made of counts of its own request past SteadyFrom.
LEMMA SteadyWindowBound ==
    ASSUME NEW s \in Seq(Int), NEW g \in Nat, \A i \in 1..Len(s) : s[i] <= g
    PROVE  /\ SteadyWindow(s) \in Int \cup {None}
           /\ SteadyWindow(s) # None => SteadyWindow(s) <= g - SteadyFrom
<1> DEFINE tail == {i \in 1..Len(s) : s[i] >= SteadyFrom}
<1>1. Len(s) \in Nat /\ tail \subseteq 1..Len(s)
  OBVIOUS
<1>2. CASE tail = {} \/ s[Max(tail)] <= s[Min(tail)]
  BY <1>2 DEF SteadyWindow
<1>3. CASE ~(tail = {} \/ s[Max(tail)] <= s[Min(tail)])
  <2>1. Max(tail) \in tail /\ Min(tail) \in tail
    <3> HIDE DEF tail
    <3> QED  BY <1>1, <1>3, HasMax, HasMin
  <2>2. s[Max(tail)] \in Int /\ s[Max(tail)] <= g
    BY <2>1
  <2>3. s[Min(tail)] \in Int /\ s[Min(tail)] >= SteadyFrom
    BY <2>1
  <2>4. SteadyWindow(s) = s[Max(tail)] - s[Min(tail)]
    BY <1>3 DEF SteadyWindow
  <2> HIDE DEF tail
  <2> QED  BY <2>2, <2>3, <2>4, BoundsAssumption
<1> QED  BY <1>2, <1>3

-----------------------------------------------------------------------------
(* Every action keeps the invariant.                                       *)

THEOREM Initial == Init => IInv
<1> SUFFICES ASSUME Init  PROVE IInv
  OBVIOUS
<1> USE BoundsAssumption, NoneAssumption DEF Init
<1>1. TypeOK
  <2>1. 1 \in Matrix /\ 0 \in 0..MaxCrashes
    OBVIOUS
  <2>2. <<>> \in Seq(Piece) /\ <<>> \in Seq(Int)
    OBVIOUS
  <2> QED  BY <2>1, <2>2 DEF TypeOK, PCs
<1>2. Fresh /\ Clean
  BY DEF Fresh, Clean
<1>3. Streaming /\ Counting
  BY DEF Streaming, Counting
<1>4. Over
  BY DEF Over, SteadyIsOwnTail
<1> QED  BY <1>1, <1>2, <1>3, <1>4 DEF IInv

\* What is left of the stream is only changed by the server and by a read.
streamVars == <<buffer, wire, reply, first, usage, status, pc, run, generated, shown, told>>

LEMMA KeepsStreaming ==
    ASSUME Streaming, UNCHANGED streamVars
    PROVE  Streaming'
BY DEF Streaming, Whole, Totals, Texts, Stream, Told, streamVars

\* An event of the server comes after all that was sent before.
LEMMA SendsLine ==
    ASSUME TypeOK, NEW kind \in {"text", "usage", "error"}, NEW n \in Nat,
           wire' = wire \o Line(kind, n), buffer' = buffer
    PROVE  /\ wire' \in Seq(Piece) /\ Stream \in Seq(Piece) /\ Len(Stream) \in Nat
           /\ Len(Stream') = Len(Stream) + 2
           /\ \A i \in 1..Len(Stream) : Stream'[i] = Stream[i]
           /\ Stream'[Len(Stream) + 1] = [kind |-> kind, n |-> n]
           /\ Stream'[Len(Stream) + 2] = NL
           /\ \A i \in 1..Len(Stream') :
                 i \in 1..Len(Stream) \/ i = Len(Stream) + 1 \/ i = Len(Stream) + 2
           /\ Len(Stream) + 1 \in 1..Len(Stream')
           /\ \A i \in 1..Len(Stream) : i \in 1..Len(Stream')
           /\ Whole'
<1>1. buffer \in Seq(Piece) /\ wire \in Seq(Piece)
  BY DEF TypeOK
<1>2. AddsLine(buffer, wire, kind, n)
  BY <1>1, SentLine
<1>3. /\ wire' \in Seq(Piece) /\ Stream \in Seq(Piece) /\ Len(Stream') = Len(Stream) + 2
      /\ \A i \in 1..Len(Stream) : Stream'[i] = Stream[i]
      /\ Stream'[Len(Stream) + 1] = [kind |-> kind, n |-> n]
      /\ Stream'[Len(Stream) + 2] = NL
  BY <1>2 DEF AddsLine, Stream
<1>4. Len(Stream) \in Nat
  BY <1>3
<1>5. Whole'
  BY <1>3, <1>4 DEF Whole
<1>6. /\ \A i \in 1..Len(Stream') :
            i \in 1..Len(Stream) \/ i = Len(Stream) + 1 \/ i = Len(Stream) + 2
      /\ Len(Stream) + 1 \in 1..Len(Stream')
      /\ \A i \in 1..Len(Stream) : i \in 1..Len(Stream')
  BY <1>3, <1>4
<1> QED  BY <1>3, <1>4, <1>5, <1>6

LEMMA MakeStep ==
    ASSUME IInv, NEW n \in Steps, Make(n)
    PROVE  IInv'
<1> USE BoundsAssumption
<1>1. /\ pc = "read" /\ n \in Nat /\ run \in Matrix /\ reply = "open"
      /\ generated \in [Matrix -> Nat] /\ shown \in [Matrix -> BOOLEAN] /\ ~told[run]
  <2>1. n \in Nat
    OBVIOUS
  <2>2. reply = "open" /\ Clean /\ Over /\ Streaming
    BY DEF IInv, Make
  <2>3. run \in Matrix /\ generated \in [Matrix -> Nat] /\ shown \in [Matrix -> BOOLEAN]
    BY DEF IInv, TypeOK
  <2> QED  BY <2>1, <2>2, <2>3 DEF Clean, Over, Streaming, Totals
<1>2. /\ generated' = [generated EXCEPT ![run] = @ + n] /\ made' = made + n
      /\ UNCHANGED <<up, reply, told, crashes, mainVars, samplerVars>>
  BY DEF Make
<1>3. \/ wire' = wire \o Line("text", NoTokens) /\ shown' = [shown EXCEPT ![run] = TRUE]
      \/ wire' = wire /\ shown' = shown
  BY DEF Make
<1>4. wire' \in Seq(Piece) /\ (pc = "read" => Whole' /\ Totals' /\ Texts')
  <2>1. CASE wire' = wire \o Line("text", NoTokens) /\ shown' = [shown EXCEPT ![run] = TRUE]
    <3>1. buffer' = buffer /\ NoTokens \in Nat /\ "text" \in {"text", "usage", "error"} /\ TypeOK
      BY <1>2 DEF IInv, NoTokens, mainVars
    <3>2. /\ wire' \in Seq(Piece) /\ Whole'
          /\ \A i \in 1..Len(Stream) : Stream'[i] = Stream[i]
          /\ Stream'[Len(Stream) + 1] = [kind |-> "text", n |-> NoTokens]
          /\ Stream'[Len(Stream) + 2] = NL
          /\ \A i \in 1..Len(Stream') :
                i \in 1..Len(Stream) \/ i = Len(Stream) + 1 \/ i = Len(Stream) + 2
          /\ Len(Stream) + 1 \in 1..Len(Stream')
      BY ONLY <2>1, <3>1, SendsLine
    <3>3. shown'[run] /\ UNCHANGED <<run, told, usage, first>>
      BY <1>1, <1>2, <2>1 DEF mainVars
    <3>4. ASSUME NEW i \in 1..Len(Stream')  PROVE Stream'[i].kind # "usage"
      <4>1. \A j \in 1..Len(Stream) : Stream[j].kind # "usage"
        BY <1>1 DEF IInv, Streaming, Totals
      <4>2. CASE i \in 1..Len(Stream)
        BY <3>2, <4>1, <4>2
      <4>3. CASE i = Len(Stream) + 1 \/ i = Len(Stream) + 2
        BY <3>2, <4>3 DEF NL
      <4> QED  BY <3>2, <4>2, <4>3
    <3>5. Totals'
      BY <1>1, <3>3, <3>4 DEF IInv, Streaming, Totals
    <3>6. Texts'
      BY <3>2, <3>3 DEF Texts
    <3> QED  BY <3>2, <3>5, <3>6
  <2>2. CASE wire' = wire /\ shown' = shown
    <3>1. UNCHANGED <<Stream, run, told, usage, first>>
      BY <1>2, <2>2 DEF Stream, mainVars
    <3>2. \A i \in 1..Len(Stream) : Stream[i].kind # "usage"
      BY <1>1 DEF IInv, Streaming, Totals
    <3> QED  BY <1>1, <2>2, <3>1, <3>2 DEF IInv, TypeOK, Streaming, Whole, Totals, Texts
  <2> QED  BY <1>3, <2>1, <2>2
<1>5. TypeOK'
  <2>1. made' \in Nat
    BY <1>1, <1>2 DEF IInv, TypeOK
  <2>2. generated' \in [Matrix -> Nat]
    BY ONLY <1>1, <1>2
  <2>3. shown' \in [Matrix -> BOOLEAN]
    BY ONLY <1>1, <1>3
  <2>4. wire' \in Seq(Piece) /\ TypeOK
    BY <1>1, <1>4 DEF IInv
  <2> QED  BY ONLY <1>2, <2>1, <2>2, <2>3, <2>4 DEF TypeOK, mainVars, samplerVars
\* Only what belongs to the request in progress has changed.
<1>6. \A k \in Matrix \ {run} : generated'[k] = generated[k] /\ shown'[k] = shown[k]
  BY <1>1, <1>2, <1>3
<1>7. Fresh' /\ Clean'
  <2>1. UNCHANGED <<pc, run, reply, told, results, sampler, counted, samples, status>>
    BY <1>2 DEF mainVars, samplerVars
  <2>2. ASSUME NEW k \in Matrix, k > run  PROVE k \in Matrix \ {run}
    BY <1>1, <2>2
  <2>3. Fresh'
    BY <1>1, <1>6, <2>1, <2>2 DEF IInv, Fresh
  <2> QED  BY <1>1, <2>1, <2>3 DEF IInv, Clean
<1>8. Streaming'
  BY <1>1, <1>2, <1>4 DEF IInv, Streaming, mainVars
<1>9. Counting'
  <2>1. generated[run]' = generated[run] + n /\ made' = made + n
    BY <1>1, <1>2 DEF mainVars
  <2>2. /\ generated[run] \in Nat /\ made \in Nat /\ base[run] \in Nat \cup {None}
        /\ counted[run] \in Int \cup {None} /\ samples[run] \in Seq(Int)
    BY <1>1 DEF IInv, TypeOK
  <2>3. UNCHANGED <<pc, run, base, sampler, counted, samples>> /\ Counting
    BY <1>2 DEF IInv, mainVars, samplerVars
  <2>4. ASSUME NEW i \in 1..Len(samples[run])  PROVE samples[run][i] <= generated[run] + n
    <3>1. samples[run][i] \in Int /\ samples[run][i] <= generated[run]
      BY <2>2, <2>3 DEF Counting
    <3> QED  BY <1>1, <2>2, <3>1
  <2> QED  BY <1>1, <2>1, <2>2, <2>3, <2>4 DEF Counting
<1>10. Over'
  <2>1. \A k \in Matrix : k < run => Good(k)'
    BY <1>1, <1>2, <1>6 DEF IInv, Over, Good, Told, mainVars
  <2>2. SteadyIsOwnTail'
    BY <1>1, <1>2, <1>6 DEF IInv, Clean, Over, SteadyIsOwnTail, mainVars
  <2>3. output = None /\ exit # 0
    BY <1>1 DEF IInv, Over
  <2> QED  BY <1>1, <1>2, <2>1, <2>2, <2>3 DEF IInv, Over, mainVars
<1> QED  BY <1>5, <1>7, <1>8, <1>9, <1>10 DEF IInv

LEMMA FinishStep ==
    ASSUME IInv, Finish
    PROVE  IInv'
<1> USE BoundsAssumption
<1> DEFINE n == generated[run]
<1>1. /\ pc = "read" /\ n \in Nat /\ run \in Matrix /\ reply = "open" /\ reply' = "ended"
      /\ told \in [Matrix -> BOOLEAN] /\ told' = [told EXCEPT ![run] = TRUE] /\ ~told[run]
      /\ wire' = wire \o Line("usage", n)
      /\ UNCHANGED <<up, made, generated, shown, crashes, mainVars, samplerVars>>
  <2>1. reply = "open" /\ run \in Matrix /\ Clean /\ Over /\ Streaming
    BY DEF IInv, TypeOK, Finish
  <2> QED  BY <2>1 DEF IInv, TypeOK, Finish, Clean, Over, Streaming, Totals
<1> HIDE DEF n
<1>2. /\ wire' \in Seq(Piece) /\ Whole'
      /\ \A i \in 1..Len(Stream) : Stream'[i] = Stream[i] /\ i \in 1..Len(Stream')
      /\ Stream'[Len(Stream) + 1] = [kind |-> "usage", n |-> n]
      /\ Stream'[Len(Stream) + 2] = NL
      /\ \A i \in 1..Len(Stream') :
            i \in 1..Len(Stream) \/ i = Len(Stream) + 1 \/ i = Len(Stream) + 2
      /\ Len(Stream) + 1 \in 1..Len(Stream')
  <2>1. buffer' = buffer /\ TypeOK /\ "usage" \in {"text", "usage", "error"}
    BY <1>1 DEF IInv, mainVars
  <2> QED  BY ONLY <1>1, <2>1, SendsLine
<1>3. TypeOK'
  <2>1. told' \in [Matrix -> BOOLEAN] /\ reply' \in {"none", "open", "ended", "broken"} /\ TypeOK
    BY <1>1 DEF IInv
  <2> QED  BY ONLY <1>1, <1>2, <2>1 DEF TypeOK, mainVars, samplerVars
<1>4. told'[run] /\ \A k \in Matrix \ {run} : told'[k] = told[k]
  BY <1>1
<1>5. Fresh' /\ Clean'
  BY <1>1, <1>4 DEF IInv, TypeOK, Fresh, Clean, mainVars, samplerVars
<1>6. Streaming'
  <2>1. \A i \in 1..Len(Stream') : Stream'[i].kind = "usage" => Stream'[i].n = n
    <3>1. \A i \in 1..Len(Stream) : Stream[i].kind # "usage"
      BY <1>1 DEF IInv, Streaming, Totals
    <3> QED  BY <1>2, <3>1 DEF NL
  <2>2. Stream'[Len(Stream) + 1].kind = "usage" /\ UNCHANGED <<run, generated, usage, first, shown>>
    BY <1>1, <1>2 DEF mainVars
  <2>3. Totals'
    BY <1>1, <1>2, <1>4, <2>1, <2>2 DEF Totals, n
  <2>4. Texts'
    <3>1. \A i \in 1..Len(Stream') : Stream'[i].kind = "text" => i \in 1..Len(Stream)
      BY <1>2 DEF NL
    <3>2. \A i \in 1..Len(Stream') : Stream'[i].kind = "text" => shown[run]
      BY <1>1, <1>2, <3>1 DEF IInv, Streaming, Texts
    <3>3. (first => shown[run])
          /\ (shown[run] => first \/ \E i \in 1..Len(Stream') : Stream'[i].kind = "text")
      BY <1>1, <1>2 DEF IInv, Streaming, Texts
    <3> QED  BY <2>2, <3>2, <3>3 DEF Texts
  <2> QED  BY <1>1, <1>2, <2>3, <2>4 DEF IInv, Streaming, mainVars
<1>7. Counting'
  BY <1>1 DEF IInv, Counting, mainVars, samplerVars
<1>8. Over'
  <2>1. \A k \in Matrix : k < run => Good(k)'
    BY <1>1, <1>4 DEF IInv, Over, Good, Told, mainVars
  <2>2. SteadyIsOwnTail' /\ output = None /\ exit # 0
    BY <1>1 DEF IInv, Over, SteadyIsOwnTail, mainVars
  <2> QED  BY <1>1, <2>1, <2>2 DEF IInv, Over, mainVars
<1> QED  BY <1>3, <1>5, <1>6, <1>7, <1>8 DEF IInv

LEMMA FailStep ==
    ASSUME IInv, Fail
    PROVE  IInv'
<1> USE BoundsAssumption
<1>1. /\ pc = "read" /\ reply = "open" /\ reply' = "ended" /\ ~told[run]
      /\ wire' = wire \o Line("error", NoTokens)
      /\ UNCHANGED <<up, made, generated, shown, told, crashes, mainVars, samplerVars>>
  <2>1. reply = "open" /\ Clean /\ Over /\ Streaming
    BY DEF IInv, Fail
  <2> QED  BY <2>1 DEF Fail, answered, Clean, Over, Streaming, Totals
<1>2. /\ wire' \in Seq(Piece) /\ Whole'
      /\ \A i \in 1..Len(Stream) : Stream'[i] = Stream[i] /\ i \in 1..Len(Stream')
      /\ Stream'[Len(Stream) + 1] = [kind |-> "error", n |-> NoTokens]
      /\ Stream'[Len(Stream) + 2] = NL
      /\ \A i \in 1..Len(Stream') :
            i \in 1..Len(Stream) \/ i = Len(Stream) + 1 \/ i = Len(Stream) + 2
  <2>1. buffer' = buffer /\ TypeOK /\ NoTokens \in Nat /\ "error" \in {"text", "usage", "error"}
    BY <1>1 DEF IInv, NoTokens, mainVars
  <2> QED  BY ONLY <1>1, <2>1, SendsLine
<1>3. TypeOK'
  <2>1. reply' \in {"none", "open", "ended", "broken"} /\ TypeOK
    BY <1>1 DEF IInv
  <2> QED  BY ONLY <1>1, <1>2, <2>1 DEF TypeOK, mainVars, samplerVars
<1>4. Fresh' /\ Clean'
  BY <1>1 DEF IInv, Fresh, Clean, mainVars, samplerVars
<1>5. Streaming'
  <2>1. UNCHANGED <<run, generated, told, usage, first, shown, pc, status, buffer>>
    BY <1>1 DEF mainVars
  <2>2. \A i \in 1..Len(Stream') :
            Stream'[i].kind \in {"text", "usage"} => i \in 1..Len(Stream)
    BY <1>2 DEF NL
  <2>3. Totals'
    <3>1. \A i \in 1..Len(Stream') : Stream'[i].kind # "usage"
      BY <1>1, <1>2, <2>2 DEF IInv, Streaming, Totals
    <3>2. usage = None
      BY <1>1 DEF IInv, Streaming, Totals
    <3> QED  BY <1>1, <2>1, <3>1, <3>2 DEF Totals
  <2>4. Texts'
    <3>1. \A i \in 1..Len(Stream') : Stream'[i].kind = "text" => shown[run]
      BY <1>1, <1>2, <2>2 DEF IInv, Streaming, Texts
    <3>2. (first => shown[run])
          /\ (shown[run] => first \/ \E i \in 1..Len(Stream') : Stream'[i].kind = "text")
      BY <1>1, <1>2 DEF IInv, Streaming, Texts
    <3> QED  BY <2>1, <3>1, <3>2 DEF Texts
  <2> QED  BY <1>1, <1>2, <2>1, <2>3, <2>4 DEF IInv, Streaming
<1>6. Counting'
  BY <1>1 DEF IInv, Counting, mainVars, samplerVars
<1>7. Over'
  BY <1>1 DEF IInv, Over, Good, Told, SteadyIsOwnTail, mainVars
<1> QED  BY <1>3, <1>4, <1>5, <1>6, <1>7 DEF IInv

LEMMA CrashStep ==
    ASSUME IInv, Crash
    PROVE  IInv'
<1> USE BoundsAssumption DEF Crash, answered, mainVars, samplerVars
<1>1. TypeOK'
  <2>1. /\ up' \in BOOLEAN /\ made' \in Nat /\ crashes' \in 0..MaxCrashes
        /\ reply' \in {"none", "open", "ended", "broken"}
    <3>1. crashes \in 0..MaxCrashes /\ reply \in {"none", "open", "ended", "broken"}
      BY DEF IInv, TypeOK
    <3>2. up' = FALSE /\ made' = 0 /\ crashes' = crashes + 1 /\ crashes < MaxCrashes
      OBVIOUS
    <3>3. reply' = IF reply = "open" THEN "broken" ELSE reply
      OBVIOUS
    <3>4. MaxCrashes \in Nat
      BY DEF BoundsAssumption
    <3>5. crashes' \in 0..MaxCrashes
      BY ONLY <3>1, <3>2, <3>4
    <3>6. reply' \in {"none", "open", "ended", "broken"}
      BY ONLY <3>1, <3>3
    <3>7. up' \in BOOLEAN /\ made' \in Nat
      BY ONLY <3>2
    <3> QED  BY ONLY <3>5, <3>6, <3>7
  <2>2. UNCHANGED <<generated, shown, told, wire, mainVars, samplerVars>> /\ TypeOK
    BY DEF IInv
  <2> QED  BY ONLY <2>1, <2>2 DEF TypeOK, mainVars, samplerVars
<1>2. Fresh' /\ Clean'
  BY DEF IInv, Fresh, Clean
<1>3. Streaming'
  <2>1. /\ UNCHANGED <<buffer, wire, first, usage, status, pc, run, generated, shown, told>>
        /\ reply # "open" => reply' # "open"
    OBVIOUS
  <2> QED  BY <2>1 DEF IInv, Streaming, Whole, Totals, Texts, Stream, Told
<1>4. Counting'
  <2>1. \A k \in Matrix : base[k] \in Nat \cup {None} /\ generated[k] \in Nat
    BY DEF IInv, TypeOK
  <2>2. run \in Matrix /\ made' = 0
    BY DEF IInv, TypeOK
  <2>3. base[run] # None => made' - base[run] <= generated[run]
    BY <2>1, <2>2
  <2> QED  BY <2>3 DEF IInv, Counting
<1>5. Over'
  BY DEF IInv, Over, Good, Told, SteadyIsOwnTail
<1> QED  BY <1>1, <1>2, <1>3, <1>4, <1>5 DEF IInv

LEMMA RestartStep ==
    ASSUME IInv, Restart
    PROVE  IInv'
<1> USE DEF Restart, answered, mainVars, samplerVars
<1>1. TypeOK' /\ Fresh' /\ Clean'
  BY DEF IInv, TypeOK, Fresh, Clean
<1>2. Streaming'
  BY KeepsStreaming DEF IInv, streamVars
<1>3. Counting' /\ Over'
  BY DEF IInv, Counting, Over, Good, Told, SteadyIsOwnTail
<1> QED  BY <1>1, <1>2, <1>3 DEF IInv

\* A step of a thread leaves what main has and what the server sends alone.
LEMMA SamplerStep ==
    ASSUME IInv, NEW k \in Matrix, Sampler(k)
    PROVE  IInv'
<1> USE DEF Sampler, Look, Scrape, AppendSample, serverVars, answered, mainVars
<1>1. UNCHANGED <<serverVars, wire, mainVars>> /\ sampler[k] # "off"
  OBVIOUS
<1>2. k < run \/ (k = run /\ pc # "base")
  BY <1>1, BoundsAssumption DEF IInv, TypeOK, Fresh
<1>3. /\ base[k] \in Nat \cup {None} /\ base[k] # None /\ made \in Nat /\ run \in Matrix
      /\ counted[k] \in Int \cup {None} /\ samples[k] \in Seq(Int) /\ generated[k] \in Nat
  BY <1>1 DEF IInv, TypeOK, Counting
<1>4. /\ counted' \in [Matrix -> Int \cup {None}] /\ samples' \in [Matrix -> Seq(Int)]
      /\ sampler' \in [Matrix -> {"off", "look", "scrape", "append", "done"}]
      /\ stopped' = stopped
      /\ \A j \in Matrix \ {k} : /\ counted'[j] = counted[j] /\ samples'[j] = samples[j]
                                /\ sampler'[j] = sampler[j]
      /\ counted'[k] \in {counted[k], None} \/ counted'[k] = made - base[k]
      /\ \/ samples'[k] = samples[k]
         \/ counted[k] # None /\ samples'[k] = Append(samples[k], counted[k])
  <2>1. /\ sampler \in [Matrix -> {"off", "look", "scrape", "append", "done"}]
        /\ counted \in [Matrix -> Int \cup {None}] /\ samples \in [Matrix -> Seq(Int)]
    BY DEF IInv, TypeOK
  <2>2. CASE Look(k)
    <3>1. UNCHANGED <<counted, samples, stopped>>
      BY <2>2
    <3>2. PICK p \in {"done", "scrape"} : sampler' = [sampler EXCEPT ![k] = p]
      BY <2>2
    <3> QED  BY ONLY <2>1, <3>1, <3>2, k \in Matrix
  <2>3. CASE Scrape(k)
    <3>1. UNCHANGED <<samples, stopped>> /\ sampler' = [sampler EXCEPT ![k] = "append"]
      BY <2>3
    <3>2. PICK c \in Int \cup {None} :
              /\ counted' = [counted EXCEPT ![k] = c]
              /\ c = None \/ c = made - base[k]
      <4>1. PICK d \in Scraped :
                counted' = [counted EXCEPT ![k] = IF d = None THEN None ELSE d - base[k]]
        BY <2>3
      <4>2. CASE d = None
        BY <4>1, <4>2
      <4>3. CASE d # None
        <5>1. d = made /\ made - base[k] \in Int
          BY <1>3, <4>3 DEF Scraped
        <5> QED  BY <4>1, <4>3, <5>1
      <4> QED  BY <4>2, <4>3
    <3> QED  BY ONLY <2>1, <3>1, <3>2, k \in Matrix
  <2>4. CASE AppendSample(k)
    <3>1. /\ stopped' = stopped /\ sampler' = [sampler EXCEPT ![k] = "look"]
          /\ counted' = [counted EXCEPT ![k] = None]
      BY <2>4
    <3>2. PICK s \in Seq(Int) :
              /\ samples' = [samples EXCEPT ![k] = s]
              /\ s = samples[k] \/ (counted[k] # None /\ s = Append(samples[k], counted[k]))
      <4>1. CASE counted[k] = None
        BY <1>3, <2>4, <4>1
      <4>2. CASE counted[k] # None
        <5>1. Append(samples[k], counted[k]) \in Seq(Int)
          BY <1>3, <4>2, AppendProperties
        <5> QED  BY <2>4, <4>2, <5>1
      <4> QED  BY <4>1, <4>2
    <3> QED  BY ONLY <2>1, <3>1, <3>2, k \in Matrix
  <2> QED  BY <2>2, <2>3, <2>4
<1> HIDE DEF Sampler, Look, Scrape, AppendSample
<1>5. TypeOK'
  BY <1>1, <1>4 DEF IInv, TypeOK
<1>6. Fresh' /\ Clean'
  <2>1. ASSUME NEW j \in Matrix, j > run \/ (j = run /\ pc = "base")  PROVE j # k
    BY <1>2, <1>3, <2>1, BoundsAssumption
  <2>2. Fresh'
    BY <1>1, <1>4, <2>1 DEF IInv, Fresh
  <2> QED  BY <1>1, <2>2 DEF IInv, Clean
<1>7. Streaming'
  BY <1>1, KeepsStreaming DEF IInv, streamVars
<1>8. Counting'
  <2>1. \A j \in Matrix : sampler'[j] # "off" => base'[j] # None
    BY <1>1, <1>3, <1>4 DEF IInv, Counting
  <2>2. pc' # "base" /\ base'[run'] # None => made' - base'[run'] <= generated'[run']
    BY <1>1 DEF IInv, Counting
  <2>3. counted'[run] # None => counted'[run] <= generated[run]
    BY <1>2, <1>3, <1>4 DEF IInv, Counting
  <2>4. ASSUME NEW i \in 1..Len(samples'[run])  PROVE samples'[run][i] <= generated[run]
    <3>1. CASE samples'[run] = samples[run]
      BY <2>4, <3>1 DEF IInv, Counting
    <3>2. CASE run = k /\ counted[k] # None /\ samples'[k] = Append(samples[k], counted[k])
      <4>1. /\ Len(samples'[k]) = Len(samples[k]) + 1
            /\ \A j \in 1..Len(samples[k]) : samples'[k][j] = samples[k][j]
            /\ samples'[k][Len(samples[k]) + 1] = counted[k]
        <5>1. counted[k] \in Int
          BY <1>3, <3>2
        <5> QED  BY <1>3, <3>2, <5>1, AppendProperties
      <4>2. i \in 1..Len(samples[k]) \/ i = Len(samples[k]) + 1
        BY <1>3, <2>4, <3>2, <4>1
      <4> QED  BY <3>2, <4>1, <4>2 DEF IInv, Counting
    <3> QED  BY <1>3, <1>4, <3>1, <3>2
  <2> QED  BY <1>1, <2>1, <2>2, <2>3, <2>4 DEF Counting
<1>9. Over'
  BY <1>1 DEF IInv, Over, Good, Told, SteadyIsOwnTail
<1> QED  BY <1>5, <1>6, <1>7, <1>8, <1>9 DEF IInv

LEMMA BaseStep ==
    ASSUME IInv, Base
    PROVE  IInv'
<1> USE BoundsAssumption, NoneAssumption DEF samplerVars, serverVars, answered
<1>1. PICK c \in Scraped :
          /\ base' = [base EXCEPT ![run] = c]
          /\ sampler' = [sampler EXCEPT ![run] = IF c = None THEN "off" ELSE "look"]
  BY DEF Base, BaseOf
<1>2. /\ pc = "base" /\ pc' = "open" /\ run \in Matrix /\ c \in Nat \cup {None}
      /\ c # None => c = made
      /\ UNCHANGED <<serverVars, wire, run, status, first, usage, buffer, results, output, exit,
                     counted, samples, stopped>>
      /\ generated \in [Matrix -> Nat] /\ base \in [Matrix -> Nat \cup {None}] /\ made \in Nat
  <2>1. made \in Nat
    BY DEF IInv, TypeOK
  <2>2. c \in {None, made}
    BY DEF Scraped
  <2> QED  BY <2>1, <2>2 DEF Base, IInv, TypeOK
<1>3. TypeOK'
  BY <1>1, <1>2 DEF IInv, TypeOK, PCs
<1>4. Fresh' /\ Clean'
  BY <1>1, <1>2 DEF IInv, TypeOK, Fresh, Clean
<1>5. Streaming'
  BY <1>2 DEF Streaming
<1>6. Counting'
  <2>1. base'[run] # None => made - base'[run] <= 0
    BY <1>1, <1>2
  <2>2. generated[run] = 0 /\ counted[run] = None /\ samples[run] = <<>>
    BY <1>2 DEF IInv, Fresh
  <2>3. \A k \in Matrix : sampler'[k] # "off" => base'[k] # None
    BY <1>1, <1>2 DEF IInv, TypeOK, Counting
  <2>4. Len(<<>>) = 0
    OBVIOUS
  <2> QED  BY <1>2, <2>1, <2>2, <2>3, <2>4 DEF Counting
<1>7. Over'
  BY <1>1, <1>2 DEF IInv, Over, Good, Told, SteadyIsOwnTail
<1> QED  BY <1>3, <1>4, <1>5, <1>6, <1>7 DEF IInv

LEMMA AcceptedStep ==
    ASSUME IInv, Accepted
    PROVE  IInv'
<1> USE BoundsAssumption, NoneAssumption
<1>1. /\ pc = "open" /\ pc' = "read" /\ reply' = "open" /\ status' = 200
      /\ wire' = <<>> /\ buffer = <<>> /\ ~first /\ usage = None
      /\ generated[run] = 0 /\ ~shown[run] /\ ~told[run]
      /\ UNCHANGED <<up, made, generated, shown, told, crashes, run, base, first, usage, buffer,
                     results, output, exit, sampler, counted, samples, stopped>>
  BY DEF IInv, Clean, Accepted, answered, samplerVars
<1>2. Stream' = <<>> /\ <<>> \in Seq(Piece) /\ Len(<<>>) = 0
  BY <1>1 DEF Stream
<1>3. TypeOK'
  BY <1>1, <1>2 DEF IInv, TypeOK, PCs
<1>4. Fresh' /\ Clean'
  BY <1>1 DEF IInv, Fresh, Clean
<1>5. Streaming'
  <2>1. Whole'
    BY <1>2 DEF Whole
  <2>2. Totals'
    BY <1>1, <1>2 DEF Totals, answered
  <2>3. Texts' /\ Ends(buffer)' = {}
    BY <1>1, <1>2 DEF Texts, Ends, answered
  <2> QED  BY <1>1, <2>1, <2>2, <2>3 DEF Streaming
<1>6. Counting'
  BY <1>1 DEF IInv, Counting
<1>7. Over'
  BY <1>1 DEF IInv, Over, Good, Told, SteadyIsOwnTail
<1> QED  BY <1>3, <1>4, <1>5, <1>6, <1>7 DEF IInv

LEMMA RefusedStep ==
    ASSUME IInv, Refused
    PROVE  IInv'
<1> USE BoundsAssumption, NoneAssumption
<1>1. /\ pc = "open" /\ pc' = "join" /\ status' \in Refusals /\ status' # 200 /\ status' # None
      /\ stopped' = [stopped EXCEPT ![run] = TRUE]
      /\ UNCHANGED <<up, made, reply, generated, shown, told, crashes, wire, run, base, first,
                     usage, buffer, results, output, exit, sampler, counted, samples>>
  BY DEF Refused, serverVars, answered
<1>2. TypeOK'
  BY <1>1 DEF IInv, TypeOK, PCs
<1>3. Fresh' /\ Clean'
  BY <1>1 DEF IInv, Fresh, Clean
<1>4. Streaming'
  BY <1>1 DEF Streaming
<1>5. Counting' /\ Over'
  BY <1>1 DEF IInv, Counting, Over, Good, Told, SteadyIsOwnTail
<1> QED  BY <1>2, <1>3, <1>4, <1>5 DEF IInv

LEMMA RaiseStep ==
    ASSUME IInv, Unreachable \/ ReadBreaks
    PROVE  IInv'
<1> USE NoneAssumption
<1>1. /\ pc \in {"open", "read"} /\ reply \notin {"open", "ended"} /\ pc' = "end" /\ exit' = 1
      /\ UNCHANGED <<up, made, reply, generated, shown, told, crashes, wire, run, base, status,
                     first, usage, buffer, results, output, sampler, counted, samples, stopped>>
  BY DEF IInv, Clean, Unreachable, ReadBreaks, Raise, serverVars, answered, samplerVars
<1>2. TypeOK'
  BY <1>1 DEF IInv, TypeOK, PCs
<1>3. Fresh' /\ Clean'
  BY <1>1 DEF IInv, Fresh, Clean
<1>4. Streaming'
  BY <1>1 DEF Streaming
<1>5. Counting'
  BY <1>1 DEF IInv, Counting
<1>6. Over'
  BY <1>1 DEF IInv, Over, Good, Told, SteadyIsOwnTail
<1> QED  BY <1>2, <1>3, <1>4, <1>5, <1>6 DEF IInv

LEMMA ReadEndStep ==
    ASSUME IInv, ReadEnd
    PROVE  IInv'
<1> USE BoundsAssumption, NoneAssumption
<1>1. /\ pc = "read" /\ pc' = "join" /\ reply = "ended" /\ reply' = "none" /\ wire = <<>>
      /\ status = 200 /\ run \in Matrix
      /\ stopped' = [stopped EXCEPT ![run] = TRUE]
      /\ UNCHANGED <<up, made, generated, shown, told, crashes, wire, run, base, status, first,
                     usage, buffer, results, output, exit, sampler, counted, samples>>
  BY DEF IInv, TypeOK, Clean, ReadEnd, answered
<1>2. TypeOK'
  BY <1>1 DEF IInv, TypeOK, PCs
<1>3. Fresh' /\ Clean'
  BY <1>1 DEF IInv, Fresh, Clean
<1>4. Streaming'
  <2>1. buffer \in Seq(Piece) /\ Ends(buffer) = {}
    BY <1>1 DEF IInv, TypeOK, Streaming
  <2>2. Stream = buffer
    BY <1>1, <2>1 DEF Stream
  <2>3. buffer = <<>>
    <3>1. SUFFICES ASSUME buffer # <<>>  PROVE FALSE
      OBVIOUS
    <3>2. Len(buffer) \in 1..Len(buffer) /\ buffer[Len(buffer)] = NL
      BY <1>1, <2>1, <2>2, <3>1 DEF IInv, Streaming, Whole
    <3> QED  BY <2>1, <3>2 DEF Ends
  <2>4. Len(Stream) = 0
    BY <2>2, <2>3
  <2>5. usage = Told(run) /\ first = shown[run]
    BY <1>1, <2>4 DEF IInv, TypeOK, Streaming, Totals, Texts, Told
  <2> QED  BY <1>1, <2>5 DEF Streaming, Told, answered
<1>5. Counting' /\ Over'
  BY <1>1 DEF IInv, Counting, Over, Good, Told, SteadyIsOwnTail
<1> QED  BY <1>2, <1>3, <1>4, <1>5 DEF IInv

LEMMA ReadStep ==
    ASSUME IInv, NEW n \in 1..Len(wire), Read(n)
    PROVE  IInv'
<1> USE BoundsAssumption, NoneAssumption
<1> DEFINE p == buffer \o SubSeq(wire, 1, n)
           d == LastEnd(p)
           totals == Events(p, "usage")
<1>1. /\ pc = "read" /\ buffer' = Rest(p) /\ wire' = SubSeq(wire, n + 1, Len(wire))
      /\ first' = (first \/ Events(p, "text") # {})
      /\ usage' = IF totals = {} THEN usage ELSE p[Max(totals)].n
      /\ UNCHANGED <<up, made, reply, generated, shown, told, crashes, pc, run, base, status,
                     results, output, exit, sampler, counted, samples, stopped>>
  BY DEF Read, serverVars, answered, samplerVars
<1>2. buffer \in Seq(Piece) /\ wire \in Seq(Piece) /\ run \in Matrix /\ generated[run] \in Nat
  BY DEF IInv, TypeOK
<1>3. /\ p \in Seq(Piece) /\ wire' \in Seq(Piece) /\ Stream \in Seq(Piece) /\ Stream' \in Seq(Piece)
      /\ d \in 0..Len(p) /\ Len(p) <= Len(Stream)
      /\ \A i \in 1..Len(p) : p[i] = Stream[i]
      /\ Len(Stream') = Len(Stream) - d
      /\ \A i \in 1..Len(Stream') : Stream'[i] = Stream[i + d]
  <2>1. DropsLines(buffer, wire, n)
    BY <1>2, ReadPortion
  <2>2. Stream = buffer \o wire /\ Stream' = Rest(p) \o SubSeq(wire, n + 1, Len(wire))
    BY <1>1 DEF Stream
  <2> QED  BY <1>1, <2>1, <2>2 DEF DropsLines
<1>4. Rest(p) \in Seq(Piece) /\ Ends(Rest(p)) = {}
  BY <1>3, RestProperties
<1>5. ASSUME NEW kind  PROVE Events(p, kind) = {i \in 1..d : Stream[i].kind = kind}
  <2>1. Events(p, kind) = {i \in 1..d : p[i].kind = kind}
    BY DEF Events
  <2>2. Len(p) \in Nat
    BY <1>3
  <2>3. \A i \in 1..d : p[i] = Stream[i]
    BY <1>3, <2>2
  <2> HIDE DEF p, d
  <2> QED  BY <2>1, <2>3
<1> HIDE DEF p, d, totals
<1>6. Len(Stream) \in Nat /\ Len(Stream') \in Nat /\ d \in Nat /\ d <= Len(Stream)
  BY <1>3
\* An event of the stream is parsed now or still to come.
<1>7. ASSUME NEW i \in 1..Len(Stream)
      PROVE  i \in 1..d \/ (i - d \in 1..Len(Stream') /\ Stream'[i - d] = Stream[i])
  <2>1. CASE i <= d
    BY <2>1
  <2>2. CASE ~(i <= d)
    <3>1. i - d \in 1..Len(Stream') /\ (i - d) + d = i
      BY <1>3, <1>6, <2>2
    <3> QED  BY <1>3, <3>1
  <2> QED  BY <2>1, <2>2
<1>8. totals # {} => usage' = generated[run]
  <2>1. SUFFICES ASSUME totals # {}  PROVE usage' = generated[run]
    OBVIOUS
  <2>2. totals = {i \in 1..d : Stream[i].kind = "usage"}
    BY <1>5 DEF totals
  <2>3. Max(totals) \in totals
    BY <1>6, <2>1, <2>2, HasMax
  <2>4. Max(totals) \in 1..Len(p) /\ Max(totals) \in 1..Len(Stream) /\ Stream[Max(totals)].kind = "usage"
    BY <1>3, <1>6, <2>2, <2>3
  <2>5. Stream[Max(totals)].n = generated[run]
    BY <1>1, <2>4 DEF IInv, Streaming, Totals
  <2> QED  BY <1>1, <1>3, <2>1, <2>4, <2>5
<1>9. TypeOK'
  <2>1. usage' \in Nat \cup {None}
    BY <1>1, <1>2, <1>8 DEF IInv, TypeOK
  <2>2. first' \in BOOLEAN
    BY <1>1 DEF IInv, TypeOK
  <2> QED  BY <1>1, <1>3, <1>4, <2>1, <2>2 DEF IInv, TypeOK
<1>10. Fresh' /\ Clean'
  BY <1>1 DEF IInv, Fresh, Clean
<1>11. Streaming'
  <2>1. Whole'
    <3>1. SUFFICES ASSUME Len(Stream') \in 1..Len(Stream')  PROVE Stream'[Len(Stream')] = NL
      BY <1>3, <1>6 DEF Whole
    <3>2. Stream'[Len(Stream')] = Stream[Len(Stream)] /\ Stream # <<>>
      BY <1>3, <1>6, <3>1
    <3> QED  BY <1>1, <3>2 DEF IInv, Streaming, Whole
  <2>2. \A i \in 1..Len(Stream') : i + d \in 1..Len(Stream) /\ Stream'[i] = Stream[i + d]
    BY <1>3, <1>6
  <2>3. UNCHANGED <<run, reply, generated, told, shown>>
    BY <1>1 DEF answered
  <2>4. Totals'
    <3>1. \A i \in 1..Len(Stream') :
              Stream'[i].kind = "usage" => told[run] /\ Stream'[i].n = generated[run]
      BY <1>1, <2>2 DEF IInv, Streaming, Totals
    <3>2. ASSUME told[run]
          PROVE  /\ reply # "open"
                 /\ usage' = generated[run] \/ \E i \in 1..Len(Stream') : Stream'[i].kind = "usage"
      <4>1. reply # "open"
        BY <1>1, <3>2 DEF IInv, Streaming, Totals
      <4>2. CASE usage = generated[run]
        BY <1>1, <1>8, <4>1, <4>2
      <4>3. CASE \E i \in 1..Len(Stream) : Stream[i].kind = "usage"
        <5>1. PICK i \in 1..Len(Stream) : Stream[i].kind = "usage"
          BY <4>3
        <5>2. i \in 1..d => i \in totals
          BY <1>5, <5>1 DEF totals
        <5> QED  BY <1>7, <1>8, <4>1, <5>1, <5>2
      <4> QED  BY <1>1, <3>2, <4>2, <4>3 DEF IInv, Streaming, Totals
    <3>3. ASSUME ~told[run]  PROVE usage' = None
      <4>1. totals = {}
        <5>1. totals = {i \in 1..d : Stream[i].kind = "usage"}
          BY <1>5 DEF totals
        <5>2. \A i \in 1..d : i \in 1..Len(Stream)
          BY <1>6
        <5> QED  BY <1>1, <3>3, <5>1, <5>2 DEF IInv, Streaming, Totals
      <4> QED  BY <1>1, <3>3, <4>1 DEF IInv, Streaming, Totals
    <3> QED  BY <2>3, <3>1, <3>2, <3>3 DEF Totals
  <2>5. Texts'
    <3>1. \A i \in 1..Len(Stream') : Stream'[i].kind = "text" => shown[run]
      BY <1>1, <2>2 DEF IInv, Streaming, Texts
    <3>2. first' => shown[run]
      <4>1. \A i \in Events(p, "text") : i \in 1..Len(Stream) /\ Stream[i].kind = "text"
        BY <1>5, <1>6
      <4> QED  BY <1>1, <4>1 DEF IInv, Streaming, Texts
    <3>3. ASSUME shown[run]
          PROVE  first' \/ \E i \in 1..Len(Stream') : Stream'[i].kind = "text"
      <4>1. CASE first
        BY <1>1, <4>1
      <4>2. CASE \E i \in 1..Len(Stream) : Stream[i].kind = "text"
        <5>1. PICK i \in 1..Len(Stream) : Stream[i].kind = "text"
          BY <4>2
        <5>2. i \in 1..d => i \in Events(p, "text")
          BY <1>5, <5>1
        <5> QED  BY <1>1, <1>7, <5>1, <5>2
      <4> QED  BY <1>1, <3>3, <4>1, <4>2 DEF IInv, Streaming, Texts
    <3> QED  BY <2>3, <3>1, <3>2, <3>3 DEF Texts
  <2> QED  BY <1>1, <1>4, <2>1, <2>4, <2>5 DEF Streaming, Told, answered
<1>12. Counting' /\ Over'
  BY <1>1 DEF IInv, Counting, Over, Good, Told, SteadyIsOwnTail
<1> QED  BY <1>9, <1>10, <1>11, <1>12 DEF IInv

LEMMA JoinStep ==
    ASSUME IInv, Join
    PROVE  IInv'
<1> USE BoundsAssumption, NoneAssumption
<1> DEFINE r == [status |-> status, completion |-> usage, first |-> first,
                 steady |-> IF status = 200 THEN SteadyWindow(samples[run]) ELSE None]
<1>1. /\ pc = "join" /\ results' = [results EXCEPT ![run] = r] /\ pc' = After(status)
      /\ run' = IF status = 200 /\ run < Runs THEN run + 1 ELSE run
      /\ exit' = IF status = 200 THEN exit ELSE IF status \in {401, 403} THEN 2 ELSE 1
      /\ status' = None /\ first' = FALSE /\ usage' = None /\ buffer' = <<>>
      /\ samples' = [samples EXCEPT ![run] = <<>>]
      /\ UNCHANGED <<up, made, reply, generated, shown, told, crashes, wire, base, output,
                     sampler, counted, stopped>>
  BY DEF Join, serverVars, answered
<1>2. /\ run \in Matrix /\ samples[run] \in Seq(Int) /\ generated[run] \in Nat
      /\ status \in {200} \cup Refusals /\ usage \in Nat \cup {None} /\ first \in BOOLEAN
      /\ results \in [Matrix -> Result \cup {None}] /\ samples \in [Matrix -> Seq(Int)]
  BY <1>1 DEF IInv, TypeOK, Clean
<1>3. /\ SteadyWindow(samples[run]) \in Int \cup {None}
      /\ SteadyWindow(samples[run]) # None => SteadyWindow(samples[run]) <= generated[run] - SteadyFrom
  BY <1>2, SteadyWindowBound DEF IInv, Counting
<1>4. r \in Result /\ r # None
  BY <1>2, <1>3 DEF Result
<1>5. /\ r.status = status /\ r.completion = usage /\ r.first = first
      /\ r.steady = IF status = 200 THEN SteadyWindow(samples[run]) ELSE None
      /\ status = 200 => usage = Told(run) /\ first = shown[run]
  BY <1>1 DEF IInv, Streaming
<1> HIDE DEF r
<1>6. TypeOK'
  <2>1. results' \in [Matrix -> Result \cup {None}] /\ samples' \in [Matrix -> Seq(Int)]
    BY <1>1, <1>2, <1>4
  <2>2. pc' \in PCs /\ run' \in Matrix /\ exit' \in {None, 0, 1, 2}
    BY <1>1, <1>2 DEF After, PCs, IInv, TypeOK
  <2>3. <<>> \in Seq(Piece) /\ TypeOK
    BY DEF IInv
  <2> QED  BY <1>1, <2>1, <2>2, <2>3 DEF TypeOK
<1>7. results'[run] = r /\ \A k \in Matrix \ {run} : results'[k] = results[k] /\ samples'[k] = samples[k]
  BY <1>1, <1>2
<1>8. samples'[run] = <<>>
  BY <1>1, <1>2
\* The rest of the matrix has not begun.
<1>9. ASSUME NEW k \in Matrix, k > run
      PROVE  /\ generated[k] = 0 /\ ~shown[k] /\ ~told[k] /\ results'[k] = None
             /\ sampler[k] = "off" /\ counted[k] = None /\ samples'[k] = <<>>
  <2>1. k \in Matrix \ {run}
    BY <1>2, <1>9
  <2> QED  BY <1>7, <1>9, <2>1 DEF IInv, Fresh
<1>10. CASE status # 200
  <2>1. pc' = "end" /\ run' = run
    BY <1>1, <1>10 DEF After
  <2>2. Fresh'
    BY <1>1, <1>9, <2>1 DEF Fresh
  <2>3. Clean'
    BY <1>1, <2>1 DEF IInv, Clean
  <2>4. Streaming'
    BY <2>1 DEF Streaming
  <2>5. Counting'
    BY <1>1, <1>8, <2>1 DEF IInv, Counting
  <2>6. Over'
    <3>1. SteadyIsOwnTail'
      BY <1>1, <1>5, <1>7, <1>10 DEF IInv, Over, SteadyIsOwnTail
    <3>2. \A k \in Matrix : k < run => Good(k)'
      BY <1>1, <1>2, <1>7 DEF IInv, Over, Good, Told
    <3> QED  BY <1>1, <1>10, <2>1, <3>1, <3>2 DEF IInv, Clean, Over
  <2> QED  BY <1>6, <2>2, <2>3, <2>4, <2>5, <2>6 DEF IInv
<1>11. CASE status = 200
  <2>1. /\ results'[run] # None /\ results'[run].status = 200
        /\ results'[run].completion = Told(run) /\ results'[run].first = shown[run]
    BY <1>4, <1>5, <1>7, <1>11
  <2>2. ASSUME NEW k \in Matrix, k <= run  PROVE Good(k)'
    <3>1. CASE k = run
      BY <1>1, <2>1, <3>1 DEF Good, Told
    <3>2. CASE k < run
      <4>1. k \in Matrix \ {run}
        BY <1>2, <3>2
      <4>2. Good(k) /\ results'[k] = results[k]
        BY <1>7, <3>2, <4>1 DEF IInv, Over
      <4> QED  BY <1>1, <4>2 DEF Good, Told
    <3> QED  BY <1>2, <2>2, <3>1, <3>2
  <2>3. SteadyIsOwnTail'
    BY <1>1, <1>3, <1>5, <1>7, <1>11 DEF IInv, Over, SteadyIsOwnTail
  <2>4. CASE run = Runs
    <3>1. pc' = "write" /\ run' = run
      BY <1>1, <1>2, <1>11, <2>4 DEF After
    <3>2. Fresh' /\ Clean'
      BY <1>1, <1>9, <3>1 DEF IInv, Fresh, Clean
    <3>3. Streaming' /\ Counting'
      BY <1>1, <1>8, <3>1 DEF IInv, Streaming, Counting
    <3>4. \A k \in Matrix : Good(k)'
      BY <2>2, <2>4
    <3>5. Over'
      BY <1>1, <1>11, <2>3, <2>4, <3>1, <3>4 DEF IInv, Over
    <3> QED  BY <1>6, <3>2, <3>3, <3>5 DEF IInv
  <2>5. CASE run # Runs
    <3>1. pc' = "base" /\ run' = run + 1 /\ run + 1 \in Matrix
      BY <1>1, <1>2, <1>11, <2>5 DEF After
    <3>2. Fresh'
      BY <1>1, <1>2, <1>9, <3>1 DEF Fresh
    <3>3. Clean'
      BY <1>1, <1>2, <1>9, <3>1 DEF IInv, Clean
    <3>4. Streaming'
      BY <3>1 DEF Streaming
    <3>5. Counting'
      BY <1>1, <1>2, <1>9, <3>1 DEF IInv, Counting
    <3>6. \A k \in Matrix : k < run' => Good(k)'
      BY <1>2, <2>2, <3>1
    <3>7. Over'
      BY <1>1, <1>11, <2>3, <3>1, <3>6 DEF IInv, Over
    <3> QED  BY <1>6, <3>2, <3>3, <3>4, <3>5, <3>7 DEF IInv
  <2> QED  BY <2>4, <2>5
<1> QED  BY <1>10, <1>11

LEMMA WriteStep ==
    ASSUME IInv, Write
    PROVE  IInv'
<1> USE NoneAssumption
<1>1. /\ pc = "write" /\ pc' = "end" /\ output' = results /\ exit' = 0
      /\ UNCHANGED <<up, made, reply, generated, shown, told, crashes, wire, run, base, status,
                     first, usage, buffer, results, sampler, counted, samples, stopped>>
  BY DEF Write, serverVars, answered, samplerVars
<1>2. results \in [Matrix -> Result \cup {None}] /\ results # None
  BY DEF IInv, TypeOK
<1>3. TypeOK'
  BY <1>1, <1>2 DEF IInv, TypeOK, PCs
<1>4. Fresh' /\ Clean'
  BY <1>1 DEF IInv, Fresh, Clean
<1>5. Streaming'
  BY <1>1 DEF Streaming
<1>6. Counting'
  BY <1>1 DEF IInv, Counting
<1>7. Over'
  BY <1>1, <1>2 DEF IInv, Clean, Over, Good, Told, SteadyIsOwnTail
<1> QED  BY <1>3, <1>4, <1>5, <1>6, <1>7 DEF IInv

-----------------------------------------------------------------------------
(* The theorems.                                                           *)

\* The inductive invariant holds in every behaviour of the benchmark.
THEOREM Invariance == Spec => []IInv
<1>1. ASSUME IInv, [Next]_vars  PROVE IInv'
  <2>1. CASE Server
    BY <1>1, <2>1, MakeStep, FinishStep, FailStep, CrashStep, RestartStep DEF Server, Generate
  <2>2. CASE Main
    BY <1>1, <2>2, BaseStep, AcceptedStep, RefusedStep, RaiseStep, ReadEndStep, JoinStep, WriteStep,
       ReadStep DEF Main
  <2>3. CASE \E k \in Matrix : Sampler(k)
    BY <1>1, <2>3, SamplerStep
  <2>4. CASE UNCHANGED vars
    <3>1. TypeOK' /\ Fresh' /\ Clean'
      BY <1>1, <2>4 DEF IInv, TypeOK, Fresh, Clean, vars, serverVars, answered, mainVars, samplerVars
    <3>2. Streaming'
      BY <1>1, <2>4, KeepsStreaming DEF IInv, streamVars, vars, serverVars, answered, mainVars
    <3>3. Counting' /\ Over'
      BY <1>1, <2>4 DEF IInv, Counting, Over, Good, Told, SteadyIsOwnTail, vars, serverVars,
         answered, mainVars, samplerVars
    <3> QED  BY <3>1, <3>2, <3>3 DEF IInv
  <2> QED  BY <1>1, <2>1, <2>2, <2>3, <2>4 DEF Next
<1> QED  BY <1>1, Initial, PTL DEF Spec

\* Every variable keeps its type.
THEOREM TypeCorrect == Spec => []TypeOK
<1>1. IInv => TypeOK
  BY DEF IInv
<1> QED  BY <1>1, Invariance, PTL

\* For every matrix, window, number of crashes and cut of the stream, a steady window counts
\* tokens of its own request past SteadyFrom.
THEOREM SteadyWindowIsOwn == Spec => []SteadyIsOwnTail
<1>1. IInv => SteadyIsOwnTail
  BY DEF IInv, Over
<1> QED  BY <1>1, Invariance, PTL

\* A file that was written has every request of the matrix, each with what its own stream said:
\* the number of tokens made for it unless the server gave the answer up, and whether it had
\* text.
THEOREM FileIsWhole == Spec => []OutputIsWhole
<1>1. IInv => OutputIsWhole
  BY DEF IInv, Over, Good, OutputIsWhole
<1> QED  BY <1>1, Invariance, PTL

==============================================================================
