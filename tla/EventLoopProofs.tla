---------------------------- MODULE EventLoopProofs ----------------------------
(***************************************************************************)
(* Proofs about EventLoop: the two lists and the walks over them stay      *)
(* consistent, and every step of the loop is one of Timers, or none.       *)
(*                                                                         *)
(* What makes them inductive is the shape of the stack (Stacked): only the *)
(* call on top moves, those below it stand in the handlers of timers, and  *)
(* no two of them in that of the same one.                                 *)
(***************************************************************************)
EXTENDS EventLoop, SequenceTheorems, TLAPS

Stacked ==
    /\ \A n \in DOMAIN frames : n # Len(frames) => frames[n].timer # Null
    /\ \A n \in DOMAIN frames : frames[n].timer # Null => frames[n].phase = "called"
    /\ \A m, n \in DOMAIN frames :
         frames[m].timer = frames[n].timer /\ frames[m].timer # Null => m = n

IInv == ListsConsistent /\ Stacked

-----------------------------------------------------------------------------
(* Lists. *)

(* A list with e behind its first k elements. *)
With(list, k, e) == SubSeq(list, 1, k) \o <<e>> \o SubSeq(list, k + 1, Len(list))

(* ... element by element: w is s with e behind its first k elements. *)
IsWith(w, S, s, k, e) ==
    /\ w \in Seq(S)
    /\ Len(w) = Len(s) + 1
    /\ \A i \in 1 .. Len(s) + 1 :
         w[i] = IF i <= k THEN s[i] ELSE IF i = k + 1 THEN e ELSE s[i - 1]

(* What an insertion leaves where (DefaultAddTimeOut). *)
LEMMA WithIs ==
    ASSUME NEW S, NEW s \in Seq(S), NEW k \in 0 .. Len(s), NEW e \in S
    PROVE  IsWith(With(s, k, e), S, s, k, e)
<1>1. /\ SubSeq(s, 1, k) \in Seq(S) /\ Len(SubSeq(s, 1, k)) = k
      /\ \A i \in 1 .. k : SubSeq(s, 1, k)[i] = s[i]
  <2>1. \A i \in 1 .. k : s[i] \in S
    BY ElementOfSeq, LenProperties
  <2>2. /\ SubSeq(s, 1, k) \in Seq(S)
        /\ Len(SubSeq(s, 1, k)) = IF 1 <= k THEN k - 1 + 1 ELSE 0
        /\ \A i \in 1 .. k - 1 + 1 : SubSeq(s, 1, k)[i] = s[1 + i - 1]
    BY <2>1, SubSeqProperties
  <2> QED BY <2>2
<1>2. /\ SubSeq(s, k + 1, Len(s)) \in Seq(S) /\ Len(SubSeq(s, k + 1, Len(s))) = Len(s) - k
      /\ \A i \in 1 .. Len(s) - k : SubSeq(s, k + 1, Len(s))[i] = s[k + i]
  <2>1. \A i \in k + 1 .. Len(s) : s[i] \in S
    BY ElementOfSeq, LenProperties
  <2>2. /\ SubSeq(s, k + 1, Len(s)) \in Seq(S)
        /\ Len(SubSeq(s, k + 1, Len(s))) = IF k + 1 <= Len(s) THEN Len(s) - (k + 1) + 1 ELSE 0
        /\ \A i \in 1 .. Len(s) - (k + 1) + 1 :
             SubSeq(s, k + 1, Len(s))[i] = s[k + 1 + i - 1]
    BY <2>1, SubSeqProperties, LenProperties
  <2> QED BY <2>2, LenProperties
<1>3. <<e>> \in Seq(S) /\ Len(<<e>>) = 1 /\ <<e>>[1] = e
  OBVIOUS
<1>4. /\ SubSeq(s, 1, k) \o <<e>> \in Seq(S)
      /\ Len(SubSeq(s, 1, k) \o <<e>>) = k + 1
      /\ \A i \in 1 .. k + 1 :
           (SubSeq(s, 1, k) \o <<e>>)[i] = IF i <= k THEN s[i] ELSE e
  <2> DEFINE a == SubSeq(s, 1, k)
             b == <<e>>
  <2>1. /\ a \o b \in Seq(S)
        /\ Len(a \o b) = Len(a) + Len(b)
        /\ \A i \in 1 .. Len(a) + Len(b) :
             (a \o b)[i] = IF i <= Len(a) THEN a[i] ELSE b[i - Len(a)]
    <3> HIDE DEF a, b
    <3> QED BY <1>1, <1>3, ConcatProperties DEF a, b
  <2> QED BY <2>1, <1>1, <1>3
<1> DEFINE c == SubSeq(s, 1, k) \o <<e>>
           d == SubSeq(s, k + 1, Len(s))
<1>5. /\ c \o d \in Seq(S)
      /\ Len(c \o d) = Len(c) + Len(d)
      /\ \A i \in 1 .. Len(c) + Len(d) :
           (c \o d)[i] = IF i <= Len(c) THEN c[i] ELSE d[i - Len(c)]
  <2>1. c \in Seq(S) /\ d \in Seq(S)
    BY <1>4, <1>2
  <2> HIDE DEF c, d
  <2> QED BY <2>1, ConcatProperties
<1>6. Len(c) = k + 1 /\ Len(d) = Len(s) - k
  BY <1>4, <1>2
<1>7. With(s, k, e) = c \o d
  BY DEF With
<1>8. \A i \in 1 .. k + 1 : c[i] = IF i <= k THEN s[i] ELSE e
  BY <1>4
<1>9. \A i \in 1 .. Len(s) - k : d[i] = s[k + i]
  BY <1>2
<1> HIDE DEF c, d
<1>10. Len(s) \in Nat
  BY LenProperties
<1>11. Len(c \o d) = Len(s) + 1
  BY <1>5, <1>6, <1>10
<1>12. ASSUME NEW i \in 1 .. Len(s) + 1
       PROVE  (c \o d)[i] = IF i <= k THEN s[i] ELSE IF i = k + 1 THEN e ELSE s[i - 1]
  <2>1. (c \o d)[i] = IF i <= k + 1 THEN c[i] ELSE d[i - (k + 1)]
    BY <1>5, <1>6, <1>10, SMTT(30)
  <2>2. CASE i <= k + 1
    BY <2>1, <2>2, <1>8
  <2>3. CASE ~(i <= k + 1)
    <3>1. i - (k + 1) \in 1 .. Len(s) - k /\ k + (i - (k + 1)) = i - 1
      BY <2>3, <1>12, <1>10
    <3> QED BY <2>1, <2>3, <3>1, <1>9
  <2> QED BY <2>2, <2>3
<1> QED BY <1>5, <1>7, <1>11, <1>12 DEF IsWith

(* What a removal leaves where (DefaultRemoveTimeOut, DefaultRemoveInput). *)
LEMMA WithoutIs ==
    ASSUME NEW S, NEW s \in Seq(S), NEW k \in DOMAIN s
    PROVE  /\ Without(s, k) \in Seq(S)
           /\ Len(Without(s, k)) = Len(s) - 1
           /\ \A i \in 1 .. Len(s) - 1 :
                Without(s, k)[i] = IF i < k THEN s[i] ELSE s[i + 1]
<1> DEFINE a == SubSeq(s, 1, k - 1)
           b == SubSeq(s, k + 1, Len(s))
<1>0. k \in 1 .. Len(s) /\ Len(s) \in Nat
  BY LenProperties
<1>1. a \in Seq(S) /\ Len(a) = k - 1 /\ \A i \in 1 .. k - 1 : a[i] = s[i]
  <2>1. \A i \in 1 .. k - 1 : s[i] \in S
    BY <1>0, ElementOfSeq
  <2>2. /\ a \in Seq(S)
        /\ Len(a) = IF 1 <= k - 1 THEN k - 1 - 1 + 1 ELSE 0
        /\ \A i \in 1 .. k - 1 - 1 + 1 : a[i] = s[1 + i - 1]
    BY <2>1, <1>0, SubSeqProperties
  <2> QED BY <2>2, <1>0
<1>2. b \in Seq(S) /\ Len(b) = Len(s) - k /\ \A i \in 1 .. Len(s) - k : b[i] = s[k + i]
  <2>1. \A i \in k + 1 .. Len(s) : s[i] \in S
    BY <1>0, ElementOfSeq
  <2>2. /\ b \in Seq(S)
        /\ Len(b) = IF k + 1 <= Len(s) THEN Len(s) - (k + 1) + 1 ELSE 0
        /\ \A i \in 1 .. Len(s) - (k + 1) + 1 : b[i] = s[k + 1 + i - 1]
    BY <2>1, <1>0, SubSeqProperties
  <2> QED BY <2>2, <1>0
<1>3. Without(s, k) = a \o b
  BY DEF Without
<1> HIDE DEF a, b
<1>4. /\ a \o b \in Seq(S)
      /\ Len(a \o b) = Len(a) + Len(b)
      /\ \A i \in 1 .. Len(a) + Len(b) :
           (a \o b)[i] = IF i <= Len(a) THEN a[i] ELSE b[i - Len(a)]
  BY <1>1, <1>2, ConcatProperties
<1>5. Len(a \o b) = Len(s) - 1
  BY <1>0, <1>1, <1>2, <1>4
<1>6. ASSUME NEW i \in 1 .. Len(s) - 1
      PROVE  (a \o b)[i] = IF i < k THEN s[i] ELSE s[i + 1]
  <2>1. (a \o b)[i] = IF i <= k - 1 THEN a[i] ELSE b[i - (k - 1)]
    <3>1. Len(a) = k - 1 /\ Len(a) + Len(b) = Len(s) - 1
      BY <1>0, <1>1, <1>2
    <3> QED BY <3>1, <1>4
  <2>2. CASE i < k
    <3>1. i \in 1 .. k - 1
      BY <1>6, <1>0, <2>2
    <3> QED BY <2>1, <3>1, <1>0, <1>1
  <2>3. CASE ~(i < k)
    <3>1. i - (k - 1) \in 1 .. Len(s) - k /\ k + (i - (k - 1)) = i + 1
      BY <2>3, <1>0
    <3> QED BY <2>1, <2>3, <3>1, <1>0, <1>2, SMTT(60)
  <2> QED BY <2>2, <2>3
<1> QED BY <1>3, <1>4, <1>5, <1>6

(* The handles of a list after an insertion. *)
LEMMA IdsOfWith ==
    ASSUME NEW S, NEW s \in Seq(S), NEW k \in 0 .. Len(s), NEW e \in S
    PROVE  Ids(With(s, k, e)) = Ids(s) \cup {e.id}
<1> DEFINE w == With(s, k, e)
<1>0. IsWith(w, S, s, k, e)
  BY WithIs
<1> HIDE DEF w
<1>1. /\ w \in Seq(S) /\ Len(w) = Len(s) + 1
      /\ \A i \in 1 .. Len(s) + 1 :
           w[i] = IF i <= k THEN s[i] ELSE IF i = k + 1 THEN e ELSE s[i - 1]
  BY <1>0 DEF IsWith
<1>2. DOMAIN w = 1 .. Len(s) + 1 /\ DOMAIN s = 1 .. Len(s) /\ Len(s) \in Nat
  BY <1>1, LenProperties
<1>3. ASSUME NEW i \in DOMAIN w
      PROVE  w[i].id \in Ids(s) \cup {e.id}
  <2>1. CASE i <= k
    <3>1. w[i] = s[i] /\ i \in DOMAIN s
      BY <2>1, <1>1, <1>2
    <3> QED BY <3>1 DEF Ids
  <2>2. CASE i = k + 1
    <3>1. w[i] = e
      BY <2>2, <1>1, <1>2
    <3> QED BY <3>1
  <2>3. CASE ~(i <= k) /\ i # k + 1
    <3>1. w[i] = s[i - 1] /\ i - 1 \in DOMAIN s
      BY <2>3, <1>1, <1>2
    <3> QED BY <3>1 DEF Ids
  <2> QED BY <2>1, <2>2, <2>3
<1>4. Ids(s) \subseteq Ids(w)
  <2> SUFFICES ASSUME NEW j \in 1 .. Len(s) PROVE \E i \in DOMAIN w : w[i].id = s[j].id
    BY <1>2 DEF Ids
  <2>1. CASE j <= k
    BY <2>1, <1>1, <1>2
  <2>2. CASE ~(j <= k)
    <3>1. w[j + 1] = s[j] /\ j + 1 \in DOMAIN w
      BY <2>2, <1>1, <1>2
    <3> QED BY <3>1
  <2> QED BY <2>1, <2>2
<1>5. e.id \in Ids(w)
  <2>1. w[k + 1] = e /\ k + 1 \in DOMAIN w
    BY <1>1, <1>2
  <2> QED BY <2>1 DEF Ids
<1>6. Ids(w) \subseteq Ids(s) \cup {e.id}
  BY <1>3 DEF Ids
<1> QED BY <1>4, <1>5, <1>6 DEF w

(* The handles of a list after a removal: the others', and, since no two are  *)
(* the same, not the one removed.                                             *)
LEMMA IdsOfWithout ==
    ASSUME NEW S, NEW s \in Seq(S), NEW k \in DOMAIN s,
           \A i, j \in DOMAIN s : s[i].id = s[j].id => i = j
    PROVE  Ids(Without(s, k)) = Ids(s) \ {s[k].id}
<1> DEFINE w == Without(s, k)
<1>1. /\ w \in Seq(S) /\ Len(w) = Len(s) - 1
      /\ \A i \in 1 .. Len(s) - 1 : w[i] = IF i < k THEN s[i] ELSE s[i + 1]
  BY WithoutIs
<1>2. DOMAIN w = 1 .. Len(s) - 1 /\ DOMAIN s = 1 .. Len(s) /\ Len(s) \in Nat /\ k \in 1 .. Len(s)
  BY <1>1, LenProperties
<1> HIDE DEF w
<1>3. ASSUME NEW i \in DOMAIN w
      PROVE  w[i].id \in Ids(s) \ {s[k].id}
  <2>1. CASE i < k
    <3>1. w[i] = s[i] /\ i \in DOMAIN s /\ i # k
      BY <2>1, <1>1, <1>2
    <3> QED BY <3>1, <1>2 DEF Ids
  <2>2. CASE ~(i < k)
    <3>1. w[i] = s[i + 1] /\ i + 1 \in DOMAIN s /\ i + 1 # k
      BY <2>2, <1>1, <1>2
    <3> QED BY <3>1, <1>2 DEF Ids
  <2> QED BY <2>1, <2>2
<1>4. ASSUME NEW j \in DOMAIN s, s[j].id # s[k].id
      PROVE  \E i \in DOMAIN w : w[i].id = s[j].id
  <2>1. j # k
    BY <1>4
  <2>2. CASE j < k
    <3>1. w[j] = s[j] /\ j \in DOMAIN w
      BY <2>2, <1>1, <1>2
    <3> QED BY <3>1
  <2>3. CASE ~(j < k)
    <3>1. w[j - 1] = s[j] /\ j - 1 \in DOMAIN w
      BY <2>1, <2>3, <1>1, <1>2, SMTT(30)
    <3> QED BY <3>1
  <2> QED BY <2>2, <2>3
<1> QED BY <1>3, <1>4 DEF Ids, w

-----------------------------------------------------------------------------
(* The stack. *)

(* What SetTop puts where. *)
LEMMA SetTopIs ==
    ASSUME TypeOK, frames # <<>>, NEW f \in Frame
    PROVE  /\ Len(frames) \in Nat /\ Len(frames) > 0 /\ DOMAIN frames = 1 .. Len(frames)
           /\ Len(frames) \in 1 .. Len(frames)
           /\ Top \in Frame /\ SetTop(f) # <<>>
           /\ SetTop(f) \in Seq(Frame) /\ Len(SetTop(f)) = Len(frames)
           /\ DOMAIN SetTop(f) = 1 .. Len(frames)
           /\ SetTop(f)[Len(frames)] = f
           /\ \A n \in 1 .. Len(frames) : n # Len(frames) => SetTop(f)[n] = frames[n]
<1>1. frames \in Seq(Frame)
  BY DEF TypeOK
<1>2. Len(frames) \in Nat /\ Len(frames) > 0 /\ DOMAIN frames = 1 .. Len(frames)
  BY <1>1, EmptySeq, LenProperties
<1>3. Top \in Frame
  BY <1>1, <1>2, ElementOfSeq DEF Top
<1>4. Len(frames) \in 1 .. Len(frames)
  BY <1>2
<1>5. /\ SetTop(f) \in Seq(Frame) /\ Len(SetTop(f)) = Len(frames)
      /\ \A n \in 1 .. Len(frames) :
           SetTop(f)[n] = IF n = Len(frames) THEN f ELSE frames[n]
  BY <1>1, <1>4, ExceptSeq DEF SetTop
<1>6. DOMAIN SetTop(f) = 1 .. Len(SetTop(f))
  BY <1>5, LenProperties
<1>7. SetTop(f) # <<>>
  <2>1. Len(SetTop(f)) = Len(frames)
    BY <1>5
  <2>2. Len(frames) # 0
    BY <1>2
  <2>3. Len(<<>>) = 0
    BY EmptySeq, SMTT(30)
  <2> QED BY <2>1, <2>2, <2>3
<1> QED BY <1>2, <1>3, <1>4, <1>5, <1>6, <1>7, Zenon

(* The call on top moves and stays in the handler of its timer, or in none. *)
LEMMA TopMoves ==
    ASSUME TypeOK, Stacked, frames # <<>>, NEW f \in Frame,
           f.timer = Top.timer, f.timer # Null => f.phase = "called",
           frames' = SetTop(f)
    PROVE  /\ Stacked' /\ InPlay' = InPlay
           /\ frames' \in Seq(Frame) /\ Len(frames') = Len(frames) /\ frames' # <<>>
           /\ Top' = f
<1>1. /\ Len(frames) \in Nat /\ Len(frames) > 0 /\ DOMAIN frames = 1 .. Len(frames)
      /\ frames' \in Seq(Frame) /\ Len(frames') = Len(frames)
      /\ DOMAIN frames' = 1 .. Len(frames)
      /\ frames'[Len(frames)] = f
      /\ \A n \in 1 .. Len(frames) : n # Len(frames) => frames'[n] = frames[n]
  BY SetTopIs, SMTT(30)
<1>2. \A n \in 1 .. Len(frames) : frames'[n].timer = frames[n].timer
  BY <1>1, Zenon DEF Top
<1>3. Stacked'
  <2>1. ASSUME NEW n \in DOMAIN frames', n # Len(frames')
        PROVE  frames'[n].timer # Null
    BY <2>1, <1>1, <1>2, Zenon DEF Stacked
  <2>2. ASSUME NEW n \in DOMAIN frames', frames'[n].timer # Null
        PROVE  frames'[n].phase = "called"
    <3>1. CASE n = Len(frames)
      BY <2>2, <3>1, <1>1
    <3>2. CASE n # Len(frames)
      BY <2>2, <3>2, <1>1, Zenon DEF Stacked
    <3> QED BY <3>1, <3>2
  <2>3. ASSUME NEW m \in DOMAIN frames', NEW n \in DOMAIN frames',
               frames'[m].timer = frames'[n].timer, frames'[m].timer # Null
        PROVE  m = n
    BY <2>3, <1>1, <1>2, Zenon DEF Stacked
  <2> QED BY <2>1, <2>2, <2>3, SMTT(30) DEF Stacked
<1>4. InPlay' = InPlay
  <2> DEFINE Set(fs) == {fs[i].timer : i \in DOMAIN fs}
  <2>1. DOMAIN frames' = DOMAIN frames
    BY <1>1, Zenon
  <2>2. ASSUME NEW n \in DOMAIN frames
        PROVE  frames'[n].timer = frames[n].timer
    BY <1>1, <1>2, Zenon
  <2>3. Set(frames') = Set(frames)
    BY <2>1, <2>2
  <2> QED BY <2>3 DEF InPlay
<1>5. frames' # <<>>
  BY SetTopIs
<1> QED BY <1>1, <1>3, <1>4, <1>5, Zenon DEF Top

(* What a walk needs is true of the call on top. *)
Valid(f) ==
    /\ f.phase = "inputs" => f.ip \in Ids(inputs) \cup {Null}
    /\ f.phase = "called" /\ f.timer = Null /\ ~inputs_changed
       => f.ip \in Ids(inputs) /\ f.next = NextOf(f.ip)

(* The calls below the top walk nothing. *)
LEMMA ValidOnTop ==
    ASSUME frames' \in Seq(Frame), Stacked', frames' # <<>> => Valid(Top)'
    PROVE  WalkValid'
<1> SUFFICES ASSUME NEW n \in DOMAIN frames' PROVE Valid(frames[n])'
  BY DEF WalkValid, Valid
<1>1. CASE n = Len(frames')
  <2>1. frames' # <<>>
    OBVIOUS
  <2> QED BY <1>1, <2>1 DEF Top, Valid
<1>2. CASE n # Len(frames')
  BY <1>2 DEF Stacked, Valid
<1> QED BY <1>1, <1>2

(* What the walk on top finds. *)
LEMMA TopValid ==
    ASSUME TypeOK, WalkValid, frames # <<>>
    PROVE  Valid(Top)
<1>1. Len(frames) \in DOMAIN frames
  BY SetTopIs, EmptySeq, LenProperties DEF TypeOK
<1> QED BY <1>1 DEF WalkValid, Valid, Top

-----------------------------------------------------------------------------
(* The steps.  What each does to the promise is a step of Timers, or none.    *)

TimersStep == Abstract!Next \/ UNCHANGED <<Ids(timeouts), InPlay>>

(* A step of the call on top that leaves the lists alone. *)
LEMMA MoveKeeps ==
    ASSUME IInv, frames # <<>>, NEW f \in Frame,
           f.timer = Top.timer, f.timer # Null => f.phase = "called",
           frames' = SetTop(f),
           UNCHANGED <<now, timeouts, inputs, changes>>,
           inputs_changed' \in BOOLEAN,
           Valid(f)'
    PROVE  IInv' /\ TimersStep
<1>0. TypeOK /\ Stacked /\ WalkValid /\ Sorted
  BY DEF IInv, ListsConsistent
<1>1. /\ Stacked' /\ InPlay' = InPlay
      /\ frames' \in Seq(Frame) /\ Len(frames') = Len(frames) /\ frames' # <<>>
      /\ Top' = f
  BY <1>0, TopMoves
<1>2. Ids(timeouts)' = Ids(timeouts)
  OBVIOUS
<1>3. TypeOK'
  BY <1>0, <1>1, <1>2 DEF TypeOK
<1>4. Sorted'
  BY <1>0 DEF Sorted
<1>5. Valid(Top)'
  BY <1>1 DEF Valid
<1>6. WalkValid'
  BY <1>1, <1>5, ValidOnTop
<1> QED BY <1>1, <1>2, <1>3, <1>4, <1>6 DEF IInv, ListsConsistent, TimersStep

(* A call that is in no handler of a timer returns. *)
LEMMA ReturnKeeps ==
    ASSUME IInv, frames # <<>>, Top.timer = Null, Return,
           UNCHANGED <<now, timeouts, inputs, inputs_changed, changes>>
    PROVE  IInv' /\ TimersStep
<1>0. TypeOK /\ Stacked /\ WalkValid /\ Sorted
  BY DEF IInv, ListsConsistent
<1> DEFINE L == Len(frames)
<1>1. frames \in Seq(Frame) /\ L \in Nat /\ L > 0 /\ DOMAIN frames = 1 .. L
  BY <1>0, EmptySeq, LenProperties DEF TypeOK
<1>2. /\ frames' \in Seq(Frame) /\ Len(frames') = L - 1
      /\ \A n \in 1 .. L - 1 : frames'[n] = frames[n]
  <2>1. \A n \in 1 .. L - 1 : frames[n] \in Frame
    BY <1>1, ElementOfSeq
  <2>2. /\ SubSeq(frames, 1, L - 1) \in Seq(Frame)
        /\ Len(SubSeq(frames, 1, L - 1)) = IF 1 <= L - 1 THEN L - 1 - 1 + 1 ELSE 0
        /\ \A n \in 1 .. L - 1 - 1 + 1 : SubSeq(frames, 1, L - 1)[n] = frames[1 + n - 1]
    BY <1>1, <2>1, SubSeqProperties
  <2> QED BY <1>1, <2>2 DEF Return
<1>3. DOMAIN frames' = 1 .. L - 1
  BY <1>2, LenProperties
<1>4. ASSUME NEW n \in DOMAIN frames'
      PROVE  n \in DOMAIN frames /\ n # L /\ frames'[n] = frames[n]
  BY <1>1, <1>2, <1>3
<1>5. Stacked'
  BY <1>0, <1>4 DEF Stacked
<1>6. InPlay' = InPlay
  <2>1. InPlay' \subseteq InPlay
    BY <1>4 DEF InPlay
  <2>2. ASSUME NEW n \in DOMAIN frames, frames[n].timer # Null
        PROVE  n \in DOMAIN frames' /\ frames'[n].timer = frames[n].timer
    <3>1. n # L
      BY <2>2 DEF Top
    <3> QED BY <3>1, <1>1, <1>2, <1>3
  <2>3. InPlay \subseteq InPlay'
    BY <2>2 DEF InPlay
  <2> QED BY <2>1, <2>3
<1>7. Ids(timeouts)' = Ids(timeouts)
  OBVIOUS
<1>8. TypeOK'
  <2>1. Len(frames') <= MaxDepth
    BY <1>0, <1>1, <1>2, EventLoopAssumption DEF TypeOK
  <2> QED BY <2>1, <1>0, <1>2, <1>6, <1>7 DEF TypeOK
<1>9. Sorted'
  BY <1>0 DEF Sorted
<1>10. ASSUME frames' # <<>>
       PROVE  Valid(Top)'
  <2>1. Len(frames') \in DOMAIN frames'
    BY <1>10, <1>2, <1>3, <1>1, EmptySeq
  <2>2. frames'[Len(frames')].timer # Null /\ frames'[Len(frames')].phase = "called"
    BY <2>1, <1>4, <1>0 DEF Stacked
  <2> QED BY <2>2 DEF Top, Valid
<1>11. WalkValid'
  BY <1>2, <1>5, <1>10, ValidOnTop
<1> QED BY <1>5, <1>6, <1>7, <1>8, <1>9, <1>11 DEF IInv, ListsConsistent, TimersStep

(* Code that changes the lists leaves the stack alone. *)
LEMMA CodeKeeps ==
    ASSUME IInv, CodeRuns, UNCHANGED frames,
           (UNCHANGED <<inputs, inputs_changed>>) \/ inputs_changed' = TRUE
    PROVE  Stacked' /\ InPlay' = InPlay /\ WalkValid'
<1>0. TypeOK /\ Stacked /\ WalkValid
  BY DEF IInv, ListsConsistent
<1>1. Stacked' /\ InPlay' = InPlay
  BY <1>0 DEF Stacked, InPlay
<1>2. ASSUME frames # <<>>
      PROVE  Valid(Top)'
  <2>1. Valid(Top)
    BY <1>0, <1>2, TopValid
  <2>2. Top.phase = "called" /\ Top' = Top
    BY <1>2 DEF CodeRuns, Top
  <2>3. CASE UNCHANGED <<inputs, inputs_changed>>
    <3>1. NextOf(Top.ip)' = NextOf(Top.ip) /\ Ids(inputs)' = Ids(inputs)
      BY <2>2, <2>3 DEF NextOf
    <3> QED BY <2>1, <2>2, <2>3, <3>1 DEF Valid
  <2>4. CASE inputs_changed' = TRUE
    BY <2>2, <2>4 DEF Valid
  <2> QED BY <2>3, <2>4
<1>3. WalkValid'
  BY <1>0, <1>1, <1>2, ValidOnTop DEF TypeOK
<1> QED BY <1>1, <1>3

(* A new timeout is in its place, and armed.                                 *)
LEMMA AddTimeOutKeeps ==
    ASSUME IInv, NEW t \in Timer, NEW interval \in 0 .. MaxTime,
           DefaultAddTimeOut(t, interval)
    PROVE  IInv' /\ TimersStep
<1> DEFINE at == now + interval
           e  == [id |-> t, at |-> at]
<1>0. TypeOK /\ Sorted
  BY DEF IInv, ListsConsistent
<1>1. Stacked' /\ InPlay' = InPlay /\ WalkValid'
  BY CodeKeeps DEF DefaultAddTimeOut
<1>2. PICK k \in 0 .. Len(timeouts) : Place(k, at) /\ timeouts' = With(timeouts, k, e)
  BY DEF DefaultAddTimeOut, With
<1>3. timeouts \in Seq(Timeout) /\ Len(timeouts) \in Nat /\ DOMAIN timeouts = 1 .. Len(timeouts)
  BY <1>0, LenProperties DEF TypeOK
<1>4. at \in 0 .. MaxTime /\ now \in Nat
  BY <1>0, EventLoopAssumption DEF DefaultAddTimeOut, TypeOK
<1>5. e \in Timeout /\ e.id = t /\ e.at = at
  BY <1>4 DEF Timeout
<1> HIDE DEF e, at
<1>6. /\ timeouts' \in Seq(Timeout) /\ Len(timeouts') = Len(timeouts) + 1
      /\ \A i \in 1 .. Len(timeouts) + 1 :
           timeouts'[i] = IF i <= k THEN timeouts[i] ELSE IF i = k + 1 THEN e ELSE timeouts[i - 1]
  <2>1. timeouts \in Seq(Timeout) /\ e \in Timeout
    BY <1>3, <1>5
  <2>2. IsWith(With(timeouts, k, e), Timeout, timeouts, k, e)
    BY <2>1, WithIs
  <2> QED BY <2>2, <1>2 DEF IsWith
<1>7. DOMAIN timeouts' = 1 .. Len(timeouts) + 1
  BY <1>6, LenProperties
<1>8. Ids(timeouts)' = Ids(timeouts) \cup {t}
  BY <1>2, <1>3, <1>5, IdsOfWith
<1>9. t \notin Ids(timeouts) \cup InPlay
  BY DEF DefaultAddTimeOut
<1>10. ASSUME NEW i \in DOMAIN timeouts', NEW j \in DOMAIN timeouts',
              timeouts'[i].id = timeouts'[j].id
       PROVE  i = j
  <2> DEFINE Old(n) == IF n <= k THEN n ELSE n - 1
  <2>1. ASSUME NEW n \in DOMAIN timeouts', n # k + 1
        PROVE  Old(n) \in DOMAIN timeouts /\ timeouts'[n] = timeouts[Old(n)]
    BY <2>1, <1>3, <1>6, <1>7
  <2>2. timeouts'[k + 1] = e
    BY <1>3, <1>6
  <2>3. ASSUME NEW n \in DOMAIN timeouts', n # k + 1
        PROVE  timeouts'[n].id # t
    BY <2>1, <2>3, <1>9 DEF Ids
  <2>4. CASE i = k + 1 \/ j = k + 1
    BY <2>2, <2>3, <2>4, <1>5, <1>10
  <2>5. CASE i # k + 1 /\ j # k + 1
    <3>1. Old(i) = Old(j)
      BY <2>1, <2>5, <1>0, <1>10 DEF TypeOK
    <3>2. i \in Int /\ j \in Int /\ k \in Int
      BY <1>7, <1>3
    <3> QED BY <3>1, <3>2, <2>5
  <2> QED BY <2>4, <2>5
<1>11. TypeOK'
  BY <1>0, <1>1, <1>6, <1>8, <1>9, <1>10 DEF TypeOK, DefaultAddTimeOut
<1>12. Sorted'
  <2> SUFFICES ASSUME NEW i \in DOMAIN timeouts', NEW j \in DOMAIN timeouts', i < j
               PROVE  timeouts'[i].at <= timeouts'[j].at
    BY DEF Sorted
  <2>1. \A n \in DOMAIN timeouts : timeouts[n].at \in Nat
    <3> SUFFICES ASSUME NEW n \in DOMAIN timeouts PROVE timeouts[n].at \in Nat
      OBVIOUS
    <3>1. timeouts[n] \in Timeout
      BY <1>3, ElementOfSeq
    <3> QED BY <3>1, EventLoopAssumption DEF Timeout
  <2>2. \A n \in 1 .. k : timeouts[n].at <= at
    BY <1>2 DEF Place
  <2>3. ASSUME NEW n \in k + 1 .. Len(timeouts)
        PROVE  at <= timeouts[n].at
    <3>1. k + 1 \in DOMAIN timeouts /\ n \in DOMAIN timeouts /\ k < Len(timeouts)
      BY <1>3, <2>3
    <3>2. timeouts[k + 1].at > at
      BY <1>2, <3>1 DEF Place
    <3>3. timeouts[k + 1].at <= timeouts[n].at
      BY <3>1, <1>0, <2>1 DEF Sorted
    <3> QED BY <3>1, <3>2, <3>3, <2>1, <1>4
  <2>4. CASE j <= k
    BY <2>4, <1>0, <1>3, <1>6, <1>7 DEF Sorted
  <2>5. CASE j = k + 1
    BY <2>5, <2>2, <1>3, <1>5, <1>6, <1>7
  <2>6. CASE j > k + 1
    <3>1. timeouts'[j] = timeouts[j - 1] /\ j - 1 \in k + 1 .. Len(timeouts)
      BY <2>6, <1>3, <1>6, <1>7
    <3>2. CASE i <= k
      <4>1. timeouts'[i] = timeouts[i] /\ i \in DOMAIN timeouts /\ i < j - 1
        BY <2>6, <3>2, <1>3, <1>6, <1>7
      <4> QED BY <3>1, <4>1, <1>0, <1>3 DEF Sorted
    <3>3. CASE i = k + 1
      <4>1. timeouts'[i] = e
        BY <3>3, <1>3, <1>6
      <4> QED BY <3>1, <4>1, <2>3, <1>5
    <3>4. CASE i > k + 1
      <4>1. timeouts'[i] = timeouts[i - 1] /\ i - 1 \in DOMAIN timeouts /\ i - 1 < j - 1
        BY <3>4, <1>3, <1>6, <1>7
      <4> QED BY <3>1, <4>1, <1>0, <1>3 DEF Sorted
    <3>5. i \in Int /\ k \in Int
      BY <1>7, <1>3
    <3> QED BY <3>2, <3>3, <3>4, <3>5
  <2>7. j \in Int /\ k \in Int
    BY <1>7, <1>3
  <2> QED BY <2>4, <2>5, <2>6, <2>7
<1>13. Abstract!Arm(t)
  BY <1>1, <1>8, <1>9 DEF Abstract!Arm
<1> QED BY <1>1, <1>11, <1>12, <1>13 DEF IInv, ListsConsistent, TimersStep, Abstract!Next

(* A timeout that is removed is armed no more; one in play is left alone.    *)
LEMMA RemoveTimeOutKeeps ==
    ASSUME IInv, NEW t \in Timer, DefaultRemoveTimeOut(t)
    PROVE  IInv' /\ TimersStep
<1>0. TypeOK /\ Sorted
  BY DEF IInv, ListsConsistent
<1>1. Stacked' /\ InPlay' = InPlay /\ WalkValid'
  BY CodeKeeps DEF DefaultRemoveTimeOut
<1>2. CASE UNCHANGED timeouts
  <2>1. Ids(timeouts)' = Ids(timeouts)
    BY <1>2
  <2>2. TypeOK' /\ Sorted'
    BY <1>0, <1>1, <1>2, <2>1 DEF TypeOK, Sorted, DefaultRemoveTimeOut
  <2> QED BY <1>1, <2>1, <2>2 DEF IInv, ListsConsistent, TimersStep
<1>3. CASE \E k \in DOMAIN timeouts : timeouts[k].id = t /\ timeouts' = Without(timeouts, k)
  <2>1. PICK k \in DOMAIN timeouts : timeouts[k].id = t /\ timeouts' = Without(timeouts, k)
    BY <1>3
  <2>2. timeouts \in Seq(Timeout) /\ Len(timeouts) \in Nat /\ DOMAIN timeouts = 1 .. Len(timeouts)
    BY <1>0, LenProperties, SMTT(30) DEF TypeOK
  <2>3. /\ timeouts' \in Seq(Timeout) /\ Len(timeouts') = Len(timeouts) - 1
        /\ \A i \in 1 .. Len(timeouts) - 1 :
             timeouts'[i] = IF i < k THEN timeouts[i] ELSE timeouts[i + 1]
    BY <2>1, <2>2, WithoutIs, Zenon
  <2>4. DOMAIN timeouts' = 1 .. Len(timeouts) - 1
    BY <2>3, LenProperties
  <2>5. Ids(timeouts)' = Ids(timeouts) \ {t}
    BY <1>0, <2>1, <2>2, IdsOfWithout DEF TypeOK
  <2> DEFINE Old(n) == IF n < k THEN n ELSE n + 1
  <2>6. ASSUME NEW n \in DOMAIN timeouts'
        PROVE  Old(n) \in DOMAIN timeouts /\ timeouts'[n] = timeouts[Old(n)]
    BY <2>2, <2>3, <2>4
  <2>7. ASSUME NEW i \in DOMAIN timeouts', NEW j \in DOMAIN timeouts',
               timeouts'[i].id = timeouts'[j].id
        PROVE  i = j
    <3>1. Old(i) = Old(j)
      BY <2>6, <2>7, <1>0 DEF TypeOK
    <3>2. i \in Int /\ j \in Int /\ k \in Int
      BY <2>2, <2>4
    <3> QED BY <3>1, <3>2
  <2>8. TypeOK'
    BY <1>0, <1>1, <2>3, <2>5, <2>7 DEF TypeOK, DefaultRemoveTimeOut
  <2>9. ASSUME NEW i \in DOMAIN timeouts', NEW j \in DOMAIN timeouts', i < j
        PROVE  timeouts'[i].at <= timeouts'[j].at
    <3>1. i \in Int /\ j \in Int /\ k \in Int
      BY <2>2, <2>4
    <3>2. Old(i) < Old(j)
      BY <2>9, <3>1
    <3> QED BY <3>2, <2>6, <1>0 DEF Sorted
  <2>10. Sorted'
    BY <2>9 DEF Sorted
  <2>11. Abstract!Remove(t)
    <3>1. t \in Ids(timeouts)
      BY <2>1 DEF Ids
    <3> QED BY <3>1, <1>1, <2>5 DEF Abstract!Remove
  <2> QED BY <1>1, <2>8, <2>10, <2>11 DEF IInv, ListsConsistent, TimersStep, Abstract!Next
<1> QED BY <1>2, <1>3 DEF DefaultRemoveTimeOut

(* The list of inputs changes. *)
LEMMA InputsKeep ==
    ASSUME IInv, CodeRuns, UNCHANGED <<now, timeouts, frames>>,
           inputs' \in Seq(Source), inputs_changed' = TRUE,
           changes' \in 0 .. MaxChanges
    PROVE  IInv' /\ TimersStep
<1>0. TypeOK /\ Sorted
  BY DEF IInv, ListsConsistent
<1>1. Stacked' /\ InPlay' = InPlay /\ WalkValid'
  BY CodeKeeps
<1>2. Ids(timeouts)' = Ids(timeouts)
  OBVIOUS
<1>3. TypeOK' /\ Sorted'
  BY <1>0, <1>1, <1>2 DEF TypeOK, Sorted
<1> QED BY <1>1, <1>2, <1>3 DEF IInv, ListsConsistent, TimersStep

(* A new input is the first of the list.                                     *)
LEMMA AddInputKeeps ==
    ASSUME IInv, NEW i \in Input, NEW w \in What, DefaultAddInput(i, w)
    PROVE  IInv' /\ TimersStep
<1> DEFINE e == [id |-> i, what |-> w]
<1>1. inputs \in Seq(Source) /\ e \in Source /\ changes \in 0 .. MaxChanges
  BY DEF IInv, ListsConsistent, TypeOK, Source
<1>2. <<e>> \o inputs \in Seq(Source)
  <2>1. <<e>> \in Seq(Source)
    BY <1>1
  <2> HIDE DEF e
  <2> QED BY <1>1, <2>1, ConcatProperties
<1>3. changes' \in 0 .. MaxChanges
  BY <1>1, EventLoopAssumption DEF DefaultAddInput
<1> QED BY <1>2, <1>3, InputsKeep DEF DefaultAddInput

(* An input is taken out of the list.                                        *)
LEMMA RemoveInputKeeps ==
    ASSUME IInv, NEW i \in Input, DefaultRemoveInput(i)
    PROVE  IInv' /\ TimersStep
<1>1. inputs \in Seq(Source) /\ changes \in 0 .. MaxChanges
  BY DEF IInv, ListsConsistent, TypeOK
<1>2. PICK k \in DOMAIN inputs : inputs' = Without(inputs, k)
  BY DEF DefaultRemoveInput
<1>3. inputs' \in Seq(Source)
  BY <1>1, <1>2, WithoutIs
<1>4. changes' \in 0 .. MaxChanges
  BY <1>1, EventLoopAssumption DEF DefaultRemoveInput
<1> QED BY <1>3, <1>4, InputsKeep DEF DefaultRemoveInput

(* The loop is called, by the program or by the handler of a timer. *)
LEMMA CallKeeps ==
    ASSUME IInv, NEW block \in BOOLEAN, CallProcessEvents(block)
    PROVE  IInv' /\ TimersStep
<1>0. TypeOK /\ Stacked /\ WalkValid /\ Sorted
  BY DEF IInv, ListsConsistent
<1> DEFINE new == NewFrame(block)
           fs  == IF frames = <<>> THEN frames ELSE SetTop([Top EXCEPT !.nested = TRUE])
           L   == Len(frames)
<1>1. new \in Frame /\ new.timer = Null /\ new.phase = "select"
  BY EventLoopAssumption DEF NewFrame, Frame
<1>2. /\ frames \in Seq(Frame) /\ L \in Nat /\ DOMAIN frames = 1 .. L
      /\ frames # <<>> => L > 0
  BY <1>0, EmptySeq, LenProperties DEF TypeOK
<1>3. /\ fs \in Seq(Frame) /\ Len(fs) = L /\ DOMAIN fs = 1 .. L
      /\ \A n \in 1 .. L : fs[n].timer = frames[n].timer /\ fs[n].phase = frames[n].phase
  <2>1. CASE frames = <<>>
    BY <2>1, <1>2
  <2>2. CASE frames # <<>>
    <3> DEFINE f == [Top EXCEPT !.nested = TRUE]
    <3>1. Top \in Frame /\ L \in 1 .. L /\ frames[L] = Top
      BY <2>2, <1>2, ElementOfSeq DEF Top
    <3>2. f \in Frame /\ f.timer = Top.timer /\ f.phase = Top.phase
      BY <3>1 DEF Frame
    <3> HIDE DEF f
    <3>3. /\ SetTop(f) \in Seq(Frame) /\ Len(SetTop(f)) = L /\ DOMAIN SetTop(f) = 1 .. L
          /\ SetTop(f)[L] = f
          /\ \A n \in 1 .. L : n # L => SetTop(f)[n] = frames[n]
      BY <1>0, <2>2, <3>2, SetTopIs
    <3>4. \A n \in 1 .. L : /\ SetTop(f)[n].timer = frames[n].timer
                            /\ SetTop(f)[n].phase = frames[n].phase
      BY <3>1, <3>2, <3>3, Zenon
    <3>5. fs = SetTop(f)
      BY <2>2 DEF f
    <3> QED BY <3>3, <3>4, <3>5
  <2> QED BY <2>1, <2>2
<1>4. frames' = Append(fs, new)
  BY DEF CallProcessEvents
<1> HIDE DEF fs, new
<1>5. /\ frames' \in Seq(Frame) /\ Len(frames') = L + 1
      /\ \A n \in 1 .. L : frames'[n] = fs[n]
      /\ frames'[L + 1] = new
  BY <1>1, <1>3, <1>4, AppendProperties
<1>6. DOMAIN frames' = 1 .. L + 1
  BY <1>5, LenProperties
<1>7. \A n \in 1 .. L : /\ frames'[n].timer = frames[n].timer
                        /\ frames'[n].phase = frames[n].phase
  BY <1>3, <1>5
<1>8. frames # <<>> => frames[L].timer # Null
  BY DEF CallProcessEvents, Top
<1>9. \A n \in DOMAIN frames' : n = L + 1 \/ n \in 1 .. L
  BY <1>2, <1>6
<1>10. Stacked'
  <2>1. ASSUME NEW n \in DOMAIN frames', n # L + 1
        PROVE  frames'[n].timer # Null
    <3>1. n \in 1 .. L /\ n \in DOMAIN frames
      BY <2>1, <1>2, <1>9
    <3>2. CASE n = L
      <4>1. frames # <<>>
        BY <3>1, <1>2
      <4> QED BY <3>1, <3>2, <4>1, <1>7, <1>8
    <3>3. CASE n # L
      BY <3>1, <3>3, <1>0, <1>7 DEF Stacked
    <3> QED BY <3>2, <3>3
  <2>2. ASSUME NEW n \in DOMAIN frames', frames'[n].timer # Null
        PROVE  frames'[n].phase = "called" /\ n \in 1 .. L
    <3>1. n \in 1 .. L /\ n \in DOMAIN frames
      BY <2>2, <1>1, <1>2, <1>5, <1>9
    <3> QED BY <2>2, <3>1, <1>0, <1>7 DEF Stacked
  <2>3. ASSUME NEW m \in DOMAIN frames', NEW n \in DOMAIN frames',
               frames'[m].timer = frames'[n].timer, frames'[m].timer # Null
        PROVE  m = n
    <3>1. m \in 1 .. L /\ n \in 1 .. L
      BY <2>2, <2>3
    <3> QED BY <2>3, <3>1, <1>0, <1>2, <1>7 DEF Stacked
  <2> QED BY <2>1, <2>2, <2>3, <1>5 DEF Stacked
<1>11. InPlay' = InPlay
  <2>1. ASSUME NEW n \in DOMAIN frames', frames'[n].timer # Null
        PROVE  n \in DOMAIN frames /\ frames'[n].timer = frames[n].timer
    BY <2>1, <1>1, <1>2, <1>5, <1>7, <1>9
  <2>2. ASSUME NEW n \in DOMAIN frames
        PROVE  n \in DOMAIN frames' /\ frames'[n].timer = frames[n].timer
    BY <1>2, <1>6, <1>7
  <2>3. InPlay' \subseteq InPlay
    BY <2>1 DEF InPlay
  <2>4. InPlay \subseteq InPlay'
    BY <2>2 DEF InPlay
  <2> QED BY <2>3, <2>4
<1>12. UNCHANGED <<now, timeouts, inputs, inputs_changed, changes>>
  BY DEF CallProcessEvents
<1>13. Ids(timeouts)' = Ids(timeouts)
  BY <1>12
<1>14. TypeOK'
  <2>1. Len(frames') <= MaxDepth
    BY <1>2, <1>5, EventLoopAssumption DEF CallProcessEvents
  <2> QED BY <2>1, <1>0, <1>5, <1>11, <1>12, <1>13 DEF TypeOK
<1>15. Sorted'
  BY <1>0, <1>12 DEF Sorted
<1>16. Valid(Top)'
  BY <1>1, <1>5 DEF Top, Valid
<1>17. WalkValid'
  BY <1>5, <1>10, <1>16, ValidOnTop
<1> QED BY <1>10, <1>11, <1>13, <1>14, <1>15, <1>17 DEF IInv, ListsConsistent, TimersStep

(* The call on top, and what it may hold. *)
LEMMA TopIs ==
    ASSUME IInv, frames # <<>>
    PROVE  /\ Top \in Frame /\ Valid(Top)
           /\ Top.timer # Null => Top.phase = "called"
<1>1. TypeOK /\ Stacked /\ WalkValid
  BY DEF IInv, ListsConsistent
<1>2. frames \in Seq(Frame) /\ Len(frames) \in 1 .. Len(frames) /\ DOMAIN frames = 1 .. Len(frames)
  BY <1>1, EmptySeq, LenProperties DEF TypeOK
<1>3. Top \in Frame
  BY <1>2, ElementOfSeq DEF Top
<1>4. Valid(Top)
  BY <1>1, TopValid
<1> QED BY <1>1, <1>2, <1>3, <1>4 DEF Stacked, Top

(* The input behind one of the list is in the list, or none is. *)
LEMMA NextIsListed ==
    ASSUME TypeOK, NEW i \in Ids(inputs)
    PROVE  /\ NextOf(i) \in Ids(inputs) \cup {Null}
           /\ NextOf(i) \in Input \cup {Null}
<1>1. inputs \in Seq(Source) /\ DOMAIN inputs = 1 .. Len(inputs) /\ Len(inputs) \in Nat
  BY LenProperties DEF TypeOK
<1> DEFINE k == CHOOSE n \in DOMAIN inputs : inputs[n].id = i
<1>2. k \in DOMAIN inputs
  BY DEF Ids
<1>3. NextOf(i) = IF k = Len(inputs) THEN Null ELSE inputs[k + 1].id
  BY DEF NextOf
<1> HIDE DEF k
<1>4. CASE k # Len(inputs)
  <2>1. k + 1 \in DOMAIN inputs
    BY <1>1, <1>2, <1>4
  <2>2. inputs[k + 1] \in Source
    BY <1>1, <2>1, ElementOfSeq
  <2> QED BY <1>3, <1>4, <2>1, <2>2 DEF Ids, Source
<1> QED BY <1>3, <1>4

(* So is the first. *)
LEMMA FirstIsListed ==
    ASSUME TypeOK
    PROVE  /\ First \in Ids(inputs) \cup {Null}
           /\ First \in Input \cup {Null}
<1>1. CASE inputs # <<>>
  <2>1. inputs \in Seq(Source) /\ 1 \in DOMAIN inputs /\ Head(inputs) = inputs[1]
    BY <1>1, EmptySeq, LenProperties, HeadTailProperties DEF TypeOK
  <2>2. inputs[1] \in Source
    BY <2>1, LenProperties, ElementOfSeq
  <2> QED BY <1>1, <2>1, <2>2 DEF First, Ids, Source
<1> QED BY <1>1 DEF First

(* A walk begins at the first input of the list.                             *)
LEMMA SelectKeeps ==
    ASSUME IInv, Select
    PROVE  IInv' /\ TimersStep
<1>1. frames # <<>> /\ Top.phase = "select"
  BY DEF Select, InPhase
<1>2. PICK ready \in SUBSET Waited :
        frames' = SetTop([Top EXCEPT !.phase = "inputs", !.ready = ready, !.ip = First])
  BY DEF Select
<1>3. PICK f : f = [Top EXCEPT !.phase = "inputs", !.ready = ready, !.ip = First]
  OBVIOUS
<1>4. Top \in Frame /\ Top.timer = Null
  BY <1>1, TopIs
<1>5. Waited \subseteq What
  <2> SUFFICES ASSUME NEW n \in DOMAIN inputs PROVE inputs[n].what \in What
    BY DEF Waited
  <2>1. inputs[n] \in Source
    BY LenProperties, ElementOfSeq DEF IInv, ListsConsistent, TypeOK
  <2> QED BY <2>1 DEF Source
<1>6. First \in Ids(inputs) \cup {Null} /\ First \in Input \cup {Null}
  BY FirstIsListed DEF IInv, ListsConsistent
<1>7. f \in Frame /\ f.timer = Null /\ f.phase = "inputs" /\ f.ip = First
  BY <1>2, <1>4, <1>5, <1>6, <1>3 DEF Frame
<1>8. UNCHANGED <<now, timeouts, inputs, changes>> /\ inputs_changed' = FALSE
  BY DEF Select
<1>9. frames' = SetTop(f)
  BY <1>2, <1>3
<1>10. Valid(f)'
  <2>1. Ids(inputs)' = Ids(inputs) /\ First' = First
    BY <1>8 DEF First
  <2>2. f.ip \in Ids(inputs)' \cup {Null}
    BY <2>1, <1>6, <1>7
  <2> QED BY <2>2, <1>7 DEF Valid
<1> QED BY <1>1, <1>4, <1>7, <1>8, <1>9, <1>10, MoveKeeps

(* A call without anything to wait for returns.                              *)
LEMMA SelectFailsKeeps ==
    ASSUME IInv, SelectFails
    PROVE  IInv' /\ TimersStep
<1>1. frames # <<>> /\ Top.phase = "select"
  BY DEF SelectFails, InPhase
<1>2. Top.timer = Null
  BY <1>1, TopIs
<1> QED BY <1>1, <1>2, ReturnKeeps DEF SelectFails

(* The walk goes on to an input of the list, or calls the handler of one.    *)
LEMMA WalkKeeps ==
    ASSUME IInv, Walk
    PROVE  IInv' /\ TimersStep
<1>1. frames # <<>> /\ Top.phase = "inputs" /\ Top.ip # Null
  BY DEF Walk, InPhase
<1>2. Top \in Frame /\ Top.timer = Null /\ Top.ip \in Ids(inputs)
  BY <1>1, TopIs DEF Valid
<1>3. PICK next : next = NextOf(Top.ip)
  OBVIOUS
<1>4. next \in Ids(inputs) \cup {Null} /\ next \in Input \cup {Null}
  BY <1>2, <1>3, NextIsListed DEF IInv, ListsConsistent
<1>5. UNCHANGED <<now, timeouts, inputs, inputs_changed, changes>>
  BY DEF Walk
<1>6. inputs_changed \in BOOLEAN
  BY DEF IInv, ListsConsistent, TypeOK
<1>7. Ids(inputs)' = Ids(inputs)
  BY <1>5
<1>8. CASE WhatOf(Top.ip) \in Top.ready
  <2>1. PICK f : f = [Top EXCEPT !.phase = "called", !.next = next]
    OBVIOUS
  <2>2. frames' = SetTop(f)
    BY <1>3, <1>8, <2>1 DEF Walk
  <2>3. f \in Frame /\ f.timer = Null /\ f.phase = "called" /\ f.ip = Top.ip /\ f.next = next
    BY <1>2, <1>4, <2>1 DEF Frame
  <2>4. PICK ip : ip = Top.ip
    OBVIOUS
  <2>5. NextOf(ip)' = NextOf(ip)
    BY <1>5 DEF NextOf
  <2>6. f.ip \in Ids(inputs)' /\ f.next = NextOf(f.ip)'
    BY <1>2, <1>3, <1>7, <2>3, <2>4, <2>5
  <2>7. Valid(f)'
    BY <2>3, <2>6 DEF Valid
  <2> QED BY <1>1, <1>2, <1>5, <1>6, <2>2, <2>3, <2>7, MoveKeeps
<1>9. CASE WhatOf(Top.ip) \notin Top.ready
  <2>1. PICK f : f = [Top EXCEPT !.ip = next]
    OBVIOUS
  <2>2. frames' = SetTop(f)
    BY <1>3, <1>9, <2>1 DEF Walk
  <2>3. f \in Frame /\ f.timer = Null /\ f.phase = "inputs" /\ f.ip = next
    BY <1>1, <1>2, <1>4, <2>1 DEF Frame
  <2>4. f.ip \in Ids(inputs)' \cup {Null}
    BY <1>4, <1>7, <2>3
  <2>5. Valid(f)'
    BY <2>3, <2>4 DEF Valid
  <2> QED BY <1>1, <1>2, <1>5, <1>6, <2>2, <2>3, <2>5, MoveKeeps
<1> QED BY <1>8, <1>9

(* After a change of the list the walk starts again.                         *)
LEMMA InputDoneKeeps ==
    ASSUME IInv, InputDone
    PROVE  IInv' /\ TimersStep
<1>1. frames # <<>> /\ Top.phase = "called" /\ Top.timer = Null
  BY DEF InputDone, InPhase
<1>2. Top \in Frame /\ Valid(Top)
  BY <1>1, TopIs
<1>3. PICK g : g = [Top EXCEPT !.phase = "inputs", !.ip = Top.next, !.next = Null,
                              !.nested = FALSE]
  OBVIOUS
<1>4. PICK f : f = IF inputs_changed THEN Retry ELSE g
  OBVIOUS
<1>5. frames' = SetTop(f) /\ UNCHANGED <<now, timeouts, inputs, inputs_changed, changes>>
  BY <1>3, <1>4 DEF InputDone
<1>6. Retry \in Frame /\ Retry.timer = Null /\ Retry.phase = "select"
  BY EventLoopAssumption DEF Retry, NewFrame, Frame
<1>7. g \in Frame /\ g.timer = Null /\ g.phase = "inputs" /\ g.ip = Top.next
  BY <1>1, <1>2, <1>3 DEF Frame
<1>8. inputs_changed \in BOOLEAN
  BY DEF IInv, ListsConsistent, TypeOK
<1>9. ~inputs_changed => Top.next \in Ids(inputs) \cup {Null}
  BY <1>1, <1>2, NextIsListed DEF Valid, IInv, ListsConsistent
<1>10. f \in Frame /\ f.timer = Null
  BY <1>4, <1>6, <1>7
<1>11. f.phase # "called" /\ (f.phase = "inputs" => f.ip \in Ids(inputs) \cup {Null})
  BY <1>4, <1>6, <1>7, <1>9
<1>12. Ids(inputs)' = Ids(inputs)
  BY <1>5
<1>13. f.phase = "inputs" => f.ip \in Ids(inputs)' \cup {Null}
  BY <1>11, <1>12
<1>14. Valid(f)'
  BY <1>11, <1>13 DEF Valid
<1> QED BY <1>1, <1>5, <1>8, <1>10, <1>14, MoveKeeps

(* After the inputs come the timeouts.                                       *)
LEMMA WalkEndsKeeps ==
    ASSUME IInv, WalkEnds
    PROVE  IInv' /\ TimersStep
<1>1. frames # <<>> /\ Top.phase = "inputs"
  BY DEF WalkEnds, InPhase
<1>2. Top \in Frame /\ Top.timer = Null
  BY <1>1, TopIs
<1>3. PICK f : f = [Top EXCEPT !.phase = "timers", !.limit = now, !.ready = {}]
  OBVIOUS
<1>4. frames' = SetTop(f) /\ UNCHANGED <<now, timeouts, inputs, inputs_changed, changes>>
  BY <1>3 DEF WalkEnds
<1>5. now \in 0 .. MaxTime + 1 /\ inputs_changed \in BOOLEAN
  BY DEF IInv, ListsConsistent, TypeOK
<1>6. f \in Frame /\ f.timer = Null /\ f.phase = "timers"
  BY <1>2, <1>5, <1>3 DEF Frame
<1>7. Valid(f)'
  BY <1>6 DEF Valid
<1> QED BY <1>1, <1>2, <1>4, <1>5, <1>6, <1>7, MoveKeeps

(* The call returns, or starts again.                                        *)
LEMMA TimersEndKeeps ==
    ASSUME IInv, TimersEnd
    PROVE  IInv' /\ TimersStep
<1>1. frames # <<>> /\ Top.phase = "timers"
  BY DEF TimersEnd, InPhase
<1>2. Top.timer = Null
  BY <1>1, TopIs
<1>3. UNCHANGED <<now, timeouts, inputs, inputs_changed, changes>>
  BY DEF TimersEnd
<1>4. CASE Return
  BY <1>1, <1>2, <1>3, <1>4, ReturnKeeps
<1>5. CASE frames' = SetTop(Retry)
  <2>1. Retry \in Frame /\ Retry.timer = Null /\ Retry.phase = "select"
    BY EventLoopAssumption DEF Retry, NewFrame, Frame
  <2>2. Valid(Retry)'
    BY <2>1 DEF Valid, Retry, NewFrame
  <2>3. inputs_changed \in BOOLEAN
    BY DEF IInv, ListsConsistent, TypeOK
  <2> QED BY <1>1, <1>2, <1>3, <1>5, <2>1, <2>2, <2>3, MoveKeeps
<1> QED BY <1>4, <1>5 DEF TimersEnd

(* Time passes.                                                              *)
LEMMA TickKeeps ==
    ASSUME IInv, Tick
    PROVE  IInv' /\ TimersStep
<1>1. UNCHANGED <<timeouts, inputs, inputs_changed, frames, changes>>
  BY DEF Tick
<1>2. now' \in 0 .. MaxTime + 1
  BY EventLoopAssumption DEF Tick, IInv, ListsConsistent, TypeOK
<1>3. InPlay' = InPlay /\ Ids(timeouts)' = Ids(timeouts)
  BY <1>1 DEF InPlay
<1>4. Stacked' /\ Sorted'
  BY <1>1 DEF IInv, ListsConsistent, Stacked, Sorted
<1>5. TypeOK'
  BY <1>1, <1>2, <1>3 DEF IInv, ListsConsistent, TypeOK
<1>6. WalkValid'
  BY <1>1 DEF IInv, ListsConsistent, WalkValid, NextOf
<1> QED BY <1>3, <1>4, <1>5, <1>6 DEF IInv, ListsConsistent, TimersStep

(* A handler is called: its timeout leaves the list and is in play. *)
LEMMA FireKeeps ==
    ASSUME IInv, Fire
    PROVE  IInv' /\ TimersStep
<1>0. TypeOK /\ Stacked /\ WalkValid /\ Sorted
  BY DEF IInv, ListsConsistent
<1>1. frames # <<>> /\ Top.phase = "timers" /\ timeouts # <<>>
  BY DEF Fire, InPhase, Expired
<1>2. Top \in Frame /\ Top.timer = Null
  BY <1>1, TopIs
<1>3. PICK t : t = Head(timeouts).id
  OBVIOUS
<1>4. PICK f : f = [Top EXCEPT !.phase = "called", !.timer = t]
  OBVIOUS
<1>5. /\ frames' = SetTop(f) /\ timeouts' = Tail(timeouts)
      /\ UNCHANGED <<now, inputs, inputs_changed, changes>>
  BY <1>3, <1>4 DEF Fire
<1>6. /\ timeouts \in Seq(Timeout) /\ Len(timeouts) \in Nat /\ Len(timeouts) > 0
      /\ DOMAIN timeouts = 1 .. Len(timeouts)
      /\ Head(timeouts) = timeouts[1]
  BY <1>0, <1>1, EmptySeq, LenProperties, HeadTailProperties DEF TypeOK
<1>7. /\ timeouts' \in Seq(Timeout) /\ Len(timeouts') = Len(timeouts) - 1
      /\ \A i \in 1 .. Len(timeouts) - 1 : timeouts'[i] = timeouts[i + 1]
  BY <1>1, <1>5, <1>6, HeadTailProperties
<1>8. DOMAIN timeouts' = 1 .. Len(timeouts) - 1
  BY <1>7, LenProperties
<1>9. ASSUME NEW i \in DOMAIN timeouts'
      PROVE  i \in Int /\ i + 1 \in DOMAIN timeouts /\ timeouts'[i] = timeouts[i + 1]
  BY <1>6, <1>7, <1>8
<1>10. t = timeouts[1].id /\ 1 \in DOMAIN timeouts /\ t \in Timer /\ t # Null
  <2>1. t = timeouts[1].id /\ 1 \in DOMAIN timeouts
    BY <1>3, <1>6
  <2>2. timeouts[1] \in Timeout
    BY <1>6, ElementOfSeq
  <2> QED BY <2>1, <2>2, EventLoopAssumption DEF Timeout
<1>11. t \in Ids(timeouts) /\ t \notin InPlay
  BY <1>0, <1>10 DEF TypeOK, Ids
<1>12. Ids(timeouts)' = Ids(timeouts) \ {t}
  <2>1. ASSUME NEW i \in DOMAIN timeouts'
        PROVE  timeouts'[i].id \in Ids(timeouts) \ {t}
    <3>1. i + 1 \in DOMAIN timeouts /\ i + 1 # 1 /\ timeouts'[i] = timeouts[i + 1]
      BY <1>8, <1>9
    <3> QED BY <3>1, <1>0, <1>10 DEF TypeOK, Ids
  <2>2. ASSUME NEW j \in DOMAIN timeouts, timeouts[j].id # t
        PROVE  \E i \in DOMAIN timeouts' : timeouts'[i].id = timeouts[j].id
    <3>1. j # 1
      BY <2>2, <1>10
    <3>2. j - 1 \in DOMAIN timeouts' /\ timeouts'[j - 1] = timeouts[j]
      BY <3>1, <1>6, <1>7, <1>8
    <3> QED BY <3>2
  <2>3. Ids(timeouts)' \subseteq Ids(timeouts) \ {t}
    BY <2>1 DEF Ids
  <2>4. Ids(timeouts) \ {t} \subseteq Ids(timeouts)'
    BY <2>2 DEF Ids
  <2> QED BY <2>3, <2>4
<1>13. f \in Frame /\ f.timer = t /\ f.phase = "called"
  BY <1>2, <1>4, <1>10 DEF Frame
<1> DEFINE L == Len(frames)
<1>14. /\ L \in Nat /\ L > 0 /\ DOMAIN frames = 1 .. L
       /\ frames' \in Seq(Frame) /\ Len(frames') = L /\ DOMAIN frames' = 1 .. L
       /\ frames'[L] = f
       /\ \A n \in 1 .. L : n # L => frames'[n] = frames[n]
  BY <1>0, <1>1, <1>5, <1>13, SetTopIs
<1>15. \A n \in DOMAIN frames : frames[n].timer # t
  BY <1>10, <1>11 DEF InPlay
<1>16. Stacked'
  <2>1. ASSUME NEW n \in DOMAIN frames', n # L
        PROVE  frames'[n].timer # Null
    BY <2>1, <1>0, <1>14, Zenon DEF Stacked
  <2>2. ASSUME NEW n \in DOMAIN frames'
        PROVE  frames'[n].phase = "called"
    <3>1. CASE n = L
      BY <3>1, <1>13, <1>14, SMTT(30)
    <3>2. CASE n # L
      BY <3>2, <1>0, <1>14, Zenon DEF Stacked
    <3> QED BY <3>1, <3>2
  <2>3. ASSUME NEW m \in DOMAIN frames', NEW n \in DOMAIN frames',
               frames'[m].timer = frames'[n].timer
        PROVE  m = n
    <3>1. CASE m = L \/ n = L
      BY <2>3, <3>1, <1>13, <1>14, <1>15, Zenon
    <3>2. CASE m # L /\ n # L
      <4>1. frames[m].timer = frames[n].timer /\ frames[m].timer # Null
        BY <2>1, <2>3, <3>2, <1>14, Zenon
      <4> QED BY <4>1, <1>0, <1>14, Zenon DEF Stacked
    <3> QED BY <3>1, <3>2
  <2> QED BY <2>1, <2>2, <2>3, <1>14, Zenon DEF Stacked
<1>17. InPlay' = InPlay \cup {t}
  <2>1. ASSUME NEW n \in DOMAIN frames'
        PROVE  frames'[n].timer \in {frames[i].timer : i \in DOMAIN frames} \cup {t}
    BY <1>13, <1>14, Zenon
  <2>2. ASSUME NEW n \in DOMAIN frames, frames[n].timer # Null
        PROVE  n \in DOMAIN frames' /\ frames'[n].timer = frames[n].timer
    <3>1. n # L
      BY <2>2, <1>2, SMTT(30) DEF Top
    <3> QED BY <3>1, <1>14, Zenon
  <2>3. L \in DOMAIN frames' /\ frames'[L].timer = t
    <3>1. L \in 1 .. L
      BY <1>0, <1>1, <1>13, SetTopIs
    <3> QED BY <3>1, <1>13, <1>14, Zenon
  <2>4. InPlay' \subseteq InPlay \cup {t}
    BY <2>1 DEF InPlay
  <2>5. InPlay \subseteq InPlay'
    BY <2>2 DEF InPlay
  <2>6. t \in InPlay'
    BY <2>3, <1>10, SMTT(30) DEF InPlay
  <2> QED BY <2>4, <2>5, <2>6, SMTT(30)
<1>18. TypeOK'
  <2>1. ASSUME NEW i \in DOMAIN timeouts', NEW j \in DOMAIN timeouts',
               timeouts'[i].id = timeouts'[j].id
        PROVE  i = j
    <3>1. i + 1 = j + 1
      BY <2>1, <1>0, <1>9, SMTT(30) DEF TypeOK
    <3> QED BY <3>1, <1>9
  <2> QED BY <2>1, <1>0, <1>5, <1>7, <1>12, <1>14, <1>17, Zenon DEF TypeOK
<1>19. Sorted'
  <2> SUFFICES ASSUME NEW i \in DOMAIN timeouts', NEW j \in DOMAIN timeouts', i < j
               PROVE  timeouts'[i].at <= timeouts'[j].at
    BY DEF Sorted
  <2>1. i + 1 < j + 1
    BY <1>9
  <2> QED BY <2>1, <1>0, <1>9 DEF Sorted
<1>20. Valid(Top)'
  BY <1>10, <1>13, <1>14, Zenon DEF Top, Valid
<1>21. WalkValid'
  BY <1>14, <1>16, <1>20, ValidOnTop, Zenon
<1>22. Abstract!Fire(t)
  BY <1>11, <1>12, <1>17 DEF Abstract!Fire
<1> QED BY <1>10, <1>16, <1>18, <1>19, <1>21, <1>22
        DEF IInv, ListsConsistent, TimersStep, Abstract!Next

(* A handler returns: its timeout is in play no more. *)
LEMMA TimerDoneKeeps ==
    ASSUME IInv, TimerDone
    PROVE  IInv' /\ TimersStep
<1>0. TypeOK /\ Stacked /\ WalkValid /\ Sorted
  BY DEF IInv, ListsConsistent
<1>1. frames # <<>> /\ Top.timer # Null
  BY DEF TimerDone, InPhase
<1>2. Top \in Frame
  BY <1>1, TopIs
<1>3. PICK t : t = Top.timer
  OBVIOUS
<1>4. PICK f : f = [Top EXCEPT !.phase = "timers", !.timer = Null, !.nested = FALSE]
  OBVIOUS
<1>5. frames' = SetTop(f) /\ UNCHANGED <<now, timeouts, inputs, inputs_changed, changes>>
  BY <1>4 DEF TimerDone
<1>6. f \in Frame /\ f.timer = Null /\ f.phase = "timers"
  BY <1>2, <1>4 DEF Frame
<1>7. t \in Timer /\ t # Null
  BY <1>1, <1>2, <1>3 DEF Frame
<1> DEFINE L == Len(frames)
<1>8. /\ L \in Nat /\ L > 0 /\ DOMAIN frames = 1 .. L
      /\ frames' \in Seq(Frame) /\ Len(frames') = L /\ DOMAIN frames' = 1 .. L
      /\ frames'[L] = f
      /\ \A n \in 1 .. L : n # L => frames'[n] = frames[n]
  BY <1>0, <1>1, <1>5, <1>6, SetTopIs
<1>9. L \in DOMAIN frames /\ frames[L].timer = t
  <2>1. L \in 1 .. L
    BY <1>0, <1>1, <1>6, SetTopIs, SMTT(30)
  <2> QED BY <2>1, <1>3, <1>8, Zenon DEF Top
<1>10. ASSUME NEW n \in DOMAIN frames', frames'[n].timer # Null
       PROVE  n # L /\ n \in DOMAIN frames /\ frames'[n] = frames[n]
  BY <1>10, <1>6, <1>8, Zenon
<1>11. Stacked'
  <2>1. ASSUME NEW n \in DOMAIN frames', n # L
        PROVE  frames'[n].timer # Null
    BY <2>1, <1>0, <1>8, Zenon DEF Stacked
  <2>2. ASSUME NEW n \in DOMAIN frames', frames'[n].timer # Null
        PROVE  frames'[n].phase = "called"
    BY <2>2, <1>0, <1>10 DEF Stacked
  <2>3. ASSUME NEW m \in DOMAIN frames', NEW n \in DOMAIN frames',
               frames'[m].timer = frames'[n].timer, frames'[m].timer # Null
        PROVE  m = n
    BY <2>3, <1>0, <1>10 DEF Stacked
  <2> QED BY <2>1, <2>2, <2>3, <1>8, Zenon DEF Stacked
<1>12. InPlay' = InPlay \ {t}
  <2>1. ASSUME NEW n \in DOMAIN frames', frames'[n].timer # Null
        PROVE  frames'[n].timer \in InPlay \ {t}
    <3>1. n # L /\ n \in DOMAIN frames /\ frames'[n].timer = frames[n].timer
      BY <2>1, <1>10
    <3>2. frames[n].timer # t
      BY <3>1, <1>0, <1>7, <1>9, SMTT(30) DEF Stacked
    <3> QED BY <2>1, <3>1, <3>2 DEF InPlay
  <2>2. ASSUME NEW n \in DOMAIN frames, frames[n].timer # Null, frames[n].timer # t
        PROVE  n \in DOMAIN frames' /\ frames'[n].timer = frames[n].timer
    BY <2>2, <1>8, <1>9, Zenon
  <2>3. InPlay' \subseteq InPlay \ {t}
    BY <2>1 DEF InPlay
  <2>4. InPlay \ {t} \subseteq InPlay'
    BY <2>2 DEF InPlay
  <2> QED BY <2>3, <2>4
<1>13. Ids(timeouts)' = Ids(timeouts)
  BY <1>5, SMTT(30)
<1>14. TypeOK' /\ Sorted'
  BY <1>0, <1>5, <1>8, <1>12, <1>13, Zenon DEF TypeOK, Sorted
<1>15. Valid(Top)'
  BY <1>6, <1>8, Zenon DEF Top, Valid
<1>16. WalkValid'
  BY <1>8, <1>11, <1>15, ValidOnTop, Zenon
<1>17. Abstract!Done(t)
  <2>1. t \in InPlay
    BY <1>7, <1>9 DEF InPlay
  <2> QED BY <2>1, <1>12, <1>13 DEF Abstract!Done
<1> QED BY <1>7, <1>11, <1>14, <1>16, <1>17
        DEF IInv, ListsConsistent, TimersStep, Abstract!Next

-----------------------------------------------------------------------------
(* The invariant. *)

(* It holds at first ...                                                     *)
LEMMA InitIInv == Init => IInv
<1> SUFFICES ASSUME Init PROVE IInv
  OBVIOUS
<1>1. now = 0 /\ timeouts = <<>> /\ inputs = <<>> /\ frames = <<>>
  BY DEF Init
<1>2. DOMAIN timeouts = {} /\ DOMAIN frames = {} /\ Len(frames) = 0
  BY <1>1
<1>3. timeouts \in Seq(Timeout) /\ inputs \in Seq(Source) /\ frames \in Seq(Frame)
  BY <1>1, EmptySeq
<1>4. TypeOK
  <2>1. Ids(timeouts) = {}
    BY <1>2 DEF Ids
  <2>2. MaxTime \in Nat /\ MaxDepth \in Nat /\ MaxChanges \in Nat
    BY EventLoopAssumption
  <2>3. now \in 0 .. MaxTime + 1 /\ Len(frames) <= MaxDepth /\ changes \in 0 .. MaxChanges
    BY <1>1, <1>2, <2>2 DEF Init
  <2>4. inputs_changed \in BOOLEAN
    BY DEF Init
  <2> QED BY <1>2, <1>3, <2>1, <2>3, <2>4 DEF TypeOK
<1>5. Sorted /\ WalkValid /\ Stacked
  BY <1>2 DEF Sorted, WalkValid, Stacked
<1> QED BY <1>4, <1>5 DEF IInv, ListsConsistent

(* ... and every step keeps it, and is one of Timers or none.                *)
LEMMA StepIInv == IInv /\ [Next]_vars => IInv' /\ TimersStep
<1> SUFFICES ASSUME IInv, [Next]_vars PROVE IInv' /\ TimersStep
  OBVIOUS
<1>1. CASE Code
  BY <1>1, AddTimeOutKeeps, RemoveTimeOutKeeps, AddInputKeeps, RemoveInputKeeps DEF Code
<1>2. CASE Calls
  BY <1>2, CallKeeps DEF Calls
<1>3. CASE Dispatch
  BY <1>3, SelectKeeps, SelectFailsKeeps, WalkKeeps, WalkEndsKeeps, FireKeeps, TimersEndKeeps
     DEF Dispatch
<1>4. CASE Handlers
  BY <1>4, InputDoneKeeps, TimerDoneKeeps DEF Handlers
<1>5. CASE Tick
  BY <1>5, TickKeeps
<1>6. CASE UNCHANGED vars
  <2>1. UNCHANGED <<now, timeouts, inputs, inputs_changed, frames, changes>>
    BY <1>6 DEF vars
  <2>2. InPlay' = InPlay /\ Ids(timeouts)' = Ids(timeouts)
    BY <2>1 DEF InPlay
  <2>3. TypeOK' /\ Sorted' /\ Stacked'
    BY <2>1, <2>2 DEF IInv, ListsConsistent, TypeOK, Sorted, Stacked
  <2>4. WalkValid'
    BY <2>1 DEF IInv, ListsConsistent, WalkValid, NextOf
  <2> QED BY <2>2, <2>3, <2>4 DEF IInv, ListsConsistent, TimersStep
<1> QED BY <1>1, <1>2, <1>3, <1>4, <1>5, <1>6 DEF Next

(* The two lists and the walks over them are consistent, whatever handlers    *)
(* add and remove and however deep they run the loop (DefaultProcessEvents).  *)
THEOREM ListsStayConsistent == Spec => []ListsConsistent
<1>1. Spec => []IInv
  BY InitIInv, StepIInv, PTL DEF Spec
<1>2. IInv => ListsConsistent
  BY DEF IInv
<1> QED BY <1>1, <1>2, PTL

(* The loop keeps the promise of Timers: each timer that is armed fires once, *)
(* or never if it is removed first (XtGlue.c).                                *)
THEOREM PromiseKept == Spec => KeepsTimers
<1>1. Init => Abstract!Init
  <2> SUFFICES ASSUME Init PROVE Ids(timeouts) = {} /\ InPlay = {}
    BY DEF Abstract!Init
  <2> QED BY DEF Init, Ids, InPlay
<1>2. TimersStep => [Abstract!Next]_(Abstract!timerVars)
  BY DEF TimersStep, Abstract!timerVars
<1>3. IInv /\ [Next]_vars => IInv' /\ [Abstract!Next]_(Abstract!timerVars)
  BY StepIInv, <1>2
<1> QED BY InitIInv, <1>1, <1>3, PTL DEF Spec, KeepsTimers, Abstract!Safety

=============================================================================
