--------------------------- MODULE TelnetHostProofs ---------------------------
(***************************************************************************)
(* The two ends of a quiet connection agree: a proof of Agreement for      *)
(* every set of options, every list of LU names, every set of functions    *)
(* and options the host accepts, and every number of changes it starts.    *)
(*                                                                         *)
(* The messages on their way are what makes it hard.  Of a queue only the  *)
(* messages of one class matter to one negotiation: an option of one side  *)
(* (Inward, Outward), or TN3270E with its subnegotiation (TnIn, TnOut).    *)
(* Of such a class at most three messages are ever on their way in one     *)
(* direction, so None, One, Two and Three say what a queue holds of it.    *)
(* Fits lists, for an option, the ways in which what the host believes,    *)
(* what the terminal believes and the messages of both directions can go   *)
(* together; FitsTn does so for TN3270E.  The proof goes from sequences    *)
(* (what appending and taking does to a class) over one negotiation (what  *)
(* a message does to Fits) and one handler of telnet.c (what it returns    *)
(* and sends) to a step of the terminal and of the host.                   *)
(***************************************************************************)
EXTENDS TelnetHost, SequenceTheorems, TLAPS

-----------------------------------------------------------------------------
(* What a queue holds of a class of messages. *)

(* No message of class K is in the queue q; one, a; two, a before b; three. *)
None(q, K) == \A i \in 1 .. Len(q) : q[i] \notin K
One(q, K, a) ==
    \E i \in 1 .. Len(q) : q[i] = a /\ a \in K /\ \A k \in 1 .. Len(q) : q[k] \in K => k = i
Two(q, K, a, b) ==
    \E i, j \in 1 .. Len(q) : /\ i < j /\ q[i] = a /\ a \in K /\ q[j] = b /\ b \in K
                              /\ \A k \in 1 .. Len(q) : q[k] \in K => k \in {i, j}
Three(q, K, a, b, c) ==
    \E i, j, l \in 1 .. Len(q) : /\ i < j /\ j < l /\ q[i] = a /\ a \in K /\ q[j] = b /\ b \in K
                                 /\ q[l] = c /\ c \in K
                                 /\ \A k \in 1 .. Len(q) : q[k] \in K => k \in {i, j, l}

(* The queue r holds of class K what q holds; it holds m more, at its end; *)
(* it holds m less, at its head.                                           *)
Same(q, r, K) ==
    /\ None(q, K) => None(r, K)
    /\ \A a : One(q, K, a) => One(r, K, a)
    /\ \A a, b : Two(q, K, a, b) => Two(r, K, a, b)
    /\ \A a, b, c : Three(q, K, a, b, c) => Three(r, K, a, b, c)

Gains(q, r, K, m) ==
    /\ None(q, K) => One(r, K, m)
    /\ \A a : One(q, K, a) => Two(r, K, a, m)
    /\ \A a, b : Two(q, K, a, b) => Three(r, K, a, b, m)

Loses(q, r, K, m) ==
    /\ ~None(q, K)
    /\ \A a : One(q, K, a) => a = m /\ None(r, K)
    /\ \A a, b : Two(q, K, a, b) => a = m /\ One(r, K, b)
    /\ \A a, b, c : Three(q, K, a, b, c) => a = m /\ Two(r, K, b, c)

(* Appending adds one message at the end (net_rawout). *)
LEMMA Appended ==
    ASSUME NEW S, NEW q \in Seq(S), NEW m \in S
    PROVE  /\ Append(q, m) \in Seq(S) /\ Len(Append(q, m)) = Len(q) + 1 /\ Len(q) \in Nat
           /\ \A i \in 1 .. Len(q) : Append(q, m)[i] = q[i]
           /\ Append(q, m)[Len(q) + 1] = m
OBVIOUS

(* Taking the first message leaves the others in order. *)
LEMMA Rest ==
    ASSUME NEW S, NEW q \in Seq(S), q # <<>>
    PROVE  /\ Tail(q) \in Seq(S) /\ Len(q) \in Nat \ {0} /\ Len(Tail(q)) = Len(q) - 1
           /\ \A i \in 1 .. Len(q) - 1 : Tail(q)[i] = q[i + 1]
           /\ Head(q) = q[1] /\ q[1] \in S
OBVIOUS

(* A message appended changes nothing for a class it is not of. *)
LEMMA AppendOther ==
    ASSUME NEW S, NEW q \in Seq(S), NEW m \in S, NEW K, m \notin K
    PROVE  Same(q, Append(q, m), K)
<1> DEFINE r == Append(q, m)
<1>1. /\ Len(r) = Len(q) + 1 /\ Len(q) \in Nat
      /\ \A i \in 1 .. Len(q) : r[i] = q[i]
      /\ \A k \in 1 .. Len(r) : r[k] \in K => k \in 1 .. Len(q) /\ q[k] \in K
  BY Appended
<1> HIDE DEF r
<1>2. None(q, K) => None(r, K)
  BY <1>1 DEF None
<1>3. ASSUME NEW a, One(q, K, a)
      PROVE  One(r, K, a)
  BY <1>1, <1>3 DEF One
<1>4. ASSUME NEW a, NEW b, Two(q, K, a, b)
      PROVE  Two(r, K, a, b)
  <2>1. PICK i \in 1 .. Len(q), j \in 1 .. Len(q) :
              /\ i < j /\ q[i] = a /\ a \in K /\ q[j] = b /\ b \in K
              /\ \A k \in 1 .. Len(q) : q[k] \in K => k \in {i, j}
    BY <1>4 DEF Two
  <2>2. i \in 1 .. Len(r) /\ j \in 1 .. Len(r) /\ r[i] = a /\ r[j] = b
    BY <1>1, <2>1
  <2>3. \A k \in 1 .. Len(r) : r[k] \in K => k \in {i, j}
    BY <1>1, <2>1
  <2> QED BY <2>1, <2>2, <2>3 DEF Two
<1>5. ASSUME NEW a, NEW b, NEW c, Three(q, K, a, b, c)
      PROVE  Three(r, K, a, b, c)
  <2>1. PICK i \in 1 .. Len(q), j \in 1 .. Len(q), l \in 1 .. Len(q) :
              /\ i < j /\ j < l /\ q[i] = a /\ a \in K /\ q[j] = b /\ b \in K /\ q[l] = c /\ c \in K
              /\ \A k \in 1 .. Len(q) : q[k] \in K => k \in {i, j, l}
    BY <1>5 DEF Three
  <2>2. i \in 1 .. Len(r) /\ j \in 1 .. Len(r) /\ l \in 1 .. Len(r) /\ r[i] = a /\ r[j] = b /\ r[l] = c
    BY <1>1, <2>1
  <2>3. \A k \in 1 .. Len(r) : r[k] \in K => k \in {i, j, l}
    BY <1>1, <2>1
  <2> QED BY <2>1, <2>2, <2>3 DEF Three
<1> QED BY <1>2, <1>3, <1>4, <1>5 DEF r, Same

(* A message appended is the last of its own class. *)
LEMMA AppendKind ==
    ASSUME NEW S, NEW q \in Seq(S), NEW m \in S, NEW K, m \in K
    PROVE  Gains(q, Append(q, m), K, m)
<1> DEFINE r == Append(q, m)
           n == Len(q) + 1
<1>1. /\ Len(r) = n /\ Len(q) \in Nat /\ n \in 1 .. Len(r) /\ r[n] = m
      /\ \A i \in 1 .. Len(q) : r[i] = q[i] /\ i < n /\ i \in 1 .. Len(r)
      /\ \A k \in 1 .. Len(r) : k \in 1 .. Len(q) \/ k = n
  BY Appended
<1> HIDE DEF r, n
<1>2. ASSUME None(q, K)
      PROVE  One(r, K, m)
  <2>1. \A k \in 1 .. Len(r) : r[k] \in K => k = n
    BY <1>1, <1>2 DEF None
  <2> QED BY <1>1, <2>1 DEF One
<1>3. ASSUME NEW a, One(q, K, a)
      PROVE  Two(r, K, a, m)
  <2>1. PICK i \in 1 .. Len(q) :
             q[i] = a /\ a \in K /\ \A k \in 1 .. Len(q) : q[k] \in K => k = i
    BY <1>3 DEF One
  <2>2. i \in 1 .. Len(r) /\ i < n /\ r[i] = a
    BY <1>1, <2>1
  <2>3. \A k \in 1 .. Len(r) : r[k] \in K => k \in {i, n}
    BY <1>1, <2>1
  <2> QED BY <1>1, <2>1, <2>2, <2>3 DEF Two
<1>4. ASSUME NEW a, NEW b, Two(q, K, a, b)
      PROVE  Three(r, K, a, b, m)
  <2>1. PICK i \in 1 .. Len(q), j \in 1 .. Len(q) :
              /\ i < j /\ q[i] = a /\ a \in K /\ q[j] = b /\ b \in K
              /\ \A k \in 1 .. Len(q) : q[k] \in K => k \in {i, j}
    BY <1>4 DEF Two
  <2>2. i \in 1 .. Len(r) /\ j \in 1 .. Len(r) /\ j < n /\ r[i] = a /\ r[j] = b
    BY <1>1, <2>1
  <2>3. \A k \in 1 .. Len(r) : r[k] \in K => k \in {i, j, n}
    BY <1>1, <2>1
  <2> QED BY <1>1, <2>1, <2>2, <2>3 DEF Three
<1> QED BY <1>2, <1>3, <1>4 DEF r, Gains

(* A message taken changes nothing for a class it is not of. *)
LEMMA RestOther ==
    ASSUME NEW S, NEW q \in Seq(S), q # <<>>, NEW K, Head(q) \notin K
    PROVE  Same(q, Tail(q), K)
<1> DEFINE r == Tail(q)
<1>1. /\ Len(q) \in Nat \ {0} /\ Len(r) = Len(q) - 1
      /\ \A i \in 1 .. Len(r) : r[i] = q[i + 1] /\ i + 1 \in 1 .. Len(q)
      /\ \A i \in 1 .. Len(q) : q[i] \in K => i - 1 \in 1 .. Len(r) /\ r[i - 1] = q[i]
  <2>1. /\ Len(q) \in Nat \ {0} /\ Len(r) = Len(q) - 1 /\ q[1] \notin K
        /\ \A i \in 1 .. Len(r) : r[i] = q[i + 1]
    BY Rest
  <2> HIDE DEF r
  <2>2. ASSUME NEW i \in 1 .. Len(q), q[i] \in K
        PROVE  i - 1 \in 1 .. Len(r) /\ r[i - 1] = q[i]
    <3>1. i # 1 /\ i - 1 \in 1 .. Len(r) /\ (i - 1) + 1 = i
      BY <2>1, <2>2
    <3> QED BY <2>1, <3>1
  <2> QED BY <2>1, <2>2
<1> HIDE DEF r
<1>2. None(q, K) => None(r, K)
  BY <1>1 DEF None
<1>3. ASSUME NEW a, One(q, K, a)
      PROVE  One(r, K, a)
  <2>1. PICK i \in 1 .. Len(q) :
             q[i] = a /\ a \in K /\ \A k \in 1 .. Len(q) : q[k] \in K => k = i
    BY <1>3 DEF One
  <2>2. i - 1 \in 1 .. Len(r) /\ r[i - 1] = a
    BY <1>1, <2>1
  <2>3. \A k \in 1 .. Len(r) : r[k] \in K => k = i - 1
    BY <1>1, <2>1
  <2> QED BY <2>1, <2>2, <2>3 DEF One
<1>4. ASSUME NEW a, NEW b, Two(q, K, a, b)
      PROVE  Two(r, K, a, b)
  <2>1. PICK i \in 1 .. Len(q), j \in 1 .. Len(q) :
              /\ i < j /\ q[i] = a /\ a \in K /\ q[j] = b /\ b \in K
              /\ \A k \in 1 .. Len(q) : q[k] \in K => k \in {i, j}
    BY <1>4 DEF Two
  <2>2. i - 1 \in 1 .. Len(r) /\ r[i - 1] = a /\ j - 1 \in 1 .. Len(r) /\ r[j - 1] = b /\ i - 1 < j - 1
    BY <1>1, <2>1
  <2>3. ASSUME NEW k \in 1 .. Len(r), r[k] \in K
        PROVE  k \in {i - 1, j - 1}
    <3>1. k + 1 \in {i, j}
      BY <1>1, <2>1, <2>3
    <3> QED BY <1>1, <3>1
  <2> QED BY <2>1, <2>2, <2>3 DEF Two
<1>5. ASSUME NEW a, NEW b, NEW c, Three(q, K, a, b, c)
      PROVE  Three(r, K, a, b, c)
  <2>1. PICK i \in 1 .. Len(q), j \in 1 .. Len(q), l \in 1 .. Len(q) :
              /\ i < j /\ j < l /\ q[i] = a /\ a \in K /\ q[j] = b /\ b \in K /\ q[l] = c /\ c \in K
              /\ \A k \in 1 .. Len(q) : q[k] \in K => k \in {i, j, l}
    BY <1>5 DEF Three
  <2>2. /\ i - 1 \in 1 .. Len(r) /\ r[i - 1] = a /\ j - 1 \in 1 .. Len(r) /\ r[j - 1] = b
        /\ l - 1 \in 1 .. Len(r) /\ r[l - 1] = c /\ i - 1 < j - 1 /\ j - 1 < l - 1
    BY <1>1, <2>1
  <2>3. ASSUME NEW k \in 1 .. Len(r), r[k] \in K
        PROVE  k \in {i - 1, j - 1, l - 1}
    <3>1. k + 1 \in {i, j, l}
      BY <1>1, <2>1, <2>3
    <3> QED BY <1>1, <3>1
  <2> QED BY <2>1, <2>2, <2>3 DEF Three
<1> QED BY <1>2, <1>3, <1>4, <1>5 DEF r, Same

(* A message taken was the first of its own class. *)
LEMMA RestKind ==
    ASSUME NEW S, NEW q \in Seq(S), q # <<>>, NEW K, Head(q) \in K
    PROVE  Loses(q, Tail(q), K, Head(q))
<1> DEFINE r == Tail(q)
<1>1. /\ Len(q) \in Nat \ {0} /\ Len(r) = Len(q) - 1 /\ q[1] \in K /\ q[1] = Head(q) /\ 1 \in 1 .. Len(q)
      /\ \A i \in 1 .. Len(r) : r[i] = q[i + 1] /\ i + 1 \in 1 .. Len(q) /\ i + 1 # 1
      /\ \A i \in 2 .. Len(q) : i - 1 \in 1 .. Len(r) /\ r[i - 1] = q[i]
  <2>1. /\ Len(q) \in Nat \ {0} /\ Len(r) = Len(q) - 1 /\ q[1] \in K /\ q[1] = Head(q)
        /\ \A i \in 1 .. Len(r) : r[i] = q[i + 1]
    BY Rest
  <2> HIDE DEF r
  <2>2. ASSUME NEW i \in 2 .. Len(q)
        PROVE  i - 1 \in 1 .. Len(r) /\ r[i - 1] = q[i]
    <3>1. i - 1 \in 1 .. Len(r) /\ (i - 1) + 1 = i
      BY <2>1, <2>2
    <3> QED BY <2>1, <3>1
  <2> QED BY <2>1, <2>2
<1> HIDE DEF r
<1>2. ~None(q, K)
  BY <1>1 DEF None
<1>3. ASSUME NEW a, One(q, K, a)
      PROVE  a = Head(q) /\ None(r, K)
  BY <1>1, <1>3 DEF One, None
<1>4. ASSUME NEW a, NEW b, Two(q, K, a, b)
      PROVE  a = Head(q) /\ One(r, K, b)
  <2>1. PICK i \in 1 .. Len(q), j \in 1 .. Len(q) :
              /\ i < j /\ q[i] = a /\ a \in K /\ q[j] = b /\ b \in K
              /\ \A k \in 1 .. Len(q) : q[k] \in K => k \in {i, j}
    BY <1>4 DEF Two
  <2>2. i = 1 /\ j \in 2 .. Len(q)
    BY <1>1, <2>1
  <2>3. j - 1 \in 1 .. Len(r) /\ r[j - 1] = b
    BY <1>1, <2>1, <2>2
  <2>4. \A k \in 1 .. Len(r) : r[k] \in K => k = j - 1
    BY <1>1, <2>1, <2>2
  <2> QED BY <1>1, <2>1, <2>2, <2>3, <2>4 DEF One
<1>5. ASSUME NEW a, NEW b, NEW c, Three(q, K, a, b, c)
      PROVE  a = Head(q) /\ Two(r, K, b, c)
  <2>1. PICK i \in 1 .. Len(q), j \in 1 .. Len(q), l \in 1 .. Len(q) :
              /\ i < j /\ j < l /\ q[i] = a /\ a \in K /\ q[j] = b /\ b \in K /\ q[l] = c /\ c \in K
              /\ \A k \in 1 .. Len(q) : q[k] \in K => k \in {i, j, l}
    BY <1>5 DEF Three
  <2>2. i = 1 /\ j \in 2 .. Len(q) /\ l \in 2 .. Len(q)
    BY <1>1, <2>1
  <2>3. j - 1 \in 1 .. Len(r) /\ r[j - 1] = b /\ l - 1 \in 1 .. Len(r) /\ r[l - 1] = c /\ j - 1 < l - 1
    BY <1>1, <2>1, <2>2
  <2>4. \A k \in 1 .. Len(r) : r[k] \in K => k \in {j - 1, l - 1}
    BY <1>1, <2>1, <2>2
  <2> QED BY <1>1, <2>1, <2>2, <2>3, <2>4 DEF Two
<1> QED BY <1>2, <1>3, <1>4, <1>5 DEF r, Loses

(* Being unchanged for a class composes, *)
LEMMA SameTwice ==
    ASSUME NEW q, NEW r, NEW s, NEW K, Same(q, r, K), Same(r, s, K)
    PROVE  Same(q, s, K)
BY Zenon DEF Same

(* ... with a message gained after it, *)
LEMMA SameGains ==
    ASSUME NEW q, NEW r, NEW s, NEW K, NEW m, Same(q, r, K), Gains(r, s, K, m)
    PROVE  Gains(q, s, K, m)
BY Zenon DEF Same, Gains

(* ... with a message gained before it, *)
LEMMA GainsSame ==
    ASSUME NEW q, NEW r, NEW s, NEW K, NEW m, Gains(q, r, K, m), Same(r, s, K)
    PROVE  Gains(q, s, K, m)
BY Zenon DEF Same, Gains

(* ... and a queue is unchanged by nothing. *)
LEMMA SameItself == ASSUME NEW q, NEW K PROVE Same(q, q, K)
BY Zenon DEF Same

-----------------------------------------------------------------------------
(* One option: what the host believes (y), what the terminal believes (b),
   and what is on its way to the terminal (p) and to the host (q). *)

(* One end asks, the other answers: what a negotiation without surprises *)
(* goes through.                                                         *)
Turns(y, b, p, q, yes, no, will, wont) ==
    LET P == {yes, no}
        Q == {will, wont}
    IN  \/ y = "NO" /\ ~b /\ None(p, P) /\ None(q, Q)
        \/ y = "WANTYES" /\ ~b /\ One(p, P, yes) /\ None(q, Q)
        \/ y = "WANTYES" /\ b /\ None(p, P) /\ One(q, Q, will)
        \/ y = "YES" /\ b /\ None(p, P) /\ None(q, Q)
        \/ y = "WANTNO" /\ b /\ One(p, P, no) /\ None(q, Q)
        \/ y = "WANTNO" /\ ~b /\ None(p, P) /\ One(q, Q, wont)

(* The terminal volunteers an option (telnet_fsm for WILL EOR, which sends *)
(* WILL EOR too) while the host asks for it or withdraws it.               *)
Crossed(y, b, p, q, yes, no, will, wont) ==
    LET P == {yes, no}
        Q == {will, wont}
    IN  \/ y = "NO" /\ b /\ None(p, P) /\ One(q, Q, will)
        \/ y = "WANTYES" /\ b /\ One(p, P, yes) /\ One(q, Q, will)
        \/ y = "YES" /\ b /\ One(p, P, yes) /\ None(q, Q)
        \/ y = "WANTNO" /\ b /\ Two(p, P, yes, no) /\ None(q, Q)
        \/ y = "WANTNO" /\ b /\ None(p, P) /\ Two(q, Q, wont, will)

(* The terminal volunteers an option that the host does not accept: it says *)
(* no, the terminal gives in, and either may meanwhile ask again.           *)
Declined(y, b, p, q, yes, no, will, wont) ==
    LET P == {yes, no}
        Q == {will, wont}
    IN  \/ y = "NO" /\ ~b /\ None(p, P) /\ One(q, Q, wont)
        \/ y = "NO" /\ ~b /\ One(p, P, yes) /\ None(q, Q)
        \/ y = "NO" /\ b /\ None(p, P) /\ Two(q, Q, wont, will)
        \/ y = "NO" /\ b /\ One(p, P, no) /\ None(q, Q)
        \/ y = "NO" /\ b /\ Two(p, P, yes, no) /\ None(q, Q)
        \/ y = "NO" /\ b /\ One(p, P, yes) /\ One(q, Q, will)
        \/ y = "WANTNO" /\ b /\ Three(p, P, yes, yes, no) /\ None(q, Q)
        \/ y = "WANTYES" /\ ~b /\ Two(p, P, yes, yes) /\ None(q, Q)
        \/ y = "WANTYES" /\ ~b /\ One(p, P, yes) /\ One(q, Q, wont)
        \/ y = "WANTYES" /\ b /\ None(p, P) /\ Two(q, Q, wont, will)
        \/ y = "WANTYES" /\ b /\ Two(p, P, no, yes) /\ None(q, Q)
        \/ y = "WANTYES" /\ b /\ Three(p, P, yes, no, yes) /\ None(q, Q)
        \/ y = "WANTYES" /\ b /\ Two(p, P, yes, yes) /\ One(q, Q, will)
        \/ y = "WANTYES" /\ b /\ One(p, P, yes) /\ Two(q, Q, wont, will)
        \/ y = "YES" /\ b /\ Two(p, P, yes, yes) /\ None(q, Q)

(* All ways to go together; w is whether the terminal agrees to the option *)
(* when asked, acc whether the host does.                                  *)
Fits(y, b, w, acc, p, q, yes, no, will, wont) ==
    /\ b => w
    /\ \/ Turns(y, b, p, q, yes, no, will, wont)
       \/ Crossed(y, b, p, q, yes, no, will, wont)
       \/ w /\ ~acc /\ Declined(y, b, p, q, yes, no, will, wont)
       \/ ~w /\ y = "WANTYES" /\ None(p, {yes, no}) /\ One(q, {will, wont}, wont)

(* What is unchanged for both classes still fits. *)
LEMMA FitsStill ==
    ASSUME NEW y, NEW b \in BOOLEAN, NEW w \in BOOLEAN, NEW acc \in BOOLEAN, NEW p, NEW q, NEW p2, NEW q2,
           NEW yes, NEW no, NEW will, NEW wont,
           Fits(y, b, w, acc, p, q, yes, no, will, wont),
           Same(p, p2, {yes, no}), Same(q, q2, {will, wont})
    PROVE  Fits(y, b, w, acc, p2, q2, yes, no, will, wont)
BY DEF Fits, Turns, Crossed, Declined, Same

(* The host starts to change the option (HostStarts). *)
LEMMA FitsAsked ==
    ASSUME NEW y, NEW b \in BOOLEAN, NEW w \in BOOLEAN, NEW acc \in BOOLEAN, NEW p, NEW q, NEW p2,
           NEW yes, NEW no, NEW will, NEW wont,
           Fits(y, b, w, acc, p, q, yes, no, will, wont)
    PROVE  /\ y = "NO" /\ Gains(p, p2, {yes, no}, yes) => Fits("WANTYES", b, w, acc, p2, q, yes, no, will, wont)
           /\ y = "YES" /\ Gains(p, p2, {yes, no}, no) => Fits("WANTNO", b, w, acc, p2, q, yes, no, will, wont)
BY DEF Fits, Turns, Crossed, Declined, Gains

(* The terminal agrees to what the host asked for. *)
LEMMA FitsAgreed ==
    ASSUME NEW y, NEW b \in BOOLEAN, NEW w \in BOOLEAN, NEW acc \in BOOLEAN, NEW p, NEW q, NEW q2,
           NEW yes, NEW no, NEW will, NEW wont, will # wont,
           Fits(y, b, w, acc, p, q, yes, no, will, wont), Loses(q, q2, {will, wont}, will)
    PROVE  y = "WANTYES" => Fits("YES", b, w, acc, p, q2, yes, no, will, wont)
BY DEF Fits, Turns, Crossed, Declined, Loses

(* A yes of the terminal finds the host asking, or not knowing of it. *)
LEMMA FitsOpen ==
    ASSUME NEW y, NEW b \in BOOLEAN, NEW w \in BOOLEAN, NEW acc \in BOOLEAN, NEW p, NEW q, NEW q2,
           NEW yes, NEW no, NEW will, NEW wont, will # wont,
           Fits(y, b, w, acc, p, q, yes, no, will, wont), Loses(q, q2, {will, wont}, will)
    PROVE  y \notin {"YES", "WANTNO"}
BY DEF Fits, Turns, Crossed, Declined, Loses

(* The terminal volunteers, and the host accepts. *)
LEMMA FitsAccepted ==
    ASSUME NEW y, NEW b \in BOOLEAN, NEW w \in BOOLEAN, NEW acc \in BOOLEAN, NEW p, NEW q, NEW p2, NEW q2,
           NEW yes, NEW no, NEW will, NEW wont, will # wont,
           Fits(y, b, w, acc, p, q, yes, no, will, wont), Loses(q, q2, {will, wont}, will),
           y = "NO", acc, Gains(p, p2, {yes, no}, yes)
    PROVE  Fits("YES", b, w, acc, p2, q2, yes, no, will, wont)
BY DEF Fits, Turns, Crossed, Declined, Loses, Gains

(* The terminal volunteers, and the host refuses. *)
LEMMA FitsUnwanted ==
    ASSUME NEW y, NEW b \in BOOLEAN, NEW w \in BOOLEAN, NEW acc \in BOOLEAN, NEW p, NEW q, NEW p2, NEW q2,
           NEW yes, NEW no, NEW will, NEW wont, will # wont,
           Fits(y, b, w, acc, p, q, yes, no, will, wont), Loses(q, q2, {will, wont}, will),
           y = "NO", ~acc, Gains(p, p2, {yes, no}, no)
    PROVE  Fits("NO", b, w, acc, p2, q2, yes, no, will, wont)
BY DEF Fits, Turns, Crossed, Declined, Loses, Gains

(* A no of the terminal never finds the option agreed. *)
LEMMA FitsRefused ==
    ASSUME NEW y, NEW b \in BOOLEAN, NEW w \in BOOLEAN, NEW acc \in BOOLEAN, NEW p, NEW q, NEW q2,
           NEW yes, NEW no, NEW will, NEW wont, will # wont,
           Fits(y, b, w, acc, p, q, yes, no, will, wont), Loses(q, q2, {will, wont}, wont)
    PROVE  Fits("NO", b, w, acc, p, q2, yes, no, will, wont) /\ y # "YES"
BY DEF Fits, Turns, Crossed, Declined, Loses

(* The host asks for an option (telnet_fsm for DO and WILL). What the *)
(* terminal does not want it never had on.                            *)
LEMMA FitsYesUnwanted ==
    ASSUME NEW y, NEW b \in BOOLEAN, NEW acc \in BOOLEAN, NEW p, NEW q, NEW w,
           NEW yes, NEW no, NEW will, NEW wont,
           Fits(y, b, w, acc, p, q, yes, no, will, wont), ~w
    PROVE  ~b
BY DEF Fits

(* An unwilling terminal refuses, *)
LEMMA FitsYesRefused ==
    ASSUME NEW y, NEW b \in BOOLEAN, NEW w \in BOOLEAN, NEW acc \in BOOLEAN, NEW p, NEW q, NEW p2, NEW q2,
           NEW yes, NEW no, NEW will, NEW wont, yes # no, will # wont,
           Fits(y, b, w, acc, p, q, yes, no, will, wont), Loses(p, p2, {yes, no}, yes),
           ~w, Gains(q, q2, {will, wont}, wont)
    PROVE  Fits(y, FALSE, w, acc, p2, q2, yes, no, will, wont)
BY DEF Fits, Turns, Crossed, Declined, Loses, Gains

(* ... a willing one agrees, *)
LEMMA FitsYesGranted ==
    ASSUME NEW y, NEW b \in BOOLEAN, NEW w \in BOOLEAN, NEW acc \in BOOLEAN, NEW p, NEW q, NEW p2, NEW q2,
           NEW yes, NEW no, NEW will, NEW wont, yes # no, will # wont,
           Fits(y, b, w, acc, p, q, yes, no, will, wont), Loses(p, p2, {yes, no}, yes),
           w, ~b, Gains(q, q2, {will, wont}, will)
    PROVE  Fits(y, TRUE, w, acc, p2, q2, yes, no, will, wont)
BY DEF Fits, Turns, Crossed, Declined, Loses, Gains

(* ... and one that had agreed already says nothing. *)
LEMMA FitsYesKept ==
    ASSUME NEW y, NEW b \in BOOLEAN, NEW w \in BOOLEAN, NEW acc \in BOOLEAN, NEW p, NEW q, NEW p2,
           NEW yes, NEW no, NEW will, NEW wont, yes # no, will # wont,
           Fits(y, b, w, acc, p, q, yes, no, will, wont), Loses(p, p2, {yes, no}, yes),
           w, b
    PROVE  Fits(y, TRUE, w, acc, p2, q, yes, no, will, wont)
BY DEF Fits, Turns, Crossed, Declined, Loses

(* The host withdraws: the terminal confirms (telnet_fsm for DONT and WONT). *)
LEMMA FitsNo ==
    ASSUME NEW y, NEW b \in BOOLEAN, NEW w \in BOOLEAN, NEW acc \in BOOLEAN, NEW p, NEW q, NEW p2, NEW q2,
           NEW yes, NEW no, NEW will, NEW wont, yes # no, will # wont,
           Fits(y, b, w, acc, p, q, yes, no, will, wont), Loses(p, p2, {yes, no}, no)
    PROVE  /\ b /\ Gains(q, q2, {will, wont}, wont) => Fits(y, FALSE, w, acc, p2, q2, yes, no, will, wont)
           /\ ~b => Fits(y, FALSE, w, acc, p2, q, yes, no, will, wont)
<1>1. ASSUME b, Gains(q, q2, {will, wont}, wont)
      PROVE  Fits(y, FALSE, w, acc, p2, q2, yes, no, will, wont)
  <2>1. CASE Turns(y, b, p, q, yes, no, will, wont)
    BY <1>1, <2>1 DEF Fits, Turns, Loses, Gains
  <2>2. CASE Crossed(y, b, p, q, yes, no, will, wont)
    BY <2>2 DEF Crossed, Loses
  <2>3. CASE w /\ ~acc /\ Declined(y, b, p, q, yes, no, will, wont)
    <3>1. \/ y = "NO" /\ One(p, {yes, no}, no) /\ None(q, {will, wont})
          \/ y = "WANTYES" /\ Two(p, {yes, no}, no, yes) /\ None(q, {will, wont})
      BY <1>1, <2>3 DEF Declined, Loses
    <3>2. Declined(y, FALSE, p2, q2, yes, no, will, wont)
      BY <1>1, <3>1 DEF Declined, Loses, Gains
    <3> QED BY <2>3, <3>2 DEF Fits
  <2> QED BY <1>1, <2>1, <2>2, <2>3 DEF Fits
<1>2. ~b => Fits(y, FALSE, w, acc, p2, q, yes, no, will, wont)
  BY DEF Fits, Turns, Crossed, Declined, Loses
<1> QED BY <1>1, <1>2

(* The terminal volunteers an option it is not asked for (telnet_fsm for *)
(* WILL EOR).                                                            *)
LEMMA FitsOffered ==
    ASSUME NEW y, NEW b \in BOOLEAN, NEW w \in BOOLEAN, NEW acc \in BOOLEAN, NEW p, NEW q, NEW q2,
           NEW yes, NEW no, NEW will, NEW wont, yes # no, will # wont,
           Fits(y, b, w, acc, p, q, yes, no, will, wont), w, ~b, Gains(q, q2, {will, wont}, will)
    PROVE  Fits(y, TRUE, w, acc, p, q2, yes, no, will, wont)
BY DEF Fits, Turns, Crossed, Declined, Gains

-----------------------------------------------------------------------------
(* TN3270E: the option and its subnegotiation are one conversation. *)

(* The option commands for TN3270E, the subnegotiations the terminal is sent *)
(* and sends (tn3270e_negotiate), and the two classes they make.             *)
TnDo == <<"DO", "TN3270E">>
TnDont == <<"DONT", "TN3270E">>
TnWill == <<"WILL", "TN3270E">>
TnWont == <<"WONT", "TN3270E">>
Replies == {<<"DEVICE_TYPE_IS">>, <<"REJECT">>, <<"REJECT_LU">>}
InTokens == {<<"SEND_DEVICE_TYPE">>} \cup Replies
            \cup ({"FUNCTIONS_REQUEST", "FUNCTIONS_IS"} \X SUBSET Function)
OutTokens == ({"DEVICE_TYPE_REQUEST"} \X (0 .. Lus))
             \cup ({"FUNCTIONS_REQUEST", "FUNCTIONS_IS"} \X SUBSET Function)
TnIn == {TnDo, TnDont} \cup InTokens
TnOut == {TnWill, TnWont} \cup OutTokens

(* Subnegotiations and option commands are different messages. *)
LEMMA Tokens ==
    /\ \A m \in InTokens : m # TnDo /\ m # TnDont /\ m \in TnIn
    /\ \A m \in OutTokens : m # TnWill /\ m # TnWont /\ m \in TnOut
    /\ TnDo # TnDont /\ TnWill # TnWont /\ {TnDo, TnDont} \subseteq TnIn /\ {TnWill, TnWont} \subseteq TnOut
<1>1. \A m \in InTokens : m[1] \in {"SEND_DEVICE_TYPE", "DEVICE_TYPE_IS", "REJECT", "REJECT_LU",
                                        "FUNCTIONS_REQUEST", "FUNCTIONS_IS"}
  BY DEF InTokens, Replies
<1>2. \A m \in OutTokens : m[1] \in {"DEVICE_TYPE_REQUEST", "FUNCTIONS_REQUEST", "FUNCTIONS_IS"}
  BY DEF OutTokens
<1>3. TnDo[1] = "DO" /\ TnDont[1] = "DONT" /\ TnWill[1] = "WILL" /\ TnWont[1] = "WONT"
  BY DEF TnDo, TnDont, TnWill, TnWont
<1> QED BY <1>1, <1>2, <1>3 DEF TnIn, TnOut

(* The exchange once both have agreed to TN3270E: whose turn it is, and on *)
(* what message the other waits (n: the terminal is done; f, g: the        *)
(* functions of terminal and host).                                        *)
Exchange(n, f, g, p, q) ==
    \/ /\ ~n /\ g = NoAgreement /\ None(q, TnOut)
       /\ \E m \in {<<"SEND_DEVICE_TYPE">>} \cup Replies : One(p, TnIn, m)
    \/ /\ ~n /\ g = NoAgreement /\ None(p, TnIn)
       /\ \E lu \in 0 .. Lus : One(q, TnOut, <<"DEVICE_TYPE_REQUEST", lu>>)
    \/ /\ ~n /\ g = NoAgreement /\ None(p, TnIn)
       /\ One(q, TnOut, <<"FUNCTIONS_REQUEST", f>>)
    \/ /\ ~n /\ g = f /\ None(q, TnOut)
       /\ One(p, TnIn, <<"FUNCTIONS_IS", f>>)
    \/ /\ ~n /\ g = NoAgreement /\ None(q, TnOut)
       /\ \E e \in SUBSET f : e # f /\ One(p, TnIn, <<"FUNCTIONS_REQUEST", e>>)
    \/ /\ n /\ g = NoAgreement /\ None(p, TnIn)
       /\ One(q, TnOut, <<"FUNCTIONS_IS", f>>)
    \/ n /\ g = f /\ None(p, TnIn) /\ None(q, TnOut)

(* All ways in which the states of both ends of TN3270E and the messages *)
(* about it go together.                                                 *)
FitsTn(y, b, n, f, g, p, q) ==
    \/ y = "NO" /\ ~b /\ g = NoAgreement /\ None(p, TnIn) /\ None(q, TnOut)
    \/ y = "NO" /\ ~b /\ g = NoAgreement /\ One(p, TnIn, TnDont) /\ None(q, TnOut)
    \/ y = "WANTYES" /\ ~b /\ g = NoAgreement /\ One(p, TnIn, TnDo) /\ None(q, TnOut)
    \/ y = "WANTYES" /\ ~b /\ g = NoAgreement /\ Two(p, TnIn, TnDont, TnDo) /\ None(q, TnOut)
    \/ y = "WANTYES" /\ ~b /\ g = NoAgreement /\ None(p, TnIn) /\ One(q, TnOut, TnWont)
    \/ y = "WANTYES" /\ b /\ ~n /\ g = NoAgreement /\ None(p, TnIn) /\ One(q, TnOut, TnWill)
    \/ y = "YES" /\ b /\ Exchange(n, f, g, p, q)
    \/ y = "YES" /\ ~b /\ g = NoAgreement /\ None(p, TnIn) /\ One(q, TnOut, TnWont)
    \/ y = "WANTNO" /\ b /\ One(p, TnIn, TnDont) /\ None(q, TnOut)
    \/ y = "WANTNO" /\ b /\ One(p, TnIn, TnDont) /\ \E t \in OutTokens : One(q, TnOut, t)
    \/ y = "WANTNO" /\ b /\ (\E t \in InTokens : Two(p, TnIn, t, TnDont)) /\ None(q, TnOut)
    \/ y = "WANTNO" /\ ~b /\ None(p, TnIn) /\ One(q, TnOut, TnWont)
    \/ y = "WANTNO" /\ ~b /\ None(p, TnIn) /\ \E t \in OutTokens : Two(q, TnOut, t, TnWont)
    \/ y = "WANTNO" /\ ~b /\ One(p, TnIn, TnDont) /\ One(q, TnOut, TnWont)

(* What is unchanged for TN3270E still fits. *)
LEMMA TnStill ==
    ASSUME NEW y, NEW b \in BOOLEAN, NEW n \in BOOLEAN, NEW f, NEW g, NEW p, NEW q, NEW p2, NEW q2,
           FitsTn(y, b, n, f, g, p, q), Same(p, p2, TnIn), Same(q, q2, TnOut)
    PROVE  FitsTn(y, b, n, f, g, p2, q2)
<1>1. Exchange(n, f, g, p, q) => Exchange(n, f, g, p2, q2)
  BY DEF Exchange, Same
<1> QED BY <1>1 DEF FitsTn, Same

(* The host starts to change TN3270E (HostStarts). *)
LEMMA TnAsked ==
    ASSUME NEW y, NEW b \in BOOLEAN, NEW n \in BOOLEAN, NEW f \in SUBSET Function, NEW g, NEW p, NEW q, NEW p2,
           FitsTn(y, b, n, f, g, p, q)
    PROVE  /\ y = "NO" /\ Gains(p, p2, TnIn, TnDo) => FitsTn("WANTYES", b, n, f, g, p2, q)
           /\ y = "YES" /\ Gains(p, p2, TnIn, TnDont) => FitsTn("WANTNO", b, n, f, g, p2, q)
<1>1. y = "NO" /\ Gains(p, p2, TnIn, TnDo) => FitsTn("WANTYES", b, n, f, g, p2, q)
  BY DEF FitsTn, Gains
<1>2. ASSUME Exchange(n, f, g, p, q), Gains(p, p2, TnIn, TnDont)
      PROVE  \/ One(p2, TnIn, TnDont) /\ None(q, TnOut)
             \/ One(p2, TnIn, TnDont) /\ \E t \in OutTokens : One(q, TnOut, t)
             \/ (\E t \in InTokens : Two(p2, TnIn, t, TnDont)) /\ None(q, TnOut)
  <2>1. ASSUME NEW m \in InTokens, One(p, TnIn, m)
        PROVE  \E t \in InTokens : Two(p2, TnIn, t, TnDont)
    BY <1>2, <2>1 DEF Gains
  <2>2. /\ {<<"SEND_DEVICE_TYPE">>} \cup Replies \subseteq InTokens
        /\ \A e \in SUBSET Function : /\ <<"FUNCTIONS_IS", e>> \in InTokens \cap OutTokens
                                      /\ <<"FUNCTIONS_REQUEST", e>> \in InTokens \cap OutTokens
        /\ \A lu \in 0 .. Lus : <<"DEVICE_TYPE_REQUEST", lu>> \in OutTokens
    BY DEF InTokens, OutTokens
  <2>3. None(p, TnIn) => One(p2, TnIn, TnDont)
    BY <1>2 DEF Gains
  <2> QED BY <1>2, <2>1, <2>2, <2>3 DEF Exchange
<1>3. y = "YES" /\ Gains(p, p2, TnIn, TnDont) => FitsTn("WANTNO", b, n, f, g, p2, q)
  BY <1>2 DEF FitsTn, Gains
<1> QED BY <1>1, <1>3

(* The terminal agrees to TN3270E: the host was asking, and asks for the *)
(* device type.                                                          *)
LEMMA TnHeardWill ==
    ASSUME NEW y, NEW b \in BOOLEAN, NEW n \in BOOLEAN, NEW f \in SUBSET Function, NEW g, NEW p, NEW q, NEW p2, NEW q2,
           FitsTn(y, b, n, f, g, p, q), Loses(q, q2, TnOut, TnWill)
    PROVE  /\ y = "WANTYES"
           /\ Gains(p, p2, TnIn, <<"SEND_DEVICE_TYPE">>) => FitsTn("YES", b, n, f, NoAgreement, p2, q2)
<1>1. y = "WANTYES" /\ b /\ ~n /\ None(p, TnIn) /\ None(q2, TnOut)
  <2>1. ~Exchange(n, f, g, p, q)
    <3>1. \A e : <<"FUNCTIONS_IS", e>> # TnWill /\ <<"FUNCTIONS_REQUEST", e>> # TnWill /\ <<"DEVICE_TYPE_REQUEST", e>> # TnWill
      BY DEF TnWill
    <3> QED BY <3>1 DEF Exchange, Loses
  <2> QED BY <2>1, Tokens DEF FitsTn, Loses
<1>2. Gains(p, p2, TnIn, <<"SEND_DEVICE_TYPE">>) => Exchange(n, f, NoAgreement, p2, q2)
  BY <1>1 DEF Gains, Exchange
<1> QED BY <1>1, <1>2 DEF FitsTn

(* The terminal leaves TN3270E: the host knew of it, and its end is void. *)
LEMMA TnHeardWont ==
    ASSUME NEW y, NEW b \in BOOLEAN, NEW n \in BOOLEAN, NEW f \in SUBSET Function, NEW g, NEW p, NEW q, NEW p2, NEW q2,
           FitsTn(y, b, n, f, g, p, q), Loses(q, q2, TnOut, TnWont)
    PROVE  /\ y # "NO"
           /\ y = "YES" /\ Gains(p, p2, TnIn, TnDont) => FitsTn("NO", b, n, f, NoAgreement, p2, q2)
           /\ y # "YES" => FitsTn("NO", b, n, f, NoAgreement, p, q2)
<1>1. ~Exchange(n, f, g, p, q)
  <2>1. \A e : <<"FUNCTIONS_IS", e>> # TnWont /\ <<"FUNCTIONS_REQUEST", e>> # TnWont /\ <<"DEVICE_TYPE_REQUEST", e>> # TnWont
    BY DEF TnWont
  <2> QED BY <2>1 DEF Exchange, Loses
<1>2. y = "YES" => ~b /\ None(p, TnIn) /\ None(q2, TnOut)
  BY <1>1 DEF FitsTn, Loses
<1>3. y # "YES" => ~b /\ (None(p, TnIn) \/ One(p, TnIn, TnDont)) /\ None(q2, TnOut) /\ y # "NO"
  BY <1>1, Tokens DEF FitsTn, Loses
<1> QED BY <1>2, <1>3 DEF FitsTn, Gains

(* A subnegotiation of the terminal is the one the host waits for, unless *)
(* the host is already withdrawing.                                       *)
LEMMA TnHeardToken ==
    ASSUME NEW y, NEW b \in BOOLEAN, NEW n \in BOOLEAN, NEW f \in SUBSET Function, NEW g, NEW p, NEW q, NEW q2,
           NEW t \in OutTokens,
           FitsTn(y, b, n, f, g, p, q), Loses(q, q2, TnOut, t)
    PROVE  /\ y # "YES" => FitsTn(y, b, n, f, g, p, q2)
           /\ y = "YES" => /\ b /\ None(p, TnIn) /\ None(q2, TnOut) /\ g = NoAgreement
                           /\ \/ ~n /\ \E lu \in 0 .. Lus : t = <<"DEVICE_TYPE_REQUEST", lu>>
                              \/ ~n /\ t = <<"FUNCTIONS_REQUEST", f>>
                              \/ n /\ t = <<"FUNCTIONS_IS", f>>
<1>1. t # TnWill /\ t # TnWont
  BY Tokens
<1>2. ASSUME Exchange(n, f, g, p, q)
      PROVE  /\ None(p, TnIn) /\ None(q2, TnOut) /\ g = NoAgreement
             /\ \/ ~n /\ \E lu \in 0 .. Lus : t = <<"DEVICE_TYPE_REQUEST", lu>>
                \/ ~n /\ t = <<"FUNCTIONS_REQUEST", f>>
                \/ n /\ t = <<"FUNCTIONS_IS", f>>
  BY <1>2 DEF Exchange, Loses
<1>3. y # "YES" => FitsTn(y, b, n, f, g, p, q2)
  BY <1>1 DEF FitsTn, Loses
<1>4. y = "YES" => b /\ Exchange(n, f, g, p, q)
  BY <1>1 DEF FitsTn, Loses
<1> QED BY <1>2, <1>3, <1>4

(* The host answers a subnegotiation, or takes the last one. *)
LEMMA TnAnswered ==
    ASSUME NEW n \in BOOLEAN, NEW f \in SUBSET Function, NEW p, NEW q, NEW p2,
           None(p, TnIn), None(q, TnOut)
    PROVE  /\ ~n => \A m \in Replies : Gains(p, p2, TnIn, m) => Exchange(n, f, NoAgreement, p2, q)
           /\ ~n /\ Gains(p, p2, TnIn, <<"FUNCTIONS_IS", f>>) => Exchange(n, f, f, p2, q)
           /\ \A e \in SUBSET f : ~n /\ e # f /\ Gains(p, p2, TnIn, <<"FUNCTIONS_REQUEST", e>>)
                                  => Exchange(n, f, NoAgreement, p2, q)
           /\ n => Exchange(n, f, f, p, q)
<1>1. ASSUME NEW m \in Replies, Gains(p, p2, TnIn, m), ~n
      PROVE  Exchange(n, f, NoAgreement, p2, q)
  BY <1>1 DEF Exchange, Gains
<1>2. ASSUME NEW e \in SUBSET f, e # f, Gains(p, p2, TnIn, <<"FUNCTIONS_REQUEST", e>>), ~n
      PROVE  Exchange(n, f, NoAgreement, p2, q)
  BY <1>2 DEF Exchange, Gains
<1>3. ~n /\ Gains(p, p2, TnIn, <<"FUNCTIONS_IS", f>>) => Exchange(n, f, f, p2, q)
  BY DEF Exchange, Gains
<1> QED BY <1>1, <1>2, <1>3 DEF Exchange

(* The terminal is asked for TN3270E only when it is not in it. *)
LEMMA TnOff ==
    ASSUME NEW y, NEW b \in BOOLEAN, NEW n \in BOOLEAN, NEW f \in SUBSET Function, NEW g, NEW p, NEW q, NEW p2,
           FitsTn(y, b, n, f, g, p, q), Loses(p, p2, TnIn, TnDo)
    PROVE  y = "WANTYES" /\ ~b /\ g = NoAgreement /\ None(p2, TnIn) /\ None(q, TnOut)
<1>1. ~Exchange(n, f, g, p, q)
  <2>1. \A e : <<"FUNCTIONS_IS", e>> # TnDo /\ <<"FUNCTIONS_REQUEST", e>> # TnDo
    BY DEF TnDo
  <2> QED BY <2>1, Tokens DEF Exchange, Loses, InTokens
<1> QED BY <1>1, Tokens DEF FitsTn, Loses

(* It refuses, *)
LEMMA TnYesRefused ==
    ASSUME NEW y, NEW b \in BOOLEAN, NEW n \in BOOLEAN, NEW f \in SUBSET Function, NEW g, NEW p, NEW q, NEW p2, NEW q2,
           FitsTn(y, b, n, f, g, p, q), Loses(p, p2, TnIn, TnDo),
           Gains(q, q2, TnOut, TnWont)
    PROVE  FitsTn(y, FALSE, n, f, g, p2, q2)
<1>1. y = "WANTYES" /\ g = NoAgreement /\ None(p2, TnIn) /\ None(q, TnOut)
  BY TnOff
<1>2. One(q2, TnOut, TnWont)
  BY <1>1 DEF Gains
<1> QED BY <1>1, <1>2 DEF FitsTn

(* ... or agrees. *)
LEMMA TnYesGranted ==
    ASSUME NEW y, NEW b \in BOOLEAN, NEW n \in BOOLEAN, NEW f \in SUBSET Function, NEW g, NEW p, NEW q, NEW p2, NEW q2,
           FitsTn(y, b, n, f, g, p, q), Loses(p, p2, TnIn, TnDo),
           Gains(q, q2, TnOut, TnWill)
    PROVE  FitsTn(y, TRUE, FALSE, f, g, p2, q2)
<1>1. y = "WANTYES" /\ g = NoAgreement /\ None(p2, TnIn) /\ None(q, TnOut)
  BY TnOff
<1>2. One(q2, TnOut, TnWill)
  BY <1>1 DEF Gains
<1> QED BY <1>1, <1>2 DEF FitsTn

(* The host withdraws TN3270E: the terminal leaves it, and confirms if it *)
(* was in it.                                                             *)
LEMMA TnNo ==
    ASSUME NEW y, NEW b \in BOOLEAN, NEW n \in BOOLEAN, NEW f \in SUBSET Function, NEW g, NEW p, NEW q, NEW p2, NEW q2,
           FitsTn(y, b, n, f, g, p, q), Loses(p, p2, TnIn, TnDont)
    PROVE  /\ b /\ Gains(q, q2, TnOut, TnWont) => FitsTn(y, FALSE, FALSE, f, g, p2, q2)
           /\ ~b => FitsTn(y, FALSE, n, f, g, p2, q)
<1>1. ~Exchange(n, f, g, p, q)
  <2>1. \A e : <<"FUNCTIONS_IS", e>> # TnDont /\ <<"FUNCTIONS_REQUEST", e>> # TnDont
    BY DEF TnDont
  <2> QED BY <2>1, Tokens DEF Exchange, Loses, InTokens
<1>2. b => /\ y = "WANTNO" /\ None(p2, TnIn)
           /\ None(q, TnOut) \/ \E t \in OutTokens : One(q, TnOut, t)
  BY <1>1, Tokens DEF FitsTn, Loses
<1>3. b /\ Gains(q, q2, TnOut, TnWont) => FitsTn(y, FALSE, FALSE, f, g, p2, q2)
  BY <1>2 DEF FitsTn, Gains
<1>4. ~b => FitsTn(y, FALSE, n, f, g, p2, q)
  BY <1>1, Tokens DEF FitsTn, Loses
<1> QED BY <1>3, <1>4

(* A subnegotiation of the host finds the terminal in TN3270E, and nothing *)
(* of it on the way to the host.                                           *)
LEMMA TnToken ==
    ASSUME NEW y, NEW b \in BOOLEAN, NEW n \in BOOLEAN, NEW f \in SUBSET Function, NEW g, NEW p, NEW q, NEW p2,
           NEW t \in InTokens,
           FitsTn(y, b, n, f, g, p, q), Loses(p, p2, TnIn, t)
    PROVE  /\ b /\ None(q, TnOut)
           /\ \/ y = "WANTNO" /\ One(p2, TnIn, TnDont)
              \/ /\ y = "YES" /\ None(p2, TnIn) /\ ~n
                 /\ \/ g = NoAgreement /\ t \in {<<"SEND_DEVICE_TYPE">>} \cup Replies
                    \/ g = NoAgreement /\ \E e \in SUBSET f : e # f /\ t = <<"FUNCTIONS_REQUEST", e>>
                    \/ g = f /\ t = <<"FUNCTIONS_IS", f>>
<1>1. t # TnDo /\ t # TnDont
  BY Tokens
<1>2. Exchange(n, f, g, p, q) =>
        /\ None(q, TnOut) /\ None(p2, TnIn) /\ ~n
        /\ \/ g = NoAgreement /\ t \in {<<"SEND_DEVICE_TYPE">>} \cup Replies
           \/ g = NoAgreement /\ \E e \in SUBSET f : e # f /\ t = <<"FUNCTIONS_REQUEST", e>>
           \/ g = f /\ t = <<"FUNCTIONS_IS", f>>
  BY DEF Exchange, Loses
<1>3. \/ y = "WANTNO" /\ b /\ One(p2, TnIn, TnDont) /\ None(q, TnOut)
      \/ y = "YES" /\ b /\ Exchange(n, f, g, p, q)
  BY <1>1 DEF FitsTn, Loses
<1> QED BY <1>2, <1>3

(* The terminal answers a subnegotiation and stays, completes, or leaves *)
(* (tn3270e_negotiate, backoff_tn3270e).                                 *)
LEMMA TnAnswers ==
    ASSUME NEW y, NEW n \in BOOLEAN, NEW f \in SUBSET Function, NEW g, NEW p, NEW q, NEW q2,
           NEW n2 \in BOOLEAN, NEW f2 \in SUBSET Function, None(q, TnOut),
           \/ y = "WANTNO" /\ One(p, TnIn, TnDont)
           \/ y = "YES" /\ None(p, TnIn) /\ g = NoAgreement
    PROVE  /\ Gains(q, q2, TnOut, TnWont) => FitsTn(y, FALSE, FALSE, f2, g, p, q2)
           /\ \A lu \in 0 .. Lus : Gains(q, q2, TnOut, <<"DEVICE_TYPE_REQUEST", lu>>)
                                   => FitsTn(y, TRUE, FALSE, f2, g, p, q2)
           /\ Gains(q, q2, TnOut, <<"FUNCTIONS_REQUEST", f2>>) => FitsTn(y, TRUE, FALSE, f2, g, p, q2)
           /\ Gains(q, q2, TnOut, <<"FUNCTIONS_IS", f2>>) => FitsTn(y, TRUE, TRUE, f2, g, p, q2)
<1>1. Gains(q, q2, TnOut, TnWont) => FitsTn(y, FALSE, FALSE, f2, g, p, q2)
  BY DEF FitsTn, Gains
<1>2. ASSUME NEW t \in OutTokens, Gains(q, q2, TnOut, t), y = "WANTNO"
      PROVE  FitsTn(y, TRUE, TRUE, f2, g, p, q2) /\ FitsTn(y, TRUE, FALSE, f2, g, p, q2)
  BY <1>2 DEF FitsTn, Gains
<1>3. /\ <<"FUNCTIONS_IS", f2>> \in OutTokens /\ <<"FUNCTIONS_REQUEST", f2>> \in OutTokens
      /\ \A lu \in 0 .. Lus : <<"DEVICE_TYPE_REQUEST", lu>> \in OutTokens
  BY DEF OutTokens
<1>4. ASSUME y = "YES"
      PROVE  /\ \A lu \in 0 .. Lus : Gains(q, q2, TnOut, <<"DEVICE_TYPE_REQUEST", lu>>)
                                     => Exchange(FALSE, f2, g, p, q2)
             /\ Gains(q, q2, TnOut, <<"FUNCTIONS_REQUEST", f2>>) => Exchange(FALSE, f2, g, p, q2)
             /\ Gains(q, q2, TnOut, <<"FUNCTIONS_IS", f2>>) => Exchange(TRUE, f2, g, p, q2)
  BY <1>4 DEF Exchange, Gains
<1>5. y = "YES" /\ Exchange(FALSE, f2, g, p, q2) => FitsTn(y, TRUE, FALSE, f2, g, p, q2)
  BY DEF FitsTn
<1>6. y = "YES" /\ Exchange(TRUE, f2, g, p, q2) => FitsTn(y, TRUE, TRUE, f2, g, p, q2)
  BY DEF FitsTn
<1> QED BY <1>1, <1>2, <1>3, <1>4, <1>5, <1>6

-----------------------------------------------------------------------------

-----------------------------------------------------------------------------
(* The messages, the sessions of an open connection, and the handlers. *)

(* What the terminal sends, and what the host does. *)
Sent ==
    (OptionCommand \X Option) \cup {<<"NAWS">>, <<"STARTTLS_FOLLOWS">>} \cup OutTokens
Told == (OptionCommand \X Option) \cup InTokens

(* A session whose socket is open, with what a handler has sent so far. *)
Talking ==
    [cstate     : CState,
     sock       : {TRUE},
     rest       : BOOLEAN,
     my         : SUBSET Option,
     his        : SUBSET Option,
     linemode   : BOOLEAN,
     tls        : BOOLEAN,
     negotiated : BOOLEAN,
     submode    : {"E_NONE"},
     bound      : {FALSE},
     funcs      : SUBSET Function,
     curr_lu    : 0 .. Lus,
     try_lu     : 0 .. Lus,
     syncing    : BOOLEAN,
     excepting  : BOOLEAN,
     response   : ResponseFlag,
     out        : Seq(Sent)]

(* The mode says whether TN3270E is agreed to, and only TN3270E is *)
(* negotiated (check_in3270).                                      *)
Decided(h) ==
    /\ h.cstate = "CONNECTED_INITIAL_E" <=> "TN3270E" \in h.my
    /\ h.negotiated => "TN3270E" \in h.my

(* On an open connection net_rawout appends the message. *)
LEMMA SendSays ==
    ASSUME NEW h \in Talking, NEW m \in Sent
    PROVE  /\ Send(h, m, TRUE) = [h EXCEPT !.out = Append(h.out, m)]
           /\ Send(h, m, TRUE) \in Talking
<1>1. h.out \in Seq(Sent) /\ h.sock = TRUE
  BY Zenon DEF Talking
<1>3. Append(h.out, m) \in Seq(Sent)
  BY <1>1
<1>2. Send(h, m, TRUE) = [h EXCEPT !.out = Append(h.out, m)]
  BY <1>1 DEF Send
<1> QED BY <1>2, <1>3, ZenonT(40) DEF Talking

(* check_in3270 leaves the option tables and what was sent alone, and keeps *)
(* what was negotiated as long as the session stays in TN3270E.             *)
LEMMA In3270Checked ==
    ASSUME NEW g \in Talking, g.negotiated => g.cstate = "CONNECTED_INITIAL_E"
    PROVE  LET r == CheckIn3270(g)
           IN  /\ r \in Talking /\ Decided(r)
               /\ r.my = g.my /\ r.his = g.his /\ r.funcs = g.funcs /\ r.out = g.out
               /\ r.negotiated = (g.negotiated /\ "TN3270E" \in g.my)
<1> DEFINE r == CheckIn3270(g)
           mode == Mode(g)
<1>0. /\ g.submode = "E_NONE" /\ g.bound = FALSE /\ g.negotiated \in BOOLEAN /\ g.cstate \in CState
      /\ "E_NONE" \in {"E_NONE"} /\ FALSE \in {FALSE} /\ FALSE \in BOOLEAN
  BY DEF Talking
<1>1. "TN3270E" \in g.my => mode = "CONNECTED_INITIAL_E"
  BY <1>0 DEF Mode
<1>2. "TN3270E" \notin g.my => mode \in {"CONNECTED_3270", "CONNECTED_INITIAL", "CONNECTED_ANSI"}
  BY DEF Mode
<1>3. mode \in CState
  BY <1>1, <1>2 DEF CState
<1> HIDE DEF mode
<1>4. CASE mode = g.cstate
  <2>1. r = g
    BY <1>4 DEF CheckIn3270, mode
  <2> HIDE DEF r
  <2> QED BY <1>0, <1>1, <1>2, <1>4, <2>1 DEF Decided, r
<1>5. CASE mode # g.cstate /\ "TN3270E" \in g.my
  <2>1. r = [g EXCEPT !.cstate = mode]
    BY <1>5 DEF CheckIn3270, mode
  <2>2. r \in Talking
    BY <1>3, <2>1, Zenon DEF Talking
  <2>3. /\ r.my = g.my /\ r.his = g.his /\ r.funcs = g.funcs /\ r.out = g.out
        /\ r.negotiated = g.negotiated /\ r.cstate = mode
    BY <2>1 DEF Talking
  <2> HIDE DEF r
  <2> QED BY <1>0, <1>1, <1>5, <2>2, <2>3 DEF Decided, r
<1>6. CASE mode # g.cstate /\ "TN3270E" \notin g.my
  <2>1. r = [g EXCEPT !.cstate = mode, !.negotiated = FALSE, !.submode = "E_NONE", !.bound = FALSE]
    BY <1>6 DEF CheckIn3270, mode
  <2>2. r \in Talking
    BY <1>0, <1>3, <2>1, ZenonT(40) DEF Talking
  <2>3. /\ r.my = g.my /\ r.his = g.his /\ r.funcs = g.funcs /\ r.out = g.out
        /\ r.negotiated = FALSE /\ r.cstate = mode
    BY <2>1 DEF Talking
  <2> HIDE DEF r
  <2> QED BY <1>0, <1>2, <1>6, <2>2, <2>3 DEF Decided, r
<1> QED BY <1>4, <1>5, <1>6

(* check_linemode changes the line mode only. *)
LEMMA ModesChecked ==
    ASSUME NEW g \in Talking, g.negotiated => g.cstate = "CONNECTED_INITIAL_E"
    PROVE  LET r == CheckModes(g)
           IN  /\ r \in Talking /\ Decided(r)
               /\ r.my = g.my /\ r.his = g.his /\ r.funcs = g.funcs /\ r.out = g.out
               /\ r.negotiated = (g.negotiated /\ "TN3270E" \in g.my)
<1> DEFINE s == CheckIn3270(g)
           r == CheckModes(g)
<1>1. /\ s \in Talking /\ Decided(s)
      /\ s.my = g.my /\ s.his = g.his /\ s.funcs = g.funcs /\ s.out = g.out
      /\ s.negotiated = (g.negotiated /\ "TN3270E" \in g.my)
  BY In3270Checked
<1>2. r = [s EXCEPT !.linemode = "ECHO" \notin s.his] /\ ("ECHO" \notin s.his) \in BOOLEAN
  BY DEF CheckModes, CheckLinemode
<1> HIDE DEF r, s
<1>3. r \in Talking
  BY <1>1, <1>2, Zenon DEF Talking
<1>4. /\ r.my = s.my /\ r.his = s.his /\ r.funcs = s.funcs /\ r.out = s.out
      /\ r.negotiated = s.negotiated /\ r.cstate = s.cstate
  BY <1>1, <1>2 DEF Talking
<1>5. Decided(r)
  BY <1>1, <1>4 DEF Decided
<1> QED BY <1>1, <1>3, <1>4, <1>5 DEF r

(* What the terminal sends besides, and what it agrees to. *)
Extra == {<<"NAWS">>, <<"STARTTLS_FOLLOWS">>}
Willing(o) == o \in DoOptions /\ ~(o = "TN3270E" /\ NonTn3270e) /\ ~(o = "TM" /\ ~BsdTm)
Welcome(o) == o \in WillOptions /\ ~(o = "TN3270E" /\ NonTn3270e)

(* What the handler of an option returns: the tables, the messages, and the *)
(* state of TN3270E, which ends with the option.                            *)
Result(h, r, my, his, out) ==
    /\ r \in Talking /\ Decided(r)
    /\ r.my = my /\ r.his = his /\ r.out = out /\ r.funcs = h.funcs
    /\ r.negotiated = (h.negotiated /\ "TN3270E" \in my)

(* Option commands are messages of both directions. *)
LEMMA SentOptions ==
    \A o \in Option : {<<"WILL", o>>, <<"WONT", o>>, <<"DO", o>>, <<"DONT", o>>} \subseteq Sent \cap Told
BY DEF Sent, Told, OptionCommand

(* A handler that only sends. *)
LEMMA SendResult ==
    ASSUME NEW h \in Talking, Decided(h), NEW m \in Sent
    PROVE  Result(h, Send(h, m, TRUE), h.my, h.his, Append(h.out, m))
<1> DEFINE r == Send(h, m, TRUE)
<1>1. r = [h EXCEPT !.out = Append(h.out, m)] /\ r \in Talking
  BY SendSays
<1> HIDE DEF r
<1>2. /\ r.my = h.my /\ r.his = h.his /\ r.out = Append(h.out, m) /\ r.funcs = h.funcs
      /\ r.negotiated = h.negotiated /\ r.cstate = h.cstate /\ h.negotiated \in BOOLEAN
  BY <1>1 DEF Talking
<1>3. Decided(r)
  BY <1>2 DEF Decided
<1> QED BY <1>1, <1>2, <1>3 DEF Result, Decided, r

(* A handler that changes the tables and checks the mode. *)
LEMMA HandlerResult ==
    ASSUME NEW h \in Talking, Decided(h), NEW my \in SUBSET Option, NEW his \in SUBSET Option, NEW m \in Sent
    PROVE  LET g == [h EXCEPT !.my = my, !.his = his]
           IN  /\ Result(h, CheckModes(g), my, his, h.out)
               /\ Result(h, CheckModes(Send(g, m, TRUE)), my, his, Append(h.out, m))
<1> DEFINE g == [h EXCEPT !.my = my, !.his = his]
           s == Send(g, m, TRUE)
<1>1. g \in Talking
  BY Zenon DEF Talking
<1>2. /\ g.my = my /\ g.his = his /\ g.out = h.out /\ g.funcs = h.funcs /\ g.negotiated = h.negotiated
      /\ g.cstate = h.cstate
  BY DEF Talking
<1> HIDE DEF g
<1>3. s = [g EXCEPT !.out = Append(g.out, m)] /\ s \in Talking
  BY <1>1, SendSays
<1> HIDE DEF s
<1>4. /\ s.my = my /\ s.his = his /\ s.out = Append(h.out, m) /\ s.funcs = h.funcs /\ s.negotiated = h.negotiated
      /\ s.cstate = h.cstate
  BY <1>1, <1>2, <1>3 DEF Talking
<1>5. h.negotiated => h.cstate = "CONNECTED_INITIAL_E"
  BY DEF Decided
<1>6. Result(h, CheckModes(g), my, his, h.out)
  BY <1>1, <1>2, <1>5, ModesChecked DEF Result
<1>7. Result(h, CheckModes(s), my, his, Append(h.out, m))
  BY <1>3, <1>4, <1>5, ModesChecked DEF Result
<1> QED BY <1>6, <1>7 DEF g, s

(* After DO NAWS and DO STARTTLS the terminal sends more. *)
LEMMA AfterDoIs ==
    ASSUME NEW g \in Talking, Decided(g), NEW o \in Option
    PROVE  \/ Result(g, AfterDo(g, o, TRUE), g.my, g.his, g.out)
           \/ \E x \in Extra : Result(g, AfterDo(g, o, TRUE), g.my, g.his, Append(g.out, x))
<1> DEFINE r == AfterDo(g, o, TRUE)
<1>1. <<"NAWS">> \in Sent /\ <<"STARTTLS_FOLLOWS">> \in Sent /\ Extra = {<<"NAWS">>, <<"STARTTLS_FOLLOWS">>}
  BY DEF Sent, Extra
<1>2. CASE o = "NAWS"
  BY <1>1, <1>2, SendResult DEF AfterDo
<1>3. CASE o = "STARTTLS"
  <2> DEFINE s == Send(g, <<"STARTTLS_FOLLOWS">>, TRUE)
  <2>1. r = [s EXCEPT !.tls = TRUE]
    BY <1>3 DEF AfterDo
  <2>2. Result(g, s, g.my, g.his, Append(g.out, <<"STARTTLS_FOLLOWS">>))
    BY <1>1, SendResult
  <2> HIDE DEF r, s
  <2>3. s \in Talking /\ Decided(s)
    BY <2>2 DEF Result
  <2>4. r \in Talking
    BY <2>1, <2>3, Zenon DEF Talking
  <2>5. /\ r.my = s.my /\ r.his = s.his /\ r.out = s.out /\ r.funcs = s.funcs
        /\ r.negotiated = s.negotiated /\ r.cstate = s.cstate
    BY <2>1, <2>3 DEF Talking
  <2>6. Decided(r)
    BY <2>3, <2>5 DEF Decided
  <2>7. Result(g, r, g.my, g.his, Append(g.out, <<"STARTTLS_FOLLOWS">>))
    BY <2>2, <2>4, <2>5, <2>6 DEF Result
  <2> QED BY <1>1, <2>7 DEF r
<1>4. CASE o \notin {"NAWS", "STARTTLS"}
  <2>1. r = g
    BY <1>4 DEF AfterDo
  <2>2. g.negotiated = (g.negotiated /\ "TN3270E" \in g.my)
    BY DEF Decided, Talking
  <2> QED BY <2>1, <2>2 DEF Result
<1> QED BY <1>2, <1>3, <1>4

(* telnet_fsm for DO: refused, agreed to before, or agreed to now. *)
LEMMA DoIs ==
    ASSUME NEW h \in Talking, Decided(h), NEW o \in Option
    PROVE  LET r    == RcvdDo(h, o, TRUE, TRUE)
               will == Append(h.out, <<"WILL", o>>)
               my   == h.my \cup ({o} \ {"TM"})
           IN  /\ ~Willing(o) => Result(h, r, h.my, h.his, Append(h.out, <<"WONT", o>>))
               /\ Willing(o) /\ o \in h.my =>
                    \/ Result(h, r, h.my, h.his, h.out)
                    \/ \E x \in Extra : Result(h, r, h.my, h.his, Append(h.out, x))
               /\ Willing(o) /\ o \notin h.my =>
                    \/ Result(h, r, my, h.his, will)
                    \/ \E x \in Extra : Result(h, r, my, h.his, Append(will, x))
<1> DEFINE r    == RcvdDo(h, o, TRUE, TRUE)
           will == Append(h.out, <<"WILL", o>>)
           my   == h.my \cup ({o} \ {"TM"})
<1>1. CASE ~Willing(o)
  <2>1. r = Send(h, <<"WONT", o>>, TRUE)
    BY <1>1 DEF RcvdDo, Willing
  <2> QED BY <1>1, <2>1, SendResult, SentOptions
<1>2. CASE Willing(o) /\ o \in h.my
  <2>1. r = AfterDo(h, o, TRUE)
    BY <1>2 DEF RcvdDo, Willing
  <2> QED BY <1>2, <2>1, AfterDoIs
<1>3. CASE Willing(o) /\ o \notin h.my
  <2> DEFINE s == CheckModes(Send([h EXCEPT !.my = my, !.his = h.his], <<"WILL", o>>, TRUE))
  <2>1. r = AfterDo(s, o, TRUE)
    <3>1. [h EXCEPT !.my = my, !.his = h.his] = [h EXCEPT !.my = @ \cup ({o} \ {"TM"})]
      BY DEF Talking
    <3> QED BY <1>3, <3>1 DEF RcvdDo, Willing
  <2>2. my \in SUBSET Option /\ h.his \in SUBSET Option
    BY DEF Talking
  <2>3. Result(h, s, my, h.his, will)
    BY <2>2, HandlerResult, SentOptions
  <2> HIDE DEF r, s
  <2>4. s \in Talking /\ Decided(s)
    BY <2>3 DEF Result
  <2>5. ASSUME NEW out, Result(s, r, s.my, s.his, out)
        PROVE  Result(h, r, my, h.his, out)
    BY <2>3, <2>5 DEF Result
  <2>6. s.out = will
    BY <2>3 DEF Result
  <2>7. \/ Result(s, r, s.my, s.his, will)
        \/ \E x \in Extra : Result(s, r, s.my, s.his, Append(will, x))
    BY <2>1, <2>4, <2>6, AfterDoIs
  <2> QED BY <1>3, <2>5, <2>7 DEF r
<1> QED BY <1>1, <1>2, <1>3

(* A handler that does nothing. *)
LEMMA Unchanged ==
    ASSUME NEW h \in Talking, Decided(h)
    PROVE  Result(h, h, h.my, h.his, h.out)
<1>1. h.negotiated = (h.negotiated /\ "TN3270E" \in h.my)
  BY DEF Decided, Talking
<1> QED BY <1>1 DEF Result

(* telnet_fsm for DONT: the option is off, and that is confirmed. *)
LEMMA DontIs ==
    ASSUME NEW h \in Talking, Decided(h), NEW o \in Option
    PROVE  LET r == RcvdDont(h, o, TRUE)
           IN  /\ o \notin h.my => Result(h, r, h.my, h.his, h.out)
               /\ o \in h.my => Result(h, r, h.my \ {o}, h.his, Append(h.out, <<"WONT", o>>))
<1>1. ASSUME o \in h.my
      PROVE  Result(h, RcvdDont(h, o, TRUE), h.my \ {o}, h.his, Append(h.out, <<"WONT", o>>))
  <2>1. [h EXCEPT !.my = h.my \ {o}, !.his = h.his] = [h EXCEPT !.my = @ \ {o}]
    BY DEF Talking
  <2>2. RcvdDont(h, o, TRUE)
          = CheckModes(Send([h EXCEPT !.my = h.my \ {o}, !.his = h.his], <<"WONT", o>>, TRUE))
    BY <1>1, <2>1 DEF RcvdDont
  <2>3. h.my \ {o} \in SUBSET Option /\ h.his \in SUBSET Option
    BY DEF Talking
  <2> QED BY <2>2, <2>3, HandlerResult, SentOptions
<1> QED BY <1>1, Unchanged DEF RcvdDont

(* telnet_fsm for WONT: the same for an option of the host. *)
LEMMA WontIs ==
    ASSUME NEW h \in Talking, Decided(h), NEW o \in Option
    PROVE  LET r == RcvdWont(h, o, TRUE)
           IN  /\ o \notin h.his => Result(h, r, h.my, h.his, h.out)
               /\ o \in h.his => Result(h, r, h.my, h.his \ {o}, Append(h.out, <<"DONT", o>>))
<1>1. ASSUME o \in h.his
      PROVE  Result(h, RcvdWont(h, o, TRUE), h.my, h.his \ {o}, Append(h.out, <<"DONT", o>>))
  <2>1. [h EXCEPT !.my = h.my, !.his = h.his \ {o}] = [h EXCEPT !.his = @ \ {o}]
    BY DEF Talking
  <2>2. RcvdWont(h, o, TRUE)
          = CheckModes(Send([h EXCEPT !.my = h.my, !.his = h.his \ {o}], <<"DONT", o>>, TRUE))
    BY <1>1, <2>1 DEF RcvdWont
  <2>3. h.my \in SUBSET Option /\ h.his \ {o} \in SUBSET Option
    BY DEF Talking
  <2> QED BY <2>2, <2>3, HandlerResult, SentOptions
<1> QED BY <1>1, Unchanged DEF RcvdWont

(* telnet_fsm for WILL: refused, agreed to before, or agreed to now; with *)
(* EOR the terminal volunteers its own.                                   *)
LEMMA WillIs ==
    ASSUME NEW h \in Talking, Decided(h), NEW o \in Option
    PROVE  LET r    == RcvdWill(h, o, TRUE, TRUE)
               does == Append(h.out, <<"DO", o>>)
           IN  /\ ~Welcome(o) => Result(h, r, h.my, h.his, Append(h.out, <<"DONT", o>>))
               /\ Welcome(o) /\ o \in h.his => Result(h, r, h.my, h.his, h.out)
               /\ Welcome(o) /\ o \notin h.his /\ o = "EOR" /\ o \notin h.my =>
                    Result(h, r, h.my \cup {o}, h.his \cup {o}, Append(does, <<"WILL", o>>))
               /\ Welcome(o) /\ o \notin h.his /\ ~(o = "EOR" /\ o \notin h.my) =>
                    Result(h, r, h.my, h.his \cup {o}, does)
<1> DEFINE r    == RcvdWill(h, o, TRUE, TRUE)
           does == Append(h.out, <<"DO", o>>)
           g    == [h EXCEPT !.my = h.my, !.his = h.his \cup {o}]
           s    == Send(g, <<"DO", o>>, TRUE)
<1>0. g = [h EXCEPT !.his = @ \cup {o}]
  BY DEF Talking
<1>1. h.my \in SUBSET Option /\ h.my \cup {o} \in SUBSET Option /\ h.his \cup {o} \in SUBSET Option
  BY DEF Talking
<1>2. CASE ~Welcome(o)
  <2>1. r = Send(h, <<"DONT", o>>, TRUE)
    BY <1>2 DEF RcvdWill, Welcome
  <2> QED BY <1>2, <2>1, SendResult, SentOptions
<1>3. CASE Welcome(o) /\ o \in h.his
  BY <1>3, Unchanged DEF RcvdWill, Welcome
<1>4. CASE Welcome(o) /\ o \notin h.his /\ ~(o = "EOR" /\ o \notin h.my)
  <2>1. g.my = h.my
    BY DEF Talking
  <2>2. r = CheckModes(s)
    BY <1>0, <1>4 DEF RcvdWill, Welcome
  <2>3. Result(h, CheckModes(s), h.my, h.his \cup {o}, does)
    BY <1>1, HandlerResult, SentOptions
  <2> QED BY <1>4, <2>2, <2>3
<1>5. CASE Welcome(o) /\ o \notin h.his /\ o = "EOR" /\ o \notin h.my
  <2> DEFINE e == [h EXCEPT !.my = h.my, !.his = h.his, !.out = does]
             f == [e EXCEPT !.my = h.my \cup {o}, !.his = h.his \cup {o}]
  <2>1. g \in Talking /\ g.out = h.out /\ <<"DO", o>> \in Sent
    BY <1>1, SentOptions DEF Talking
  <2>2. s = [g EXCEPT !.out = does]
    <3> HIDE DEF g
    <3> QED BY <2>1, SendSays
  <2>3. e \in Talking /\ Decided(e)
    <3>1. h.out \in Seq(Sent)
      BY Zenon DEF Talking
    <3>2. does \in Seq(Sent)
      BY <2>1, <3>1
    <3>3. h.my \in SUBSET Option /\ h.his \in SUBSET Option
      BY DEF Talking
    <3> HIDE DEF does
    <3>4. e \in Talking
      BY <3>2, <3>3, Zenon DEF Talking
    <3> QED BY <3>4 DEF Decided, Talking
  <2>4. [s EXCEPT !.my = @ \cup {o}] = f
    <3> HIDE DEF does
    <3> QED BY <2>2 DEF Talking
  <2>5. r = CheckModes(Send(f, <<"WILL", o>>, TRUE))
    <3>1. r = CheckModes(Send([s EXCEPT !.my = @ \cup {o}], <<"WILL", o>>, TRUE))
      BY <1>0, <1>5 DEF RcvdWill, Welcome
    <3> HIDE DEF r, s, f
    <3> QED BY <2>4, <3>1
  <2>6. e.out = does /\ e.funcs = h.funcs /\ e.negotiated = h.negotiated
    <3> HIDE DEF does
    <3> QED BY DEF Talking
  <2> HIDE DEF e
  <2>7. Result(e, CheckModes(Send(f, <<"WILL", o>>, TRUE)), h.my \cup {o}, h.his \cup {o}, Append(e.out, <<"WILL", o>>))
    BY <1>1, <2>3, HandlerResult, SentOptions
  <2>8. Result(h, r, h.my \cup {o}, h.his \cup {o}, Append(does, <<"WILL", o>>))
    <3> HIDE DEF r, f, does
    <3> QED BY <2>5, <2>6, <2>7 DEF Result
  <2> QED BY <1>5, <2>8
<1> QED BY <1>2, <1>3, <1>4, <1>5

(* What the handler of a subnegotiation returns. *)
Reached(h, r, f, n, out) ==
    /\ r \in Talking /\ Decided(r)
    /\ r.my = h.my /\ r.his = h.his /\ r.out = out /\ r.funcs = f /\ r.negotiated = n

(* The subnegotiations are messages of the terminal. *)
LEMMA SentTokens ==
    /\ \A lu \in 0 .. Lus : <<"DEVICE_TYPE_REQUEST", lu>> \in Sent
    /\ \A f \in SUBSET Function : <<"FUNCTIONS_REQUEST", f>> \in Sent /\ <<"FUNCTIONS_IS", f>> \in Sent
BY DEF Sent, OutTokens

(* backoff_tn3270e leaves TN3270E and tells the host. *)
LEMMA BackoffIs ==
    ASSUME NEW h \in Talking, Decided(h), "TN3270E" \in h.my
    PROVE  Result(h, BackoffTn3270e(h, TRUE), h.my \ {"TN3270E"}, h.his,
                  Append(h.out, <<"WONT", "TN3270E">>))
<1> DEFINE out   == Append(h.out, <<"WONT", "TN3270E">>)
           s     == Send(h, <<"WONT", "TN3270E">>, TRUE)
           first == IF Lus > 0 THEN 1 ELSE 0
           g     == [[s EXCEPT !.curr_lu = first, !.try_lu = first] EXCEPT !.my = @ \ {"TN3270E"}]
<1>1. "TN3270E" \in Option /\ h.negotiated \in BOOLEAN
  BY DEF Talking
<1>2. Result(h, s, h.my, h.his, out)
  BY <1>1, SendResult, SentOptions
<1>3. first \in 0 .. Lus
  BY LusAssumption
<1> HIDE DEF s, first, out
<1>4. s \in Talking /\ s.my \ {"TN3270E"} \in SUBSET Option
  BY <1>2 DEF Result, Talking
<1>5. g = [s EXCEPT !.curr_lu = first, !.try_lu = first, !.my = s.my \ {"TN3270E"}]
  BY <1>4 DEF Talking
<1>6. g \in Talking
  BY <1>3, <1>4, <1>5, Zenon DEF Talking
<1>7. /\ g.my = s.my \ {"TN3270E"} /\ g.his = s.his /\ g.out = s.out /\ g.cstate = s.cstate
      /\ g.funcs = s.funcs /\ g.negotiated = s.negotiated
  BY <1>4 DEF Talking
<1>8. BackoffTn3270e(h, TRUE) = CheckIn3270(g)
  BY DEF BackoffTn3270e, SetupLus, s, first
<1> HIDE DEF g
<1>9. g.negotiated => g.cstate = "CONNECTED_INITIAL_E"
  BY <1>2, <1>7 DEF Result, Decided
<1> DEFINE r == CheckIn3270(g)
<1>10. /\ r \in Talking /\ Decided(r)
       /\ r.my = g.my /\ r.his = g.his /\ r.funcs = g.funcs /\ r.out = g.out
       /\ r.negotiated = (g.negotiated /\ "TN3270E" \in g.my)
  BY <1>6, <1>9, In3270Checked
<1> HIDE DEF r
<1>11. /\ s.my = h.my /\ s.his = h.his /\ s.out = out /\ s.funcs = h.funcs
  BY <1>2 DEF Result
<1>12. r.negotiated = (h.negotiated /\ "TN3270E" \in h.my \ {"TN3270E"})
  <2>1. "TN3270E" \notin g.my
    BY <1>7
  <2> QED BY <1>10, <2>1
<1>13. Result(h, r, h.my \ {"TN3270E"}, h.his, out)
  BY <1>7, <1>10, <1>11, <1>12 DEF Result
<1> QED BY <1>8, <1>13 DEF r, out

(* tn3270e_request asks for the next LU of the list. *)
LEMMA RequestIs ==
    ASSUME NEW h \in Talking, Decided(h)
    PROVE  \E lu \in 0 .. Lus : Result(h, Tn3270eRequest(h, TRUE), h.my, h.his,
                                       Append(h.out, <<"DEVICE_TYPE_REQUEST", lu>>))
<1>1. h.try_lu \in 0 .. Lus
  BY DEF Talking
<1> QED BY <1>1, SendResult, SentTokens DEF Tn3270eRequest

(* After a refusal another LU is asked for, or TN3270E is left (next_lu). *)
LEMMA RejectIs ==
    ASSUME NEW h \in Talking, Decided(h), "TN3270E" \in h.my, NEW final \in BOOLEAN
    PROVE  LET r == RcvdReject(h, final, TRUE)
           IN  \/ Result(h, r, h.my \ {"TN3270E"}, h.his, Append(h.out, <<"WONT", "TN3270E">>))
               \/ \E lu \in 0 .. Lus :
                    Result(h, r, h.my, h.his, Append(h.out, <<"DEVICE_TYPE_REQUEST", lu>>))
<1> DEFINE g == NextLu(h)
           r == RcvdReject(h, final, TRUE)
<1>1. /\ g \in Talking /\ Decided(g) /\ g.my = h.my /\ g.his = h.his /\ g.out = h.out
      /\ g.funcs = h.funcs /\ g.negotiated = h.negotiated
  <2>1. h.curr_lu \in 0 .. Lus
    BY DEF Talking
  <2>2. CASE h.curr_lu = 0
    BY <2>2 DEF NextLu
  <2>5. ASSUME NEW c \in 0 .. Lus, g = [h EXCEPT !.curr_lu = c, !.try_lu = c]
        PROVE  /\ g \in Talking /\ Decided(g) /\ g.my = h.my /\ g.his = h.his /\ g.out = h.out
               /\ g.funcs = h.funcs /\ g.negotiated = h.negotiated
    <3> HIDE DEF g
    <3>1. g \in Talking
      BY <2>5, Zenon DEF Talking
    <3>2. /\ g.my = h.my /\ g.his = h.his /\ g.out = h.out /\ g.cstate = h.cstate
          /\ g.funcs = h.funcs /\ g.negotiated = h.negotiated
      BY <2>5 DEF Talking
    <3> QED BY <3>1, <3>2 DEF Decided
  <2>3. CASE h.curr_lu # 0 /\ h.curr_lu < Lus
    <3>1. h.curr_lu + 1 \in 0 .. Lus
      BY <2>1, <2>3, LusAssumption
    <3>2. g = [h EXCEPT !.curr_lu = h.curr_lu + 1, !.try_lu = h.curr_lu + 1]
      BY <2>3 DEF NextLu
    <3> QED BY <2>5, <3>1, <3>2, Zenon
  <2>4. CASE h.curr_lu # 0 /\ ~(h.curr_lu < Lus)
    <3>1. g = [h EXCEPT !.curr_lu = 0, !.try_lu = 0] /\ 0 \in 0 .. Lus
      BY <2>4, LusAssumption DEF NextLu
    <3> QED BY <2>5, <3>1, Zenon
  <2> QED BY <2>2, <2>3, <2>4
<1>2. CASE final
  BY <1>2, BackoffIs DEF RcvdReject
<1>3. CASE ~final
  <2>1. r = IF g.try_lu # 0 THEN Tn3270eRequest(g, TRUE) ELSE BackoffTn3270e(g, TRUE)
    BY <1>3 DEF RcvdReject
  <2> HIDE DEF g, r
  <2>2. \A my, his, out : Result(g, r, my, his, out) => Result(h, r, my, his, out)
    BY <1>1 DEF Result
  <2>3. CASE r = Tn3270eRequest(g, TRUE)
    BY <1>1, <2>2, <2>3, RequestIs DEF r
  <2>4. CASE r = BackoffTn3270e(g, TRUE)
    BY <1>1, <2>2, <2>4, BackoffIs DEF r
  <2> QED BY <2>1, <2>3, <2>4
<1> QED BY <1>2, <1>3

(* With the functions agreed on, the negotiation is complete. *)
LEMMA CompleteIs ==
    ASSUME NEW h \in Talking, Decided(h), "TN3270E" \in h.my, NEW f \in SUBSET Function, NEW out \in Seq(Sent)
    PROVE  Reached(h, Complete([h EXCEPT !.funcs = f, !.out = out]), f, TRUE, out)
<1> DEFINE g == [[h EXCEPT !.funcs = f, !.out = out] EXCEPT !.negotiated = TRUE]
<1>1. g = [h EXCEPT !.funcs = f, !.out = out, !.negotiated = TRUE] /\ TRUE \in BOOLEAN
  BY DEF Talking
<1>2. g \in Talking
  BY <1>1, Zenon DEF Talking
<1>3. /\ g.my = h.my /\ g.his = h.his /\ g.out = out /\ g.cstate = h.cstate
      /\ g.funcs = f /\ g.negotiated = TRUE
  BY DEF Talking
<1>4. Complete([h EXCEPT !.funcs = f, !.out = out]) = CheckIn3270(g)
  BY DEF Complete
<1> HIDE DEF g
<1>5. g.cstate = "CONNECTED_INITIAL_E"
  BY <1>3 DEF Decided
<1> DEFINE r == CheckIn3270(g)
<1>6. /\ r \in Talking /\ Decided(r)
      /\ r.my = g.my /\ r.his = g.his /\ r.funcs = g.funcs /\ r.out = g.out
      /\ r.negotiated = (g.negotiated /\ "TN3270E" \in g.my)
  BY <1>2, <1>5, In3270Checked
<1> HIDE DEF r
<1>7. r.negotiated = TRUE
  BY <1>3, <1>6
<1>8. Reached(h, r, f, TRUE, out)
  BY <1>3, <1>6, <1>7 DEF Reached
<1> QED BY <1>4, <1>8 DEF r

(* FUNCTIONS REQUEST: the set is agreed to, or what both have is asked for. *)
LEMMA FunctionsRequestIs ==
    ASSUME NEW h \in Talking, Decided(h), "TN3270E" \in h.my, NEW f \in SUBSET Function
    PROVE  LET r == RcvdFunctionsRequest(h, f, TRUE)
           IN  \/ /\ f = h.funcs \/ ~(h.funcs \subseteq f)
                  /\ Reached(h, r, f, TRUE, Append(h.out, <<"FUNCTIONS_IS", f>>))
               \/ /\ ~(f = h.funcs \/ ~(h.funcs \subseteq f))
                  /\ Reached(h, r, h.funcs \cap f, h.negotiated,
                             Append(h.out, <<"FUNCTIONS_REQUEST", h.funcs \cap f>>))
<1> DEFINE r == RcvdFunctionsRequest(h, f, TRUE)
           e == h.funcs \cap f
           g == [h EXCEPT !.funcs = f]
           k == [h EXCEPT !.funcs = e]
<1>1. e \in SUBSET Function /\ h.out \in Seq(Sent)
  <2>1. h.out \in Seq(Sent)
    BY Zenon DEF Talking
  <2> QED BY <2>1
<1>2. g \in Talking /\ g.out = h.out
  <2>1. g \in Talking
    BY Zenon DEF Talking
  <2> QED BY <2>1 DEF Talking
<1>3. k \in Talking /\ k.out = h.out /\ k.funcs = e /\ k.my = h.my /\ k.his = h.his
      /\ k.negotiated = h.negotiated /\ k.cstate = h.cstate
  <2>1. k \in Talking
    BY <1>1, Zenon DEF Talking
  <2> QED BY <2>1 DEF Talking
<1>4. CASE f = h.funcs \/ ~(h.funcs \subseteq f)
  <2> DEFINE m   == <<"FUNCTIONS_IS", f>>
             out == Append(h.out, m)
             s   == Send(g, m, TRUE)
  <2>1. m \in Sent
    BY SentTokens
  <2>2. out \in Seq(Sent)
    BY <1>1, <2>1
  <2> HIDE DEF m
  <2>3. s = [g EXCEPT !.out = Append(g.out, m)]
    <3> HIDE DEF g
    <3> QED BY <1>2, <2>1, SendSays
  <2>4. s = [h EXCEPT !.funcs = f, !.out = out]
    <3> HIDE DEF s
    <3> QED BY <1>2, <2>3 DEF Talking
  <2>5. r = Complete(s)
    BY <1>4 DEF RcvdFunctionsRequest, m
  <2> HIDE DEF r, s, out
  <2>6. Reached(h, r, f, TRUE, out)
    BY <2>2, <2>4, <2>5, CompleteIs
  <2> QED BY <1>4, <2>6 DEF out, m, r
<1>5. CASE ~(f = h.funcs \/ ~(h.funcs \subseteq f))
  <2> DEFINE m   == <<"FUNCTIONS_REQUEST", e>>
  <2>1. m \in Sent
    BY <1>1, SentTokens
  <2>2. r = Send(k, m, TRUE)
    <3>1. k = [h EXCEPT !.funcs = @ \cap f]
      BY DEF Talking
    <3> QED BY <1>5, <3>1 DEF RcvdFunctionsRequest
  <2> HIDE DEF m, k, r
  <2>3. Decided(k) /\ (k.negotiated /\ "TN3270E" \in k.my) = k.negotiated
    BY <1>3 DEF Decided, Talking
  <2>4. Result(k, r, k.my, k.his, Append(k.out, m))
    BY <1>3, <2>1, <2>2, <2>3, SendResult
  <2>5. Reached(h, r, e, h.negotiated, Append(h.out, m))
    BY <1>3, <2>3, <2>4 DEF Result, Reached
  <2> QED BY <1>5, <2>5 DEF m, r
<1> QED BY <1>4, <1>5

(* FUNCTIONS IS: the set asked for completes, another one ends TN3270E. *)
LEMMA FunctionsIsIs ==
    ASSUME NEW h \in Talking, Decided(h), "TN3270E" \in h.my, NEW f \in SUBSET Function
    PROVE  LET r == RcvdFunctionsIs(h, f, TRUE)
           IN  \/ /\ h.funcs \subseteq f /\ f # h.funcs
                  /\ Result(h, r, h.my \ {"TN3270E"}, h.his, Append(h.out, <<"WONT", "TN3270E">>))
               \/ /\ ~(h.funcs \subseteq f /\ f # h.funcs)
                  /\ Reached(h, r, f, TRUE, h.out)
<1>1. h.out \in Seq(Sent)
  BY Zenon DEF Talking
<1>2. [h EXCEPT !.funcs = f, !.out = h.out] = [h EXCEPT !.funcs = f]
  BY DEF Talking
<1>3. Reached(h, Complete([h EXCEPT !.funcs = f]), f, TRUE, h.out)
  BY <1>1, <1>2, CompleteIs
<1> QED BY <1>3, BackoffIs DEF RcvdFunctionsIs

-----------------------------------------------------------------------------

-----------------------------------------------------------------------------
(* The options of both sides at once. *)

(* The commands by which an option of one side is asked for, withdrawn,     *)
(* agreed to and refused, the classes they make, and the table it is in. Of *)
(* the terminal's options TM is never on, and TN3270E has its own classes.  *)
Sides == {"yours", "mine"}
Asks(d)    == IF d = "yours" THEN "DO" ELSE "WILL"
Denies(d)  == IF d = "yours" THEN "DONT" ELSE "WONT"
Agrees(d)  == IF d = "yours" THEN "WILL" ELSE "DO"
Refuses(d) == IF d = "yours" THEN "WONT" ELSE "DONT"
Inward(d, o)  == {<<Asks(d), o>>, <<Denies(d), o>>}
Outward(d, o) == {<<Agrees(d), o>>, <<Refuses(d), o>>}
Wanted(d, o)  == (d = "yours" => Willing(o)) /\ (d = "mine" => Welcome(o))
Table(my, his, d) == IF d = "yours" THEN my ELSE his
Covered(d, o) == d = "yours" => o \notin {"TM", "TN3270E"}

(* An option of one side fits; all do; and TN3270E does. *)
Line(d, o, y, b, p, q) ==
    Fits(y, b, Wanted(d, o), o \in Accepted, p, q,
         <<Asks(d), o>>, <<Denies(d), o>>, <<Agrees(d), o>>, <<Refuses(d), o>>)

AllFit(my, his, h, p, q) ==
    \A d \in Sides, o \in Option : Covered(d, o) => Line(d, o, h[d][o], o \in Table(my, his, d), p, q)

TnState(h) == IF "TN3270E" \in Option THEN h.yours["TN3270E"] ELSE "NO"
TnFits(my, n, f, h, p, q) == FitsTn(TnState(h), "TN3270E" \in my, n, f, h.funcs, p, q)

(* One message is appended, or taken, for every class at once. *)
Brings(q, r, m) == \A K : (m \notin K => Same(q, r, K)) /\ (m \in K => Gains(q, r, K, m))
Takes(q, r, m) == \A K : (m \notin K => Same(q, r, K)) /\ (m \in K => Loses(q, r, K, m))

(* Appending brings the message. *)
LEMMA Appending ==
    ASSUME NEW S, NEW q \in Seq(S), NEW m \in S
    PROVE  Brings(q, Append(q, m), m) /\ Append(q, m) \in Seq(S)
BY AppendOther, AppendKind DEF Brings

(* Taking the head takes the message. *)
LEMMA Taking ==
    ASSUME NEW S, NEW q \in Seq(S), q # <<>>
    PROVE  Takes(q, Tail(q), Head(q)) /\ Tail(q) \in Seq(S) /\ Head(q) \in S
BY RestOther, RestKind, Rest DEF Takes

(* The four commands differ. *)
LEMMA Commands ==
    ASSUME NEW d \in Sides
    PROVE  /\ {Asks(d), Denies(d), Agrees(d), Refuses(d)} = OptionCommand
           /\ Asks(d) # Denies(d) /\ Agrees(d) # Refuses(d)
           /\ {Asks(d), Denies(d)} \cap {Agrees(d), Refuses(d)} = {}
BY DEF Sides, Asks, Denies, Agrees, Refuses, OptionCommand

(* The classes of different options have no message in common, *)
LEMMA OptionClasses ==
    ASSUME NEW c \in OptionCommand, NEW o \in Option
    PROVE  /\ \A d \in Sides, x \in Option :
                /\ <<c, o>> \in Inward(d, x) <=> c \in {Asks(d), Denies(d)} /\ o = x
                /\ <<c, o>> \in Outward(d, x) <=> c \in {Agrees(d), Refuses(d)} /\ o = x
           /\ <<c, o>> \in TnIn <=> c \in {"DO", "DONT"} /\ o = "TN3270E"
           /\ <<c, o>> \in TnOut <=> c \in {"WILL", "WONT"} /\ o = "TN3270E"
<1>1. ASSUME NEW d \in Sides, NEW x \in Option
      PROVE  /\ <<c, o>> \in Inward(d, x) <=> c \in {Asks(d), Denies(d)} /\ o = x
             /\ <<c, o>> \in Outward(d, x) <=> c \in {Agrees(d), Refuses(d)} /\ o = x
  BY DEF Inward, Outward
<1>2. <<c, o>> \notin InTokens
  BY DEF InTokens, Replies, OptionCommand
<1>3. <<c, o>> \notin OutTokens
  BY DEF OutTokens, OptionCommand
<1>4. <<c, o>> \in TnIn <=> c \in {"DO", "DONT"} /\ o = "TN3270E"
  BY <1>2 DEF TnIn, TnDo, TnDont
<1>5. <<c, o>> \in TnOut <=> c \in {"WILL", "WONT"} /\ o = "TN3270E"
  BY <1>3 DEF TnOut, TnWill, TnWont
<1> QED BY <1>1, <1>4, <1>5

(* ... nor do those of options and subnegotiations. *)
LEMMA OtherClasses ==
    ASSUME NEW m \in InTokens \cup OutTokens \cup Extra
    PROVE  /\ \A d \in Sides, x \in Option : m \notin Inward(d, x) /\ m \notin Outward(d, x)
           /\ m \in Extra => m \notin TnOut
           /\ m \in InTokens => m \in TnIn
           /\ m \in OutTokens => m \in TnOut
<1>1. ASSUME m \in InTokens
      PROVE  m[1] \in {"SEND_DEVICE_TYPE", "DEVICE_TYPE_IS", "REJECT", "REJECT_LU",
                       "FUNCTIONS_REQUEST", "FUNCTIONS_IS"}
  BY <1>1 DEF InTokens, Replies
<1>2. ASSUME m \in OutTokens
      PROVE  m[1] \in {"DEVICE_TYPE_REQUEST", "FUNCTIONS_REQUEST", "FUNCTIONS_IS"}
  BY <1>2 DEF OutTokens
<1>3. ASSUME m \in Extra
      PROVE  m[1] \in {"NAWS", "STARTTLS_FOLLOWS"}
  BY <1>3 DEF Extra
<1>4. ASSUME NEW d \in Sides, NEW x \in Option, NEW k \in Inward(d, x) \cup Outward(d, x)
      PROVE  k[1] \in OptionCommand
  BY <1>4, Commands DEF Inward, Outward
<1>5. ASSUME NEW d \in Sides, NEW x \in Option
      PROVE  m \notin Inward(d, x) /\ m \notin Outward(d, x)
  <2>1. m[1] \notin OptionCommand
    BY <1>1, <1>2, <1>3 DEF OptionCommand
  <2> QED BY <1>4, <2>1
<1>6. m \in Extra => m \notin TnOut
  BY DEF Extra, TnOut, TnWill, TnWont, OutTokens
<1> QED BY <1>5, <1>6 DEF TnIn, TnOut

(* A command brought to the class of its own option changes no other. *)
LEMMA Brought ==
    ASSUME NEW p, NEW r, NEW c \in OptionCommand, NEW o \in Option, Brings(p, r, <<c, o>>)
    PROVE  /\ \A d \in Sides, x \in Option :
                /\ x # o \/ c \notin {Asks(d), Denies(d)} => Same(p, r, Inward(d, x))
                /\ x # o \/ c \notin {Agrees(d), Refuses(d)} => Same(p, r, Outward(d, x))
           /\ \A d \in Sides :
                /\ c \in {Asks(d), Denies(d)} => Gains(p, r, Inward(d, o), <<c, o>>)
                /\ c \in {Agrees(d), Refuses(d)} => Gains(p, r, Outward(d, o), <<c, o>>)
           /\ IF c \in {"DO", "DONT"} /\ o = "TN3270E" THEN Gains(p, r, TnIn, <<c, o>>) ELSE Same(p, r, TnIn)
           /\ IF c \in {"WILL", "WONT"} /\ o = "TN3270E" THEN Gains(p, r, TnOut, <<c, o>>) ELSE Same(p, r, TnOut)
<1> DEFINE m == <<c, o>>
<1>1. /\ \A d \in Sides, x \in Option :
           /\ m \in Inward(d, x) <=> c \in {Asks(d), Denies(d)} /\ o = x
           /\ m \in Outward(d, x) <=> c \in {Agrees(d), Refuses(d)} /\ o = x
      /\ m \in TnIn <=> c \in {"DO", "DONT"} /\ o = "TN3270E"
      /\ m \in TnOut <=> c \in {"WILL", "WONT"} /\ o = "TN3270E"
  BY OptionClasses
<1>2. \A K : (m \notin K => Same(p, r, K)) /\ (m \in K => Gains(p, r, K, m))
  BY DEF Brings
<1> HIDE DEF m
<1>3. \A d \in Sides, x \in Option :
        /\ x # o \/ c \notin {Asks(d), Denies(d)} => Same(p, r, Inward(d, x))
        /\ x # o \/ c \notin {Agrees(d), Refuses(d)} => Same(p, r, Outward(d, x))
  BY <1>1, <1>2, Zenon
<1>4. \A d \in Sides :
        /\ c \in {Asks(d), Denies(d)} => Gains(p, r, Inward(d, o), m)
        /\ c \in {Agrees(d), Refuses(d)} => Gains(p, r, Outward(d, o), m)
  BY <1>1, <1>2, Zenon
<1>5. /\ IF c \in {"DO", "DONT"} /\ o = "TN3270E" THEN Gains(p, r, TnIn, m) ELSE Same(p, r, TnIn)
      /\ IF c \in {"WILL", "WONT"} /\ o = "TN3270E" THEN Gains(p, r, TnOut, m) ELSE Same(p, r, TnOut)
  BY <1>1, <1>2, Zenon
<1> QED BY <1>3, <1>4, <1>5 DEF m

(* A command taken from the class of its own option changes no other. *)
LEMMA Taken ==
    ASSUME NEW p, NEW r, NEW c \in OptionCommand, NEW o \in Option, Takes(p, r, <<c, o>>)
    PROVE  /\ \A d \in Sides, x \in Option :
                /\ x # o \/ c \notin {Asks(d), Denies(d)} => Same(p, r, Inward(d, x))
                /\ x # o \/ c \notin {Agrees(d), Refuses(d)} => Same(p, r, Outward(d, x))
           /\ \A d \in Sides :
                /\ c \in {Asks(d), Denies(d)} => Loses(p, r, Inward(d, o), <<c, o>>)
                /\ c \in {Agrees(d), Refuses(d)} => Loses(p, r, Outward(d, o), <<c, o>>)
           /\ IF c \in {"DO", "DONT"} /\ o = "TN3270E" THEN Loses(p, r, TnIn, <<c, o>>) ELSE Same(p, r, TnIn)
           /\ IF c \in {"WILL", "WONT"} /\ o = "TN3270E" THEN Loses(p, r, TnOut, <<c, o>>) ELSE Same(p, r, TnOut)
<1> DEFINE m == <<c, o>>
<1>1. /\ \A d \in Sides, x \in Option :
           /\ m \in Inward(d, x) <=> c \in {Asks(d), Denies(d)} /\ o = x
           /\ m \in Outward(d, x) <=> c \in {Agrees(d), Refuses(d)} /\ o = x
      /\ m \in TnIn <=> c \in {"DO", "DONT"} /\ o = "TN3270E"
      /\ m \in TnOut <=> c \in {"WILL", "WONT"} /\ o = "TN3270E"
  BY OptionClasses
<1>2. \A K : (m \notin K => Same(p, r, K)) /\ (m \in K => Loses(p, r, K, m))
  BY DEF Takes
<1> HIDE DEF m
<1>3. \A d \in Sides, x \in Option :
        /\ x # o \/ c \notin {Asks(d), Denies(d)} => Same(p, r, Inward(d, x))
        /\ x # o \/ c \notin {Agrees(d), Refuses(d)} => Same(p, r, Outward(d, x))
  BY <1>1, <1>2, Zenon
<1>4. \A d \in Sides :
        /\ c \in {Asks(d), Denies(d)} => Loses(p, r, Inward(d, o), m)
        /\ c \in {Agrees(d), Refuses(d)} => Loses(p, r, Outward(d, o), m)
  BY <1>1, <1>2, Zenon
<1>5. /\ IF c \in {"DO", "DONT"} /\ o = "TN3270E" THEN Loses(p, r, TnIn, m) ELSE Same(p, r, TnIn)
      /\ IF c \in {"WILL", "WONT"} /\ o = "TN3270E" THEN Loses(p, r, TnOut, m) ELSE Same(p, r, TnOut)
  BY <1>1, <1>2, Zenon
<1> QED BY <1>3, <1>4, <1>5 DEF m

(* A subnegotiation, brought or taken, changes no class of an option. *)
LEMMA TokenMoved ==
    ASSUME NEW p, NEW r, NEW m \in InTokens \cup OutTokens \cup Extra
    PROVE  /\ Brings(p, r, m) \/ Takes(p, r, m) =>
                \A d \in Sides, x \in Option : Same(p, r, Inward(d, x)) /\ Same(p, r, Outward(d, x))
           /\ m \in InTokens /\ Brings(p, r, m) => Gains(p, r, TnIn, m)
           /\ m \in InTokens /\ Takes(p, r, m) => Loses(p, r, TnIn, m)
           /\ m \in OutTokens /\ Brings(p, r, m) => Gains(p, r, TnOut, m)
           /\ m \in OutTokens /\ Takes(p, r, m) => Loses(p, r, TnOut, m)
           /\ m \in Extra /\ (Brings(p, r, m) \/ Takes(p, r, m)) => Same(p, r, TnOut)
BY OtherClasses, Zenon DEF Brings, Takes

(* What is unchanged for an option still fits. *)
LEMMA LineStill ==
    ASSUME NEW d \in Sides, NEW o \in Option, NEW y, NEW b \in BOOLEAN, NEW p, NEW q, NEW p2, NEW q2,
           Line(d, o, y, b, p, q), Same(p, p2, Inward(d, o)), Same(q, q2, Outward(d, o))
    PROVE  Line(d, o, y, b, p2, q2)
<1> DEFINE w == Wanted(d, o)
           a == o \in Accepted
<1>1. w \in BOOLEAN /\ a \in BOOLEAN
  BY DEF Wanted, Willing, Welcome
<1>2. Fits(y, b, w, a, p, q, <<Asks(d), o>>, <<Denies(d), o>>, <<Agrees(d), o>>, <<Refuses(d), o>>)
  BY DEF Line
<1> HIDE DEF w, a
<1>3. Fits(y, b, w, a, p2, q2, <<Asks(d), o>>, <<Denies(d), o>>, <<Agrees(d), o>>, <<Refuses(d), o>>)
  BY <1>1, <1>2, FitsStill DEF Inward, Outward
<1> QED BY <1>3 DEF Line, w, a

(* Nothing changes but for option o of side d. *)
InElse(d, o, p, r)  == \A e \in Sides, x \in Option : e # d \/ x # o => Same(p, r, Inward(e, x))
OutElse(d, o, q, r) == \A e \in Sides, x \in Option : e # d \/ x # o => Same(q, r, Outward(e, x))
HostElse(d, o, h, r) == \A e \in Sides, x \in Option : e # d \/ x # o => r[e][x] = h[e][x]
TableElse(d, o, my, his, my2, his2) ==
    \A e \in Sides, x \in Option :
       e # d \/ x # o => (x \in Table(my2, his2, e) <=> x \in Table(my, his, e))

(* What fitted and has not changed, fits. *)
LEMMA OthersFit ==
    ASSUME NEW my, NEW his, NEW my2, NEW his2, NEW h, NEW h2, NEW p, NEW q, NEW p2, NEW q2,
           NEW d \in Sides, NEW x, AllFit(my, his, h, p, q),
           InElse(d, x, p, p2), OutElse(d, x, q, q2), HostElse(d, x, h, h2),
           TableElse(d, x, my, his, my2, his2),
           Covered(d, x) => Line(d, x, h2[d][x], x \in Table(my2, his2, d), p2, q2)
    PROVE  AllFit(my2, his2, h2, p2, q2)
<1> SUFFICES ASSUME NEW e \in Sides, NEW o \in Option, Covered(e, o), e # d \/ o # x
             PROVE  Line(e, o, h2[e][o], o \in Table(my2, his2, e), p2, q2)
  BY DEF AllFit
<1> DEFINE b == o \in Table(my, his, e)
<1>0. b \in BOOLEAN
  OBVIOUS
<1>1. Line(e, o, h[e][o], b, p, q)
  BY Zenon DEF AllFit
<1>2. /\ Same(p, p2, Inward(e, o)) /\ Same(q, q2, Outward(e, o)) /\ h2[e][o] = h[e][o]
      /\ o \in Table(my2, his2, e) <=> b
  BY Zenon DEF InElse, OutElse, HostElse, TableElse
<1> HIDE DEF b
<1>3. Line(e, o, h[e][o], b, p2, q2)
  BY <1>0, <1>1, <1>2, LineStill
<1>4. CASE b
  <2>1. (o \in Table(my2, his2, e)) = TRUE /\ b = TRUE
    BY <1>0, <1>2, <1>4
  <2> QED BY <1>2, <1>3, <2>1
<1>5. CASE ~b
  <2>1. (o \in Table(my2, his2, e)) = FALSE /\ b = FALSE
    BY <1>0, <1>2, <1>5
  <2> QED BY <1>2, <1>3, <2>1
<1> QED BY <1>4, <1>5

(* Every option still fits when no class changes, *)
LEMMA AllStill ==
    ASSUME NEW my, NEW his, NEW h, NEW h2, NEW p, NEW q, NEW p2, NEW q2, AllFit(my, his, h, p, q),
           \A e \in Sides, o \in Option : Same(p, p2, Inward(e, o)) /\ Same(q, q2, Outward(e, o)),
           h2.yours = h.yours, h2.mine = h.mine
    PROVE  AllFit(my, his, h2, p2, q2)
<1> SUFFICES ASSUME NEW e \in Sides, NEW o \in Option, Covered(e, o)
             PROVE  Line(e, o, h2[e][o], o \in Table(my, his, e), p2, q2)
  BY DEF AllFit
<1> DEFINE b == o \in Table(my, his, e)
<1>1. b \in BOOLEAN
  OBVIOUS
<1>2. Line(e, o, h[e][o], b, p, q)
  BY Zenon DEF AllFit
<1>3. h2[e][o] = h[e][o]
  BY DEF Sides
<1> HIDE DEF b
<1>4. Line(e, o, h[e][o], b, p2, q2)
  BY <1>1, <1>2, LineStill
<1> QED BY <1>3, <1>4 DEF b

(* ... and so does TN3270E. *)
LEMMA TnStays ==
    ASSUME NEW my, NEW n \in BOOLEAN, NEW f, NEW h, NEW h2, NEW p, NEW q, NEW p2, NEW q2, NEW my2,
           TnFits(my, n, f, h, p, q), Same(p, p2, TnIn), Same(q, q2, TnOut),
           TnState(h2) = TnState(h), h2.funcs = h.funcs, "TN3270E" \in my2 <=> "TN3270E" \in my
    PROVE  TnFits(my2, n, f, h2, p2, q2)
<1> DEFINE b == "TN3270E" \in my
<1>1. b \in BOOLEAN /\ FitsTn(TnState(h), b, n, f, h.funcs, p, q)
  BY DEF TnFits
<1>2. ("TN3270E" \in my2) = b
  OBVIOUS
<1> HIDE DEF b
<1>3. FitsTn(TnState(h), b, n, f, h.funcs, p2, q2)
  BY <1>1, TnStill
<1> QED BY <1>2, <1>3 DEF TnFits

(* The lemmas on Fits, for an option of either side: the host starts a *)
(* change,                                                             *)
LEMMA LineAsked ==
    ASSUME NEW d \in Sides, NEW o \in Option, NEW y, NEW b \in BOOLEAN, NEW p, NEW q, NEW p2,
           Line(d, o, y, b, p, q)
    PROVE  /\ y = "NO" /\ Gains(p, p2, Inward(d, o), <<Asks(d), o>>) => Line(d, o, "WANTYES", b, p2, q)
           /\ y = "YES" /\ Gains(p, p2, Inward(d, o), <<Denies(d), o>>) => Line(d, o, "WANTNO", b, p2, q)
<1> DEFINE w == Wanted(d, o)
           a == o \in Accepted
<1>1. w \in BOOLEAN /\ a \in BOOLEAN
  BY DEF Wanted, Willing, Welcome
<1>2. Fits(y, b, w, a, p, q, <<Asks(d), o>>, <<Denies(d), o>>, <<Agrees(d), o>>, <<Refuses(d), o>>)
  BY DEF Line
<1>3. /\ Line(d, o, "WANTYES", b, p2, q) <=> Fits("WANTYES", b, w, a, p2, q, <<Asks(d), o>>, <<Denies(d), o>>,
                                                  <<Agrees(d), o>>, <<Refuses(d), o>>)
      /\ Line(d, o, "WANTNO", b, p2, q) <=> Fits("WANTNO", b, w, a, p2, q, <<Asks(d), o>>, <<Denies(d), o>>,
                                                 <<Agrees(d), o>>, <<Refuses(d), o>>)
  BY DEF Line
<1> HIDE DEF w, a
<1> QED BY <1>1, <1>2, <1>3, FitsAsked DEF Inward

(* ... hears a yes, *)
LEMMA LineOpen ==
    ASSUME NEW d \in Sides, NEW o \in Option, NEW y, NEW b \in BOOLEAN, NEW p, NEW q, NEW q2,
           Line(d, o, y, b, p, q), Loses(q, q2, Outward(d, o), <<Agrees(d), o>>)
    PROVE  y \notin {"YES", "WANTNO"}
<1> DEFINE w == Wanted(d, o)
           a == o \in Accepted
           yes == <<Asks(d), o>>
           no == <<Denies(d), o>>
           will == <<Agrees(d), o>>
           wont == <<Refuses(d), o>>
<1>1. w \in BOOLEAN /\ a \in BOOLEAN
  BY DEF Wanted, Willing, Welcome
<1>0. Fits(y, b, w, a, p, q, yes, no, will, wont)
  BY DEF Line
<1>3. will # wont
  BY Commands
<1>5. Loses(q, q2, {will, wont}, will)
  BY DEF Outward
<1> HIDE DEF w, a, yes, no, will, wont
<1> QED BY <1>0, <1>1, <1>3, <1>5, FitsOpen

(* ... that it asked for, *)
LEMMA LineAgreed ==
    ASSUME NEW d \in Sides, NEW o \in Option, NEW y, NEW b \in BOOLEAN, NEW p, NEW q, NEW q2,
           Line(d, o, y, b, p, q), Loses(q, q2, Outward(d, o), <<Agrees(d), o>>),
           y = "WANTYES"
    PROVE  Line(d, o, "YES", b, p, q2)
<1> DEFINE w == Wanted(d, o)
           a == o \in Accepted
           yes == <<Asks(d), o>>
           no == <<Denies(d), o>>
           will == <<Agrees(d), o>>
           wont == <<Refuses(d), o>>
<1>1. w \in BOOLEAN /\ a \in BOOLEAN
  BY DEF Wanted, Willing, Welcome
<1>0. Fits(y, b, w, a, p, q, yes, no, will, wont)
  BY DEF Line
<1>2. \A z, r, s : Line(d, o, z, b, r, s) <=> Fits(z, b, w, a, r, s, yes, no, will, wont)
  BY DEF Line
<1>3. will # wont
  BY Commands
<1>5. Loses(q, q2, {will, wont}, will)
  BY DEF Outward
<1> HIDE DEF w, a, yes, no, will, wont
<1>6. Fits("YES", b, w, a, p, q2, yes, no, will, wont)
  BY <1>0, <1>1, <1>3, <1>5, FitsAgreed
<1> QED BY <1>2, <1>6

(* ... that it accepts, *)
LEMMA LineAccepted ==
    ASSUME NEW d \in Sides, NEW o \in Option, NEW y, NEW b \in BOOLEAN, NEW p, NEW q, NEW p2, NEW q2,
           Line(d, o, y, b, p, q), Loses(q, q2, Outward(d, o), <<Agrees(d), o>>),
           y = "NO", o \in Accepted, Gains(p, p2, Inward(d, o), <<Asks(d), o>>)
    PROVE  Line(d, o, "YES", b, p2, q2)
<1> DEFINE w == Wanted(d, o)
           a == o \in Accepted
           yes == <<Asks(d), o>>
           no == <<Denies(d), o>>
           will == <<Agrees(d), o>>
           wont == <<Refuses(d), o>>
<1>1. w \in BOOLEAN /\ a \in BOOLEAN
  BY DEF Wanted, Willing, Welcome
<1>0. Fits(y, b, w, a, p, q, yes, no, will, wont)
  BY DEF Line
<1>2. \A z, r, s : Line(d, o, z, b, r, s) <=> Fits(z, b, w, a, r, s, yes, no, will, wont)
  BY DEF Line
<1>3. will # wont
  BY Commands
<1>4. Gains(p, p2, {yes, no}, yes)
  BY DEF Inward
<1>5. Loses(q, q2, {will, wont}, will)
  BY DEF Outward
<1>6. a
  OBVIOUS
<1> HIDE DEF w, a, yes, no, will, wont
<1>7. Fits("YES", b, w, a, p2, q2, yes, no, will, wont)
  BY <1>0, <1>1, <1>3, <1>4, <1>5, <1>6, FitsAccepted
<1> QED BY <1>2, <1>7

(* ... that it does not want, *)
LEMMA LineUnwanted ==
    ASSUME NEW d \in Sides, NEW o \in Option, NEW y, NEW b \in BOOLEAN, NEW p, NEW q, NEW p2, NEW q2,
           Line(d, o, y, b, p, q), Loses(q, q2, Outward(d, o), <<Agrees(d), o>>),
           y = "NO", o \notin Accepted, Gains(p, p2, Inward(d, o), <<Denies(d), o>>)
    PROVE  Line(d, o, "NO", b, p2, q2)
<1> DEFINE w == Wanted(d, o)
           a == o \in Accepted
           yes == <<Asks(d), o>>
           no == <<Denies(d), o>>
           will == <<Agrees(d), o>>
           wont == <<Refuses(d), o>>
<1>1. w \in BOOLEAN /\ a \in BOOLEAN
  BY DEF Wanted, Willing, Welcome
<1>0. Fits(y, b, w, a, p, q, yes, no, will, wont)
  BY DEF Line
<1>2. \A z, r, s : Line(d, o, z, b, r, s) <=> Fits(z, b, w, a, r, s, yes, no, will, wont)
  BY DEF Line
<1>3. will # wont
  BY Commands
<1>4. Gains(p, p2, {yes, no}, no)
  BY DEF Inward
<1>5. Loses(q, q2, {will, wont}, will)
  BY DEF Outward
<1>6. ~a
  OBVIOUS
<1> HIDE DEF w, a, yes, no, will, wont
<1>7. Fits("NO", b, w, a, p2, q2, yes, no, will, wont)
  BY <1>0, <1>1, <1>3, <1>4, <1>5, <1>6, FitsUnwanted
<1> QED BY <1>2, <1>7

(* ... or a no; *)
LEMMA LineRefused ==
    ASSUME NEW d \in Sides, NEW o \in Option, NEW y, NEW b \in BOOLEAN, NEW p, NEW q, NEW q2,
           Line(d, o, y, b, p, q), Loses(q, q2, Outward(d, o), <<Refuses(d), o>>)
    PROVE  Line(d, o, "NO", b, p, q2) /\ y # "YES"
<1> DEFINE w == Wanted(d, o)
           a == o \in Accepted
           yes == <<Asks(d), o>>
           no == <<Denies(d), o>>
           will == <<Agrees(d), o>>
           wont == <<Refuses(d), o>>
<1>1. w \in BOOLEAN /\ a \in BOOLEAN
  BY DEF Wanted, Willing, Welcome
<1>0. Fits(y, b, w, a, p, q, yes, no, will, wont)
  BY DEF Line
<1>2. \A z, r, s : Line(d, o, z, b, r, s) <=> Fits(z, b, w, a, r, s, yes, no, will, wont)
  BY DEF Line
<1>3. will # wont
  BY Commands
<1>5. Loses(q, q2, {will, wont}, wont)
  BY DEF Outward
<1> HIDE DEF w, a, yes, no, will, wont
<1>6. Fits("NO", b, w, a, p, q2, yes, no, will, wont) /\ y # "YES"
  BY <1>0, <1>1, <1>3, <1>5, FitsRefused
<1> QED BY <1>2, <1>6

(* the terminal is asked, *)
LEMMA LineYes ==
    ASSUME NEW d \in Sides, NEW o \in Option, NEW y, NEW b \in BOOLEAN, NEW p, NEW q, NEW p2, NEW q2,
           Line(d, o, y, b, p, q), Loses(p, p2, Inward(d, o), <<Asks(d), o>>)
    PROVE  /\ ~Wanted(d, o) => ~b
           /\ ~Wanted(d, o) /\ Gains(q, q2, Outward(d, o), <<Refuses(d), o>>) => Line(d, o, y, FALSE, p2, q2)
           /\ Wanted(d, o) /\ ~b /\ Gains(q, q2, Outward(d, o), <<Agrees(d), o>>) => Line(d, o, y, TRUE, p2, q2)
           /\ Wanted(d, o) /\ b => Line(d, o, y, TRUE, p2, q)
<1> DEFINE w == Wanted(d, o)
           a == o \in Accepted
           yes == <<Asks(d), o>>
           no == <<Denies(d), o>>
           will == <<Agrees(d), o>>
           wont == <<Refuses(d), o>>
<1>1. w \in BOOLEAN /\ a \in BOOLEAN
  BY DEF Wanted, Willing, Welcome
<1>0. Fits(y, b, w, a, p, q, yes, no, will, wont)
  BY DEF Line
<1>2. \A c, r, s : Line(d, o, y, c, r, s) <=> Fits(y, c, w, a, r, s, yes, no, will, wont)
  BY DEF Line
<1>3. will # wont /\ yes # no
  BY Commands
<1>4. Outward(d, o) = {will, wont} /\ Inward(d, o) = {yes, no}
  BY DEF Inward, Outward
<1>5. Loses(p, p2, {yes, no}, yes)
  BY DEF Inward
<1> HIDE DEF w, a, yes, no, will, wont
<1>6. ASSUME ~w
      PROVE  ~b
  BY <1>0, <1>1, <1>6, FitsYesUnwanted
<1>8. ASSUME ~w, Gains(q, q2, {will, wont}, wont)
      PROVE  Fits(y, FALSE, w, a, p2, q2, yes, no, will, wont)
  BY <1>0, <1>1, <1>3, <1>5, <1>8, FitsYesRefused
<1>9. ASSUME w, ~b, Gains(q, q2, {will, wont}, will)
      PROVE  Fits(y, TRUE, w, a, p2, q2, yes, no, will, wont)
  BY <1>0, <1>1, <1>3, <1>5, <1>9, FitsYesGranted
<1>10. ASSUME w, b
       PROVE  Fits(y, TRUE, w, a, p2, q, yes, no, will, wont)
  BY <1>0, <1>1, <1>3, <1>5, <1>10, FitsYesKept
<1>7. /\ ~w => ~b
      /\ ~w /\ Gains(q, q2, Outward(d, o), wont) => Line(d, o, y, FALSE, p2, q2)
      /\ w /\ ~b /\ Gains(q, q2, Outward(d, o), will) => Line(d, o, y, TRUE, p2, q2)
      /\ w /\ b => Line(d, o, y, TRUE, p2, q)
  BY <1>2, <1>4, <1>6, <1>8, <1>9, <1>10
<1> QED BY <1>7 DEF w, wont, will

(* ... is told to stop, *)
LEMMA LineNo ==
    ASSUME NEW d \in Sides, NEW o \in Option, NEW y, NEW b \in BOOLEAN, NEW p, NEW q, NEW p2, NEW q2,
           Line(d, o, y, b, p, q), Loses(p, p2, Inward(d, o), <<Denies(d), o>>)
    PROVE  /\ b /\ Gains(q, q2, Outward(d, o), <<Refuses(d), o>>) => Line(d, o, y, FALSE, p2, q2)
           /\ ~b => Line(d, o, y, FALSE, p2, q)
<1> DEFINE w == Wanted(d, o)
           a == o \in Accepted
           yes == <<Asks(d), o>>
           no == <<Denies(d), o>>
           will == <<Agrees(d), o>>
           wont == <<Refuses(d), o>>
<1>1. w \in BOOLEAN /\ a \in BOOLEAN
  BY DEF Wanted, Willing, Welcome
<1>0. Fits(y, b, w, a, p, q, yes, no, will, wont)
  BY DEF Line
<1>2. \A c, r, s : Line(d, o, y, c, r, s) <=> Fits(y, c, w, a, r, s, yes, no, will, wont)
  BY DEF Line
<1>3. will # wont /\ yes # no
  BY Commands
<1>4. Outward(d, o) = {will, wont} /\ Inward(d, o) = {yes, no}
  BY DEF Inward, Outward
<1>5. Loses(p, p2, {yes, no}, no)
  BY DEF Inward
<1> HIDE DEF w, a, yes, no, will, wont
<1>6. /\ b /\ Gains(q, q2, {will, wont}, wont) => Fits(y, FALSE, w, a, p2, q2, yes, no, will, wont)
      /\ ~b => Fits(y, FALSE, w, a, p2, q, yes, no, will, wont)
  BY <1>0, <1>1, <1>3, <1>5, FitsNo
<1>7. /\ b /\ Gains(q, q2, Outward(d, o), wont) => Line(d, o, y, FALSE, p2, q2)
      /\ ~b => Line(d, o, y, FALSE, p2, q)
  BY <1>2, <1>4, <1>6
<1> QED BY <1>7 DEF wont

(* ... or volunteers. *)
LEMMA LineOffered ==
    ASSUME NEW d \in Sides, NEW o \in Option, NEW y, NEW p, NEW q, NEW q2,
           Line(d, o, y, FALSE, p, q), Wanted(d, o), Gains(q, q2, Outward(d, o), <<Agrees(d), o>>)
    PROVE  Line(d, o, y, TRUE, p, q2)
<1> DEFINE w == Wanted(d, o)
           a == o \in Accepted
           yes == <<Asks(d), o>>
           no == <<Denies(d), o>>
           will == <<Agrees(d), o>>
           wont == <<Refuses(d), o>>
<1>1. w \in BOOLEAN /\ a \in BOOLEAN /\ w
  BY DEF Wanted, Willing, Welcome
<1>2. /\ Fits(y, FALSE, w, a, p, q, yes, no, will, wont)
      /\ Line(d, o, y, TRUE, p, q2) <=> Fits(y, TRUE, w, a, p, q2, yes, no, will, wont)
  BY DEF Line
<1>3. will # wont /\ yes # no
  BY Commands
<1>4. Gains(q, q2, {will, wont}, will)
  BY DEF Outward
<1> HIDE DEF w, a, yes, no, will, wont
<1>5. Fits(y, TRUE, w, a, p, q2, yes, no, will, wont)
  BY <1>1, <1>2, <1>3, <1>4, FitsOffered
<1> QED BY <1>2, <1>5

-----------------------------------------------------------------------------
(* The two ends and all that is on its way between them. *)
Joined(my, his, n, f, h, p, q) == AllFit(my, his, h, p, q) /\ TnFits(my, n, f, h, p, q)

(* TN3270E among the options of the terminal. *)
IsTn(d, o) == d = "yours" /\ o = "TN3270E"

(* A command on its way to the terminal, *)
LEMMA InMoved ==
    ASSUME NEW d \in Sides, NEW o \in Option, NEW c \in {Asks(d), Denies(d)}, NEW p, NEW r
    PROVE  /\ Brings(p, r, <<c, o>>) => /\ InElse(d, o, p, r) /\ Gains(p, r, Inward(d, o), <<c, o>>)
                                        /\ IsTn(d, o) => Gains(p, r, TnIn, <<c, o>>)
                                        /\ ~IsTn(d, o) => Same(p, r, TnIn)
           /\ Takes(p, r, <<c, o>>) => /\ InElse(d, o, p, r) /\ Loses(p, r, Inward(d, o), <<c, o>>)
                                       /\ IsTn(d, o) => Loses(p, r, TnIn, <<c, o>>)
                                       /\ ~IsTn(d, o) => Same(p, r, TnIn)
<1>1. c \in OptionCommand
  BY Commands
<1>2. \A e \in Sides : e # d => c \notin {Asks(e), Denies(e)}
  BY DEF Sides, Asks, Denies
<1>3. c \in {"DO", "DONT"} <=> d = "yours"
  BY DEF Sides, Asks, Denies
<1>4. ASSUME Brings(p, r, <<c, o>>)
      PROVE  /\ InElse(d, o, p, r) /\ Gains(p, r, Inward(d, o), <<c, o>>)
             /\ IsTn(d, o) => Gains(p, r, TnIn, <<c, o>>)
             /\ ~IsTn(d, o) => Same(p, r, TnIn)
  <2>1. InElse(d, o, p, r)
    BY <1>1, <1>2, <1>4, Brought DEF InElse
  <2>2. Gains(p, r, Inward(d, o), <<c, o>>)
    BY <1>1, <1>4, Brought
  <2>3. IF c \in {"DO", "DONT"} /\ o = "TN3270E" THEN Gains(p, r, TnIn, <<c, o>>) ELSE Same(p, r, TnIn)
    BY <1>1, <1>4, Brought
  <2> QED BY <1>3, <2>1, <2>2, <2>3 DEF IsTn
<1>5. ASSUME Takes(p, r, <<c, o>>)
      PROVE  /\ InElse(d, o, p, r) /\ Loses(p, r, Inward(d, o), <<c, o>>)
             /\ IsTn(d, o) => Loses(p, r, TnIn, <<c, o>>)
             /\ ~IsTn(d, o) => Same(p, r, TnIn)
  <2>1. InElse(d, o, p, r)
    BY <1>1, <1>2, <1>5, Taken DEF InElse
  <2>2. Loses(p, r, Inward(d, o), <<c, o>>)
    BY <1>1, <1>5, Taken
  <2>3. IF c \in {"DO", "DONT"} /\ o = "TN3270E" THEN Loses(p, r, TnIn, <<c, o>>) ELSE Same(p, r, TnIn)
    BY <1>1, <1>5, Taken
  <2> QED BY <1>3, <2>1, <2>2, <2>3 DEF IsTn
<1> QED BY <1>4, <1>5

(* ... or to the host, moves in the classes of its option only. *)
LEMMA OutMoved ==
    ASSUME NEW d \in Sides, NEW o \in Option, NEW c \in {Agrees(d), Refuses(d)}, NEW q, NEW r
    PROVE  /\ Brings(q, r, <<c, o>>) => /\ OutElse(d, o, q, r) /\ Gains(q, r, Outward(d, o), <<c, o>>)
                                        /\ IsTn(d, o) => Gains(q, r, TnOut, <<c, o>>)
                                        /\ ~IsTn(d, o) => Same(q, r, TnOut)
           /\ Takes(q, r, <<c, o>>) => /\ OutElse(d, o, q, r) /\ Loses(q, r, Outward(d, o), <<c, o>>)
                                       /\ IsTn(d, o) => Loses(q, r, TnOut, <<c, o>>)
                                       /\ ~IsTn(d, o) => Same(q, r, TnOut)
<1>1. c \in OptionCommand
  BY Commands
<1>2. \A e \in Sides : e # d => c \notin {Agrees(e), Refuses(e)}
  BY DEF Sides, Agrees, Refuses
<1>3. c \in {"WILL", "WONT"} <=> d = "yours"
  BY DEF Sides, Agrees, Refuses
<1>4. ASSUME Brings(q, r, <<c, o>>)
      PROVE  /\ OutElse(d, o, q, r) /\ Gains(q, r, Outward(d, o), <<c, o>>)
             /\ IsTn(d, o) => Gains(q, r, TnOut, <<c, o>>)
             /\ ~IsTn(d, o) => Same(q, r, TnOut)
  <2>1. OutElse(d, o, q, r)
    BY <1>1, <1>2, <1>4, Brought DEF OutElse
  <2>2. Gains(q, r, Outward(d, o), <<c, o>>)
    BY <1>1, <1>4, Brought
  <2>3. IF c \in {"WILL", "WONT"} /\ o = "TN3270E" THEN Gains(q, r, TnOut, <<c, o>>) ELSE Same(q, r, TnOut)
    BY <1>1, <1>4, Brought
  <2> QED BY <1>3, <2>1, <2>2, <2>3 DEF IsTn
<1>5. ASSUME Takes(q, r, <<c, o>>)
      PROVE  /\ OutElse(d, o, q, r) /\ Loses(q, r, Outward(d, o), <<c, o>>)
             /\ IsTn(d, o) => Loses(q, r, TnOut, <<c, o>>)
             /\ ~IsTn(d, o) => Same(q, r, TnOut)
  <2>1. OutElse(d, o, q, r)
    BY <1>1, <1>2, <1>5, Taken DEF OutElse
  <2>2. Loses(q, r, Outward(d, o), <<c, o>>)
    BY <1>1, <1>5, Taken
  <2>3. IF c \in {"WILL", "WONT"} /\ o = "TN3270E" THEN Loses(q, r, TnOut, <<c, o>>) ELSE Same(q, r, TnOut)
    BY <1>1, <1>5, Taken
  <2> QED BY <1>3, <2>1, <2>2, <2>3 DEF IsTn
<1> QED BY <1>4, <1>5

(* A queue that stays the same is unchanged in every class, *)
LEMMA ElseItself ==
    ASSUME NEW p, NEW d, NEW o
    PROVE  InElse(d, o, p, p) /\ OutElse(d, o, p, p) /\ Same(p, p, TnIn) /\ Same(p, p, TnOut)
BY SameItself DEF InElse, OutElse

(* A step that concerns one option joins the ends again if that option fits, *)
LEMMA OneLine ==
    ASSUME NEW d \in Sides, NEW o \in Option, NEW my, NEW his, NEW my2, NEW his2, NEW n \in BOOLEAN, NEW f,
           NEW h, NEW h2, NEW p, NEW q, NEW p2, NEW q2,
           Joined(my, his, n, f, h, p, q), ~IsTn(d, o),
           InElse(d, o, p, p2), OutElse(d, o, q, q2), HostElse(d, o, h, h2),
           TableElse(d, o, my, his, my2, his2),
           Same(p, p2, TnIn), Same(q, q2, TnOut), h2.funcs = h.funcs,
           Covered(d, o) => Line(d, o, h2[d][o], o \in Table(my2, his2, d), p2, q2),
           my \subseteq Option, my2 \subseteq Option
    PROVE  Joined(my2, his2, n, f, h2, p2, q2)
<1>1. AllFit(my2, his2, h2, p2, q2)
  <2>1. AllFit(my, his, h, p, q)
    BY DEF Joined
  <2> QED BY <2>1, OthersFit, Zenon
<1>2. TnState(h2) = TnState(h) /\ ("TN3270E" \in my2 <=> "TN3270E" \in my)
  <2>1. CASE "TN3270E" \in Option
    <3>1. "yours" # d \/ "TN3270E" # o
      BY DEF IsTn
    <3>2. "yours" \in Sides /\ Table(my, his, "yours") = my /\ Table(my2, his2, "yours") = my2
      BY DEF Sides, Table
    <3>3. h2["yours"]["TN3270E"] = h["yours"]["TN3270E"]
      BY <2>1, <3>1, <3>2 DEF HostElse
    <3>4. "TN3270E" \in Table(my2, his2, "yours") <=> "TN3270E" \in Table(my, his, "yours")
      BY <2>1, <3>1, <3>2 DEF TableElse
    <3> QED BY <2>1, <3>2, <3>3, <3>4 DEF TnState
  <2>2. CASE "TN3270E" \notin Option
    BY <2>2 DEF TnState
  <2> QED BY <2>1, <2>2
<1>3. TnFits(my2, n, f, h2, p2, q2)
  BY <1>2, TnStays DEF Joined
<1> QED BY <1>1, <1>3 DEF Joined

(* ... also when the host stays as it is. *)
LEMMA HeardLine ==
    ASSUME NEW d \in Sides, NEW o \in Option, NEW my \in SUBSET Option, NEW his, NEW my2 \in SUBSET Option,
           NEW his2, NEW n \in BOOLEAN, NEW f, NEW h, NEW p, NEW q, NEW p2, NEW q2,
           Joined(my, his, n, f, h, p, q), ~IsTn(d, o),
           InElse(d, o, p, p2), OutElse(d, o, q, q2), TableElse(d, o, my, his, my2, his2),
           Same(p, p2, TnIn), Same(q, q2, TnOut),
           Covered(d, o) => Line(d, o, h[d][o], o \in Table(my2, his2, d), p2, q2)
    PROVE  Joined(my2, his2, n, f, h, p2, q2)
<1>1. PICK k : k = h
  OBVIOUS
<1>2. HostElse(d, o, h, k) /\ k.funcs = h.funcs
  BY <1>1 DEF HostElse
<1>3. Covered(d, o) => Line(d, o, k[d][o], o \in Table(my2, his2, d), p2, q2)
  BY <1>1, Zenon
<1>4. my \subseteq Option /\ my2 \subseteq Option
  OBVIOUS
<1>5. Joined(my2, his2, n, f, k, p2, q2)
  BY <1>2, <1>3, <1>4, OneLine, Zenon
<1> QED BY <1>1, <1>5, Zenon

(* The same for TN3270E. *)
LEMMA TnLine ==
    ASSUME NEW my, NEW his, NEW my2, NEW n, NEW f, NEW n2, NEW f2,
           NEW h, NEW h2, NEW p, NEW q, NEW p2, NEW q2,
           Joined(my, his, n, f, h, p, q), "TN3270E" \in Option,
           InElse("yours", "TN3270E", p, p2), OutElse("yours", "TN3270E", q, q2),
           HostElse("yours", "TN3270E", h, h2), TableElse("yours", "TN3270E", my, his, my2, his),
           FitsTn(h2.yours["TN3270E"], "TN3270E" \in my2, n2, f2, h2.funcs, p2, q2)
    PROVE  Joined(my2, his, n2, f2, h2, p2, q2)
<1>1. AllFit(my2, his, h2, p2, q2)
  <2>1. AllFit(my, his, h, p, q)
    BY DEF Joined
  <2>2. ~Covered("yours", "TN3270E") /\ "yours" \in Sides
    BY DEF Covered, Sides
  <2> QED BY <2>1, <2>2, OthersFit
<1>2. TnFits(my2, n2, f2, h2, p2, q2)
  BY DEF TnFits, TnState
<1> QED BY <1>1, <1>2 DEF Joined

(* Of the whole, one option, *)
LEMMA LineAt ==
    ASSUME NEW my, NEW his, NEW n, NEW f, NEW h, NEW p, NEW q, Joined(my, his, n, f, h, p, q),
           NEW d \in Sides, NEW o \in Option, Covered(d, o)
    PROVE  Line(d, o, h[d][o], o \in Table(my, his, d), p, q)
BY DEF Joined, AllFit

(* ... or TN3270E. *)
LEMMA TnAt ==
    ASSUME NEW my, NEW his, NEW n, NEW f, NEW h, NEW p, NEW q, Joined(my, his, n, f, h, p, q),
           "TN3270E" \in Option
    PROVE  FitsTn(h.yours["TN3270E"], "TN3270E" \in my, n, f, h.funcs, p, q)
BY DEF Joined, TnFits, TnState

(* Who does not change, changes nothing else. *)
LEMMA ElseKept ==
    ASSUME NEW my, NEW his, NEW h, NEW d, NEW o
    PROVE  HostElse(d, o, h, h) /\ TableElse(d, o, my, his, my, his)
BY DEF HostElse, TableElse

-----------------------------------------------------------------------------
(* What a message does to the whole, seen from the host and from the terminal. *)

(* The host starts to change an option (HostStarts). *)
LEMMA HostAsked ==
    ASSUME NEW my \in SUBSET Option, NEW his \in SUBSET Option, NEW n \in BOOLEAN, NEW f \in SUBSET Function,
           NEW h, NEW h2, NEW p, NEW q, NEW p2, NEW d \in Sides, NEW o \in Option,
           NEW c \in {Asks(d), Denies(d)},
           Joined(my, his, n, f, h, p, q), Brings(p, p2, <<c, o>>),
           HostElse(d, o, h, h2), h2.funcs = h.funcs,
           \/ h[d][o] = "NO" /\ c = Asks(d) /\ h2[d][o] = "WANTYES"
           \/ h[d][o] = "YES" /\ c = Denies(d) /\ h2[d][o] = "WANTNO"
    PROVE  Joined(my, his, n, f, h2, p2, q)
<1>1. /\ InElse(d, o, p, p2) /\ Gains(p, p2, Inward(d, o), <<c, o>>)
      /\ IsTn(d, o) => Gains(p, p2, TnIn, <<c, o>>)
      /\ ~IsTn(d, o) => Same(p, p2, TnIn)
  BY InMoved
<1>2. OutElse(d, o, q, q) /\ Same(q, q, TnOut) /\ TableElse(d, o, my, his, my, his)
  BY ElseItself, ElseKept
<1>3. CASE ~IsTn(d, o)
  <2> DEFINE b == o \in Table(my, his, d)
  <2>1. ASSUME Covered(d, o)
        PROVE  Line(d, o, h2[d][o], b, p2, q)
    <3>1. Line(d, o, h[d][o], b, p, q) /\ b \in BOOLEAN
      BY <2>1, LineAt
    <3> HIDE DEF b
    <3>2. CASE h[d][o] = "NO" /\ c = Asks(d) /\ h2[d][o] = "WANTYES"
      BY <1>1, <3>1, <3>2, LineAsked
    <3>3. CASE h[d][o] = "YES" /\ c = Denies(d) /\ h2[d][o] = "WANTNO"
      BY <1>1, <3>1, <3>3, LineAsked
    <3> QED BY <3>2, <3>3
  <2> QED BY <1>1, <1>2, <1>3, <2>1, OneLine, Zenon
<1>4. CASE IsTn(d, o)
  <2> DEFINE b == "TN3270E" \in my
  <2>1. d = "yours" /\ o = "TN3270E" /\ <<Asks(d), o>> = TnDo /\ <<Denies(d), o>> = TnDont
    BY <1>4 DEF IsTn, TnDo, TnDont, Asks, Denies
  <2>2. FitsTn(h.yours["TN3270E"], b, n, f, h.funcs, p, q) /\ b \in BOOLEAN
    BY <2>1, TnAt
  <2> HIDE DEF b
  <2>3. FitsTn(h2.yours["TN3270E"], b, n, f, h2.funcs, p2, q)
    <3>1. CASE h[d][o] = "NO" /\ c = Asks(d) /\ h2[d][o] = "WANTYES"
      <4>1. Gains(p, p2, TnIn, TnDo) /\ h.yours["TN3270E"] = "NO" /\ h2.yours["TN3270E"] = "WANTYES"
        BY <1>1, <1>4, <2>1, <3>1
      <4> QED BY <2>2, <4>1, TnAsked
    <3>2. CASE h[d][o] = "YES" /\ c = Denies(d) /\ h2[d][o] = "WANTNO"
      <4>1. Gains(p, p2, TnIn, TnDont) /\ h.yours["TN3270E"] = "YES" /\ h2.yours["TN3270E"] = "WANTNO"
        BY <1>1, <1>4, <2>1, <3>2
      <4> QED BY <2>2, <4>1, TnAsked
    <3> QED BY <3>1, <3>2
  <2> QED BY <1>1, <1>2, <2>1, <2>3, TnLine DEF b
<1> QED BY <1>3, <1>4

(* What the host does with an option command (HostOption). *)
Hears(h, h2, d, o, yes, p, p2) ==
    \E a \in BOOLEAN, back \in {<<>>, <<Asks(d)>>, <<Denies(d)>>} :
       /\ HostElse(d, o, h, h2) /\ h2.funcs = h.funcs
       /\ a <=> o \in Accepted
       /\ h2[d][o] = NextOptionState(h[d][o], yes, a)
       /\ back = Reply(h[d][o], yes, a, Asks(d), Denies(d))
       /\ \/ back = <<>> /\ p2 = p
          \/ \E r \in {Asks(d), Denies(d)} : back = <<r>> /\ Brings(p, p2, <<r, o>>)

(* The host hears a command of an option other than TN3270E. *)
LEMMA HostHeard ==
    ASSUME NEW my \in SUBSET Option, NEW his \in SUBSET Option, NEW n \in BOOLEAN, NEW f \in SUBSET Function,
           NEW h \in HostState, NEW h2, NEW p, NEW q, NEW p2, NEW q2, NEW d \in Sides, NEW o \in Option,
           NEW c \in {Agrees(d), Refuses(d)}, ~IsTn(d, o),
           Joined(my, his, n, f, h, p, q), Takes(q, q2, <<c, o>>),
           NEW yes \in BOOLEAN, c = IF yes THEN Agrees(d) ELSE Refuses(d),
           Hears(h, h2, d, o, yes, p, p2)
    PROVE  Joined(my, his, n, f, h2, p2, q2)
<1> DEFINE b == o \in Table(my, his, d)
<1>0. PICK a \in BOOLEAN, back \in {<<>>, <<Asks(d)>>, <<Denies(d)>>} :
         /\ HostElse(d, o, h, h2) /\ h2.funcs = h.funcs
         /\ a <=> o \in Accepted
         /\ h2[d][o] = NextOptionState(h[d][o], yes, a)
         /\ back = Reply(h[d][o], yes, a, Asks(d), Denies(d))
         /\ \/ back = <<>> /\ p2 = p
            \/ \E r \in {Asks(d), Denies(d)} : back = <<r>> /\ Brings(p, p2, <<r, o>>)
  BY DEF Hears
<1>1. /\ OutElse(d, o, q, q2) /\ Loses(q, q2, Outward(d, o), <<c, o>>) /\ Same(q, q2, TnOut)
      /\ TableElse(d, o, my, his, my, his)
  BY OutMoved, ElseKept
<1>2. /\ InElse(d, o, p, p2) /\ Same(p, p2, TnIn)
      /\ \/ back = <<>> /\ p2 = p
         \/ \E r \in {Asks(d), Denies(d)} : back = <<r>> /\ Gains(p, p2, Inward(d, o), <<r, o>>)
  <2>1. CASE back = <<>> /\ p2 = p
    BY <1>0, <2>1, ElseItself
  <2>2. ASSUME NEW r \in {Asks(d), Denies(d)}, back = <<r>>, Brings(p, p2, <<r, o>>)
        PROVE  /\ InElse(d, o, p, p2) /\ Same(p, p2, TnIn)
               /\ back = <<r>> /\ Gains(p, p2, Inward(d, o), <<r, o>>)
    BY <2>2, InMoved
  <2> QED BY <1>0, <2>1, <2>2
<1>3. h[d][o] \in OptionState
  BY DEF HostState, Sides
<1>4. ASSUME Covered(d, o)
      PROVE  Line(d, o, h2[d][o], b, p2, q2)
  <2>1. Line(d, o, h[d][o], b, p, q) /\ b \in BOOLEAN
    BY <1>4, LineAt
  <2> HIDE DEF b
  <2>2. Agrees(d) # Refuses(d) /\ Asks(d) # Denies(d) /\ (yes <=> c = Agrees(d))
    BY Commands
  <2>3. CASE c = Refuses(d)
    <3>1. Line(d, o, "NO", b, p, q2) /\ h[d][o] # "YES"
      BY <1>1, <2>1, <2>3, LineRefused
    <3>2. h2[d][o] = "NO" /\ back = <<>>
      BY <1>0, <1>3, <2>2, <2>3, <3>1 DEF NextOptionState, Reply, OptionState
    <3>3. p2 = p
      <4>1. \A r : <<r>> # <<>>
        OBVIOUS
      <4> QED BY <1>2, <3>2, <4>1
    <3> QED BY <3>1, <3>2, <3>3
  <2>4. CASE c = Agrees(d) /\ h[d][o] # "NO"
    <3>1. h[d][o] \notin {"YES", "WANTNO"}
      BY <1>1, <2>1, <2>4, LineOpen
    <3>2. h2[d][o] = "YES" /\ back = <<>> /\ h[d][o] = "WANTYES"
      BY <1>0, <1>3, <2>2, <2>4, <3>1 DEF NextOptionState, Reply, OptionState
    <3>3. p2 = p
      <4>1. \A r : <<r>> # <<>>
        OBVIOUS
      <4> QED BY <1>2, <3>2, <4>1
    <3> QED BY <1>1, <2>1, <2>4, <3>2, <3>3, LineAgreed
  <2>5. CASE c = Agrees(d) /\ h[d][o] = "NO" /\ o \in Accepted
    <3>1. h2[d][o] = "YES" /\ back = <<Asks(d)>>
      BY <1>0, <2>2, <2>5 DEF NextOptionState, Reply
    <3>2. Gains(p, p2, Inward(d, o), <<Asks(d), o>>)
      <4>1. <<Asks(d)>> # <<>> /\ \A r : <<r>> = <<Asks(d)>> => r = Asks(d)
        OBVIOUS
      <4> QED BY <1>2, <3>1, <4>1
    <3>3. Line(d, o, "YES", b, p2, q2)
      BY <1>1, <2>1, <2>5, <3>2, LineAccepted
    <3> QED BY <3>1, <3>3
  <2>6. CASE c = Agrees(d) /\ h[d][o] = "NO" /\ o \notin Accepted
    <3>1. h2[d][o] = "NO" /\ back = <<Denies(d)>>
      BY <1>0, <2>2, <2>6 DEF NextOptionState, Reply
    <3>2. Gains(p, p2, Inward(d, o), <<Denies(d), o>>)
      <4>1. <<Denies(d)>> # <<>> /\ \A r : <<r>> = <<Denies(d)>> => r = Denies(d)
        OBVIOUS
      <4> QED BY <1>2, <3>1, <4>1
    <3>3. Line(d, o, "NO", b, p2, q2)
      BY <1>1, <2>1, <2>6, <3>2, LineUnwanted
    <3> QED BY <3>1, <3>3
  <2> QED BY <2>3, <2>4, <2>5, <2>6
<1>5. ASSUME Covered(d, o)
      PROVE  Line(d, o, h2[d][o], o \in Table(my, his, d), p2, q2)
  BY <1>4, <1>5
<1>6. /\ InElse(d, o, p, p2) /\ Same(p, p2, TnIn) /\ OutElse(d, o, q, q2) /\ Same(q, q2, TnOut)
      /\ TableElse(d, o, my, his, my, his)
  BY <1>1, <1>2
<1> HIDE DEF b
<1> QED BY <1>0, <1>5, <1>6, OneLine

(* WILL TN3270E answers a question of the host. *)
LEMMA HostHeardWillTnKnown ==
    ASSUME NEW my \in SUBSET Option, NEW his, NEW n \in BOOLEAN, NEW f \in SUBSET Function,
           NEW h, NEW p, NEW q, NEW q2, "TN3270E" \in Option,
           Joined(my, his, n, f, h, p, q), Takes(q, q2, TnWill)
    PROVE  h.yours["TN3270E"] = "WANTYES"
<1> DEFINE b == "TN3270E" \in my
<1>1. FitsTn(h.yours["TN3270E"], b, n, f, h.funcs, p, q) /\ b \in BOOLEAN
  BY TnAt
<1>2. "yours" \in Sides /\ Agrees("yours") = "WILL" /\ IsTn("yours", "TN3270E")
  BY DEF Sides, Agrees, IsTn
<1>3. Loses(q, q2, TnOut, TnWill)
  BY <1>2, OutMoved DEF TnWill
<1> HIDE DEF b
<1> QED BY <1>1, <1>3, TnHeardWill

(* The host hears WILL TN3270E and asks for the device type. *)
LEMMA HostHeardWillTn ==
    ASSUME NEW my \in SUBSET Option, NEW his \in SUBSET Option, NEW n \in BOOLEAN, NEW f \in SUBSET Function,
           NEW h, NEW h2, NEW p, NEW q, NEW p2, NEW q2, "TN3270E" \in Option,
           Joined(my, his, n, f, h, p, q), Takes(q, q2, TnWill),
           HostElse("yours", "TN3270E", h, h2), h2.yours["TN3270E"] = "YES",
           h2.funcs = NoAgreement, Brings(p, p2, <<"SEND_DEVICE_TYPE">>)
    PROVE  Joined(my, his, n, f, h2, p2, q2)
<1> DEFINE b == "TN3270E" \in my
<1>1. FitsTn(h.yours["TN3270E"], b, n, f, h.funcs, p, q) /\ b \in BOOLEAN
  BY TnAt
<1>2. OutElse("yours", "TN3270E", q, q2) /\ Loses(q, q2, TnOut, TnWill)
  <2>1. "yours" \in Sides /\ Agrees("yours") = "WILL" /\ IsTn("yours", "TN3270E")
    BY DEF Sides, Agrees, IsTn
  <2> QED BY <2>1, OutMoved DEF TnWill
<1> HIDE DEF b
<1>3. <<"SEND_DEVICE_TYPE">> \in InTokens
  BY DEF InTokens
<1>4. Gains(p, p2, TnIn, <<"SEND_DEVICE_TYPE">>) /\ InElse("yours", "TN3270E", p, p2)
  BY <1>3, TokenMoved DEF InElse
<1>5. FitsTn("YES", b, n, f, NoAgreement, p2, q2)
  BY <1>1, <1>2, <1>4, TnHeardWill
<1>6. FitsTn(h2.yours["TN3270E"], b, n, f, h2.funcs, p2, q2)
  BY <1>5
<1>7. TableElse("yours", "TN3270E", my, his, my, his)
  BY ElseKept
<1> QED BY <1>2, <1>4, <1>6, <1>7, TnLine DEF b

(* The host hears WONT TN3270E. *)
LEMMA HostHeardWontTn ==
    ASSUME NEW my \in SUBSET Option, NEW his \in SUBSET Option, NEW n \in BOOLEAN, NEW f \in SUBSET Function,
           NEW h, NEW h2, NEW p, NEW q, NEW p2, NEW q2, "TN3270E" \in Option,
           Joined(my, his, n, f, h, p, q), Takes(q, q2, TnWont),
           HostElse("yours", "TN3270E", h, h2), h2.yours["TN3270E"] = "NO", h2.funcs = NoAgreement,
           IF h.yours["TN3270E"] = "YES" THEN Brings(p, p2, TnDont) ELSE p2 = p
    PROVE  Joined(my, his, n, f, h2, p2, q2)
<1> DEFINE b == "TN3270E" \in my
<1>1. FitsTn(h.yours["TN3270E"], b, n, f, h.funcs, p, q) /\ b \in BOOLEAN
  BY TnAt
<1>2. "yours" \in Sides /\ Refuses("yours") = "WONT" /\ Denies("yours") = "DONT" /\ IsTn("yours", "TN3270E")
  BY DEF Sides, Refuses, Denies, IsTn
<1>3. OutElse("yours", "TN3270E", q, q2) /\ Loses(q, q2, TnOut, TnWont)
  BY <1>2, OutMoved DEF TnWont
<1>4. TableElse("yours", "TN3270E", my, his, my, his)
  BY ElseKept
<1> HIDE DEF b
<1>5. CASE h.yours["TN3270E"] = "YES"
  <2>1. Gains(p, p2, TnIn, TnDont) /\ InElse("yours", "TN3270E", p, p2)
    BY <1>2, <1>5, InMoved DEF TnDont
  <2>2. FitsTn("NO", b, n, f, NoAgreement, p2, q2)
    BY <1>1, <1>3, <1>5, <2>1, TnHeardWont
  <2>3. FitsTn(h2.yours["TN3270E"], b, n, f, h2.funcs, p2, q2)
    BY <2>2
  <2> QED BY <1>3, <1>4, <2>1, <2>3, TnLine DEF b
<1>6. CASE h.yours["TN3270E"] # "YES"
  <2>1. p2 = p /\ InElse("yours", "TN3270E", p, p2)
    BY <1>6, ElseItself
  <2>2. FitsTn("NO", b, n, f, NoAgreement, p2, q2)
    BY <1>1, <1>3, <1>6, <2>1, TnHeardWont
  <2>3. FitsTn(h2.yours["TN3270E"], b, n, f, h2.funcs, p2, q2)
    BY <2>2
  <2> QED BY <1>3, <1>4, <2>1, <2>3, TnLine DEF b
<1> QED BY <1>5, <1>6

(* WONT TN3270E tells the host something new. *)
LEMMA HostHeardWontTnKnown ==
    ASSUME NEW my \in SUBSET Option, NEW his, NEW n \in BOOLEAN, NEW f \in SUBSET Function,
           NEW h, NEW p, NEW q, NEW q2, "TN3270E" \in Option,
           Joined(my, his, n, f, h, p, q), Takes(q, q2, TnWont)
    PROVE  h.yours["TN3270E"] # "NO"
<1> DEFINE b == "TN3270E" \in my
<1>1. FitsTn(h.yours["TN3270E"], b, n, f, h.funcs, p, q) /\ b \in BOOLEAN
  BY TnAt
<1>2. "yours" \in Sides /\ Refuses("yours") = "WONT" /\ IsTn("yours", "TN3270E")
  BY DEF Sides, Refuses, IsTn
<1>3. Loses(q, q2, TnOut, TnWont)
  BY <1>2, OutMoved DEF TnWont
<1> HIDE DEF b
<1> QED BY <1>1, <1>3, TnHeardWont

(* The terminal refuses an option it is asked for, *)
LEMMA AskRefused ==
    ASSUME NEW my \in SUBSET Option, NEW his \in SUBSET Option, NEW n \in BOOLEAN, NEW f \in SUBSET Function,
           NEW h, NEW p, NEW q, NEW p2, NEW q2, NEW d \in Sides, NEW o \in Option,
           Joined(my, his, n, f, h, p, q), Takes(p, p2, <<Asks(d), o>>),
           Wanted(d, o) => (d = "yours" /\ o = "TM"), Brings(q, q2, <<Refuses(d), o>>)
    PROVE  Joined(my, his, n, f, h, p2, q2)
<1>1. /\ InElse(d, o, p, p2) /\ Loses(p, p2, Inward(d, o), <<Asks(d), o>>)
      /\ IsTn(d, o) => Loses(p, p2, TnIn, <<Asks(d), o>>)
      /\ ~IsTn(d, o) => Same(p, p2, TnIn)
  BY InMoved
<1>2. /\ OutElse(d, o, q, q2) /\ Gains(q, q2, Outward(d, o), <<Refuses(d), o>>)
      /\ IsTn(d, o) => Gains(q, q2, TnOut, <<Refuses(d), o>>)
      /\ ~IsTn(d, o) => Same(q, q2, TnOut)
  BY OutMoved
<1>3. HostElse(d, o, h, h) /\ TableElse(d, o, my, his, my, his) /\ h.funcs = h.funcs
  BY ElseKept
<1>4. CASE ~IsTn(d, o)
  <2> DEFINE b == o \in Table(my, his, d)
  <2>1. ASSUME Covered(d, o)
        PROVE  Line(d, o, h[d][o], b, p2, q2)
    <3>1. Line(d, o, h[d][o], b, p, q) /\ b \in BOOLEAN
      BY <2>1, LineAt
    <3>2. ~Wanted(d, o)
      BY <2>1 DEF Covered
    <3> HIDE DEF b
    <3>3. ~b
      BY <1>1, <3>1, <3>2, LineYes
    <3>4. Line(d, o, h[d][o], FALSE, p2, q2)
      BY <1>1, <1>2, <3>1, <3>2, LineYes
    <3>5. b = FALSE
      BY <3>1, <3>3
    <3> QED BY <3>4, <3>5
  <2>2. InElse(d, o, p, p2) /\ OutElse(d, o, q, q2) /\ Same(p, p2, TnIn) /\ Same(q, q2, TnOut)
    BY <1>1, <1>2, <1>4
  <2>3. Covered(d, o) => Line(d, o, h[d][o], o \in Table(my, his, d), p2, q2)
    BY <2>1
  <2> HIDE DEF b
  <2> QED BY <1>3, <1>4, <2>3, <2>2, HeardLine
<1>5. CASE IsTn(d, o)
  <2> DEFINE b == "TN3270E" \in my
  <2>1. d = "yours" /\ o = "TN3270E" /\ <<Asks(d), o>> = TnDo /\ <<Refuses(d), o>> = TnWont
    BY <1>5 DEF IsTn, TnDo, TnWont, Asks, Refuses
  <2>2. FitsTn(h.yours["TN3270E"], b, n, f, h.funcs, p, q) /\ b \in BOOLEAN
    BY <2>1, TnAt
  <2> HIDE DEF b
  <2>3. Loses(p, p2, TnIn, TnDo) /\ Gains(q, q2, TnOut, TnWont)
    BY <1>1, <1>2, <1>5, <2>1
  <2>4. ~b
    BY <2>2, <2>3, TnOff
  <2>5. FitsTn(h.yours["TN3270E"], FALSE, n, f, h.funcs, p2, q2)
    BY <2>2, <2>3, TnYesRefused
  <2>6. FitsTn(h.yours["TN3270E"], b, n, f, h.funcs, p2, q2)
    <3>1. b = FALSE
      BY <2>2, <2>4
    <3> QED BY <2>5, <3>1
  <2> QED BY <1>1, <1>2, <1>3, <2>1, <2>6, TnLine DEF b
<1> QED BY <1>4, <1>5

(* ... says nothing because it had agreed, *)
LEMMA AskKept ==
    ASSUME NEW my \in SUBSET Option, NEW his \in SUBSET Option, NEW n \in BOOLEAN, NEW f \in SUBSET Function,
           NEW h, NEW p, NEW q, NEW p2, NEW d \in Sides, NEW o \in Option,
           Joined(my, his, n, f, h, p, q), Takes(p, p2, <<Asks(d), o>>),
           Wanted(d, o), o \in Table(my, his, d)
    PROVE  Joined(my, his, n, f, h, p2, q) /\ ~IsTn(d, o)
<1>1. /\ InElse(d, o, p, p2) /\ Loses(p, p2, Inward(d, o), <<Asks(d), o>>)
      /\ IsTn(d, o) => Loses(p, p2, TnIn, <<Asks(d), o>>)
      /\ ~IsTn(d, o) => Same(p, p2, TnIn)
  BY InMoved
<1>2. OutElse(d, o, q, q) /\ Same(q, q, TnOut) /\ TableElse(d, o, my, his, my, his)
  BY ElseItself, ElseKept
<1>3. ~IsTn(d, o)
  <2> SUFFICES ASSUME IsTn(d, o) PROVE FALSE
    OBVIOUS
  <2> DEFINE b == "TN3270E" \in my
  <2>1. d = "yours" /\ o = "TN3270E" /\ <<Asks(d), o>> = TnDo
    BY DEF IsTn, TnDo, Asks
  <2>2. FitsTn(h.yours["TN3270E"], b, n, f, h.funcs, p, q) /\ b \in BOOLEAN
    BY <2>1, TnAt
  <2>3. b
    BY <2>1 DEF Table
  <2> HIDE DEF b
  <2>4. Loses(p, p2, TnIn, TnDo)
    BY <1>1, <2>1
  <2> QED BY <2>2, <2>3, <2>4, TnOff
<1> DEFINE b == o \in Table(my, his, d)
<1>4. ASSUME Covered(d, o)
      PROVE  Line(d, o, h[d][o], b, p2, q)
  <2>1. Line(d, o, h[d][o], b, p, q) /\ b \in BOOLEAN /\ b = TRUE
    BY <1>4, LineAt
  <2> HIDE DEF b
  <2>2. Line(d, o, h[d][o], TRUE, p2, q)
    BY <1>1, <2>1, LineYes
  <2> QED BY <2>1, <2>2
<1>5. Covered(d, o) => Line(d, o, h[d][o], o \in Table(my, his, d), p2, q)
  BY <1>4
<1> HIDE DEF b
<1>6. Joined(my, his, n, f, h, p2, q)
  BY <1>1, <1>2, <1>3, <1>5, HeardLine
<1> QED BY <1>3, <1>6

(* ... or agrees. *)
LEMMA AskGranted ==
    ASSUME NEW my \in SUBSET Option, NEW his \in SUBSET Option, NEW n \in BOOLEAN, NEW f \in SUBSET Function,
           NEW my2 \in SUBSET Option, NEW his2 \in SUBSET Option, "TN3270E" \notin my => ~n,
           NEW h, NEW p, NEW q, NEW p2, NEW q2, NEW d \in Sides, NEW o \in Option,
           Joined(my, his, n, f, h, p, q), Takes(p, p2, <<Asks(d), o>>),
           Wanted(d, o), o \notin Table(my, his, d), Brings(q, q2, <<Agrees(d), o>>),
           TableElse(d, o, my, his, my2, his2), Covered(d, o) \/ IsTn(d, o) => o \in Table(my2, his2, d),
           d = "yours" => his2 = his
    PROVE  Joined(my2, his2, n, f, h, p2, q2)
<1>1. /\ InElse(d, o, p, p2) /\ Loses(p, p2, Inward(d, o), <<Asks(d), o>>)
      /\ IsTn(d, o) => Loses(p, p2, TnIn, <<Asks(d), o>>)
      /\ ~IsTn(d, o) => Same(p, p2, TnIn)
  BY InMoved
<1>2. /\ OutElse(d, o, q, q2) /\ Gains(q, q2, Outward(d, o), <<Agrees(d), o>>)
      /\ IsTn(d, o) => Gains(q, q2, TnOut, <<Agrees(d), o>>)
      /\ ~IsTn(d, o) => Same(q, q2, TnOut)
  BY OutMoved
<1>3. CASE ~IsTn(d, o)
  <2> DEFINE b == o \in Table(my, his, d)
             b2 == o \in Table(my2, his2, d)
  <2>1. ASSUME Covered(d, o)
        PROVE  Line(d, o, h[d][o], b2, p2, q2)
    <3>1. Line(d, o, h[d][o], b, p, q) /\ b \in BOOLEAN /\ b = FALSE /\ b2 = TRUE
      BY <2>1, LineAt
    <3> HIDE DEF b, b2
    <3>2. Line(d, o, h[d][o], TRUE, p2, q2)
      BY <1>1, <1>2, <3>1, LineYes
    <3> QED BY <3>1, <3>2
  <2>2. InElse(d, o, p, p2) /\ OutElse(d, o, q, q2) /\ Same(p, p2, TnIn) /\ Same(q, q2, TnOut)
    BY <1>1, <1>2, <1>3
  <2>3. Covered(d, o) => Line(d, o, h[d][o], o \in Table(my2, his2, d), p2, q2)
    BY <2>1
  <2> HIDE DEF b, b2
  <2> QED BY <1>3, <2>2, <2>3, HeardLine
<1>4. CASE IsTn(d, o)
  <2> DEFINE b == "TN3270E" \in my
             b2 == "TN3270E" \in my2
  <2>1. d = "yours" /\ o = "TN3270E" /\ <<Asks(d), o>> = TnDo /\ <<Agrees(d), o>> = TnWill
    BY <1>4 DEF IsTn, TnDo, TnWill, Asks, Agrees
  <2>2. FitsTn(h.yours["TN3270E"], b, n, f, h.funcs, p, q) /\ b \in BOOLEAN
    BY <2>1, TnAt
  <2>3. b2 = TRUE /\ n = FALSE /\ his2 = his
    BY <1>4, <2>1 DEF Table
  <2> HIDE DEF b, b2
  <2>4. Loses(p, p2, TnIn, TnDo) /\ Gains(q, q2, TnOut, TnWill)
    BY <1>1, <1>2, <1>4, <2>1
  <2>5. FitsTn(h.yours["TN3270E"], TRUE, FALSE, f, h.funcs, p2, q2)
    BY <2>2, <2>4, TnYesGranted
  <2>6. FitsTn(h.yours["TN3270E"], b2, n, f, h.funcs, p2, q2)
    BY <2>3, <2>5
  <2>7. HostElse(d, o, h, h)
    BY ElseKept
  <2> QED BY <1>1, <1>2, <2>1, <2>3, <2>6, <2>7, TnLine DEF b2
<1> QED BY <1>3, <1>4

(* The terminal is told to stop what it does not do, *)
LEMMA OrderKept ==
    ASSUME NEW my \in SUBSET Option, NEW his \in SUBSET Option, NEW n \in BOOLEAN, NEW f \in SUBSET Function,
           NEW h, NEW p, NEW q, NEW p2, NEW d \in Sides, NEW o \in Option,
           Joined(my, his, n, f, h, p, q), Takes(p, p2, <<Denies(d), o>>), o \notin Table(my, his, d)
    PROVE  Joined(my, his, n, f, h, p2, q)
<1>1. /\ InElse(d, o, p, p2) /\ Loses(p, p2, Inward(d, o), <<Denies(d), o>>)
      /\ IsTn(d, o) => Loses(p, p2, TnIn, <<Denies(d), o>>)
      /\ ~IsTn(d, o) => Same(p, p2, TnIn)
  BY InMoved
<1>2. OutElse(d, o, q, q) /\ Same(q, q, TnOut) /\ TableElse(d, o, my, his, my, his)
  BY ElseItself, ElseKept
<1>3. CASE ~IsTn(d, o)
  <2> DEFINE b == o \in Table(my, his, d)
  <2>1. ASSUME Covered(d, o)
        PROVE  Line(d, o, h[d][o], b, p2, q)
    <3>1. Line(d, o, h[d][o], b, p, q) /\ b \in BOOLEAN /\ b = FALSE
      BY <2>1, LineAt
    <3> HIDE DEF b
    <3>2. Line(d, o, h[d][o], FALSE, p2, q)
      BY <1>1, <3>1, LineNo
    <3> QED BY <3>1, <3>2
  <2>2. Covered(d, o) => Line(d, o, h[d][o], o \in Table(my, his, d), p2, q)
    BY <2>1
  <2>3. Same(p, p2, TnIn)
    BY <1>1, <1>3
  <2> HIDE DEF b
  <2> QED BY <1>1, <1>2, <1>3, <2>2, <2>3, HeardLine
<1>4. CASE IsTn(d, o)
  <2> DEFINE b == "TN3270E" \in my
  <2>1. d = "yours" /\ o = "TN3270E" /\ <<Denies(d), o>> = TnDont
    BY <1>4 DEF IsTn, TnDont, Denies
  <2>2. FitsTn(h.yours["TN3270E"], b, n, f, h.funcs, p, q) /\ b \in BOOLEAN
    BY <2>1, TnAt
  <2>3. b = FALSE
    BY <1>4, <2>1 DEF Table
  <2> HIDE DEF b
  <2>4. Loses(p, p2, TnIn, TnDont)
    BY <1>1, <1>4, <2>1
  <2>5. FitsTn(h.yours["TN3270E"], FALSE, n, f, h.funcs, p2, q)
    BY <2>2, <2>3, <2>4, TnNo
  <2>6. FitsTn(h.yours["TN3270E"], b, n, f, h.funcs, p2, q)
    BY <2>3, <2>5
  <2>7. HostElse(d, o, h, h)
    BY ElseKept
  <2> QED BY <1>1, <1>2, <2>1, <2>6, <2>7, TnLine DEF b
<1> QED BY <1>3, <1>4

(* ... or what it does. *)
LEMMA OrderObeyed ==
    ASSUME NEW my \in SUBSET Option, NEW his \in SUBSET Option, NEW n \in BOOLEAN, NEW f \in SUBSET Function,
           NEW my2 \in SUBSET Option, NEW his2 \in SUBSET Option, NEW n2 \in BOOLEAN,
           NEW h, NEW p, NEW q, NEW p2, NEW q2, NEW d \in Sides, NEW o \in Option,
           Joined(my, his, n, f, h, p, q), Takes(p, p2, <<Denies(d), o>>),
           o \in Table(my, his, d), Brings(q, q2, <<Refuses(d), o>>),
           TableElse(d, o, my, his, my2, his2), o \notin Table(my2, his2, d), d = "yours" => his2 = his,
           IsTn(d, o) => ~n2, ~IsTn(d, o) => n2 = n
    PROVE  Joined(my2, his2, n2, f, h, p2, q2)
<1>1. /\ InElse(d, o, p, p2) /\ Loses(p, p2, Inward(d, o), <<Denies(d), o>>)
      /\ IsTn(d, o) => Loses(p, p2, TnIn, <<Denies(d), o>>)
      /\ ~IsTn(d, o) => Same(p, p2, TnIn)
  BY InMoved
<1>2. /\ OutElse(d, o, q, q2) /\ Gains(q, q2, Outward(d, o), <<Refuses(d), o>>)
      /\ IsTn(d, o) => Gains(q, q2, TnOut, <<Refuses(d), o>>)
      /\ ~IsTn(d, o) => Same(q, q2, TnOut)
  BY OutMoved
<1>3. CASE ~IsTn(d, o)
  <2> DEFINE b == o \in Table(my, his, d)
             b2 == o \in Table(my2, his2, d)
  <2>1. ASSUME Covered(d, o)
        PROVE  Line(d, o, h[d][o], b2, p2, q2)
    <3>1. Line(d, o, h[d][o], b, p, q) /\ b \in BOOLEAN /\ b = TRUE /\ b2 = FALSE
      BY <2>1, LineAt
    <3> HIDE DEF b, b2
    <3>2. Line(d, o, h[d][o], FALSE, p2, q2)
      BY <1>1, <1>2, <3>1, LineNo
    <3> QED BY <3>1, <3>2
  <2>2. InElse(d, o, p, p2) /\ OutElse(d, o, q, q2) /\ Same(p, p2, TnIn) /\ Same(q, q2, TnOut)
    BY <1>1, <1>2, <1>3
  <2>3. Covered(d, o) => Line(d, o, h[d][o], o \in Table(my2, his2, d), p2, q2)
    BY <2>1
  <2>4. n2 = n
    BY <1>3
  <2> HIDE DEF b, b2
  <2> QED BY <1>3, <2>2, <2>3, <2>4, HeardLine
<1>4. CASE IsTn(d, o)
  <2> DEFINE b == "TN3270E" \in my
             b2 == "TN3270E" \in my2
  <2>1. d = "yours" /\ o = "TN3270E" /\ <<Denies(d), o>> = TnDont /\ <<Refuses(d), o>> = TnWont
    BY <1>4 DEF IsTn, TnDont, TnWont, Denies, Refuses
  <2>2. FitsTn(h.yours["TN3270E"], b, n, f, h.funcs, p, q) /\ b \in BOOLEAN
    BY <2>1, TnAt
  <2>3. b = TRUE /\ b2 = FALSE /\ n2 = FALSE /\ his2 = his
    BY <1>4, <2>1 DEF Table
  <2> HIDE DEF b, b2
  <2>4. Loses(p, p2, TnIn, TnDont) /\ Gains(q, q2, TnOut, TnWont)
    BY <1>1, <1>2, <1>4, <2>1
  <2>5. FitsTn(h.yours["TN3270E"], FALSE, FALSE, f, h.funcs, p2, q2)
    BY <2>2, <2>3, <2>4, TnNo
  <2>6. FitsTn(h.yours["TN3270E"], b2, n2, f, h.funcs, p2, q2)
    BY <2>3, <2>5
  <2>7. HostElse(d, o, h, h)
    BY ElseKept
  <2> QED BY <1>1, <1>2, <2>1, <2>3, <2>6, <2>7, TnLine DEF b2
<1> QED BY <1>3, <1>4

(* The terminal volunteers WILL EOR. *)
LEMMA Volunteered ==
    ASSUME NEW my \in SUBSET Option, NEW his \in SUBSET Option, NEW n \in BOOLEAN, NEW f \in SUBSET Function,
           NEW h, NEW p, NEW q, NEW q2, NEW o \in Option, o = "EOR", o \notin my,
           Joined(my, his, n, f, h, p, q), Brings(q, q2, <<"WILL", o>>)
    PROVE  Joined(my \cup {o}, his, n, f, h, p, q2)
<1> DEFINE d == "yours"
           b == o \in Table(my, his, d)
<1>1. d \in Sides /\ Agrees(d) = "WILL" /\ ~IsTn(d, o) /\ Covered(d, o) /\ b \in BOOLEAN /\ b = FALSE
  BY DEF Sides, Agrees, IsTn, Covered, Table
<1>2. Wanted(d, o)
  BY DEF Wanted, Willing, DoOptions
<1>3. TableElse(d, o, my, his, my \cup {o}, his) /\ (o \in Table(my \cup {o}, his, d)) = TRUE
  BY DEF TableElse, Table
<1>4. Line(d, o, h[d][o], b, p, q)
  BY <1>1, LineAt
<1> HIDE DEF d, b
<1>5. /\ OutElse(d, o, q, q2) /\ Gains(q, q2, Outward(d, o), <<Agrees(d), o>>) /\ Same(q, q2, TnOut)
  BY <1>1, OutMoved
<1>6. InElse(d, o, p, p) /\ Same(p, p, TnIn)
  BY ElseItself
<1>7. Line(d, o, h[d][o], TRUE, p, q2)
  BY <1>1, <1>2, <1>4, <1>5, LineOffered
<1>8. Covered(d, o) => Line(d, o, h[d][o], o \in Table(my \cup {o}, his, d), p, q2)
  BY <1>3, <1>7
<1> DEFINE my2 == my \cup {o}
<1>9. my2 \in SUBSET Option
  OBVIOUS
<1> HIDE DEF my2
<1>10. TableElse(d, o, my, his, my2, his) /\ (Covered(d, o) => Line(d, o, h[d][o], o \in Table(my2, his, d), p, q2))
  BY <1>3, <1>8 DEF my2
<1> QED BY <1>1, <1>5, <1>6, <1>9, <1>10, HeardLine DEF my2

(* Window size and STARTTLS negotiate nothing. *)
LEMMA ExtraSent ==
    ASSUME NEW my \in SUBSET Option, NEW his \in SUBSET Option, NEW n \in BOOLEAN, NEW f \in SUBSET Function,
           NEW h, NEW p, NEW q, NEW q2, NEW m \in Extra,
           Joined(my, his, n, f, h, p, q), Brings(q, q2, m) \/ Takes(q, q2, m)
    PROVE  Joined(my, his, n, f, h, p, q2)
<1>1. /\ \A d \in Sides, x \in Option : Same(p, p, Inward(d, x)) /\ Same(q, q2, Outward(d, x))
      /\ Same(q, q2, TnOut) /\ Same(p, p, TnIn)
  BY TokenMoved, SameItself
<1>2. AllFit(my, his, h, p, q2)
  BY <1>1, AllStill DEF Joined
<1>3. TnFits(my, n, f, h, p, q2)
  BY <1>1, TnStays DEF Joined
<1> QED BY <1>2, <1>3 DEF Joined

(* What a subnegotiation of the terminal asks for. *)
Answerable(n, f, t) ==
    \/ ~n /\ \E lu \in 0 .. Lus : t = <<"DEVICE_TYPE_REQUEST", lu>>
    \/ ~n /\ t = <<"FUNCTIONS_REQUEST", f>>
    \/ n /\ t = <<"FUNCTIONS_IS", f>>

(* The host hears a subnegotiation: it waits for it, or is out of TN3270E. *)
LEMMA HostToken ==
    ASSUME NEW my \in SUBSET Option, NEW his \in SUBSET Option, NEW n \in BOOLEAN, NEW f \in SUBSET Function,
           NEW h, NEW p, NEW q, NEW q2, NEW t \in OutTokens,
           Joined(my, his, n, f, h, p, q), Takes(q, q2, t)
    PROVE  /\ "TN3270E" \in Option
           /\ h.yours["TN3270E"] # "YES" => Joined(my, his, n, f, h, p, q2)
           /\ h.yours["TN3270E"] = "YES" =>
                /\ "TN3270E" \in my /\ None(p, TnIn) /\ None(q2, TnOut) /\ h.funcs = NoAgreement
                /\ Answerable(n, f, t)
<1> DEFINE b == "TN3270E" \in my
           y == TnState(h)
<1>1. FitsTn(y, b, n, f, h.funcs, p, q) /\ b \in BOOLEAN
  BY DEF Joined, TnFits
<1>2. Loses(q, q2, TnOut, t) /\ OutElse("yours", "TN3270E", q, q2)
  BY TokenMoved DEF OutElse
<1>3. y = "NO" => None(q, TnOut)
  <2> HIDE DEF b, y
  <2> QED BY <1>1 DEF FitsTn
<1>4. "TN3270E" \in Option /\ y = h.yours["TN3270E"]
  BY <1>2, <1>3 DEF TnState, Loses
<1> HIDE DEF b, y
<1>5. ASSUME y # "YES"
      PROVE  Joined(my, his, n, f, h, p, q2)
  <2>1. FitsTn(y, b, n, f, h.funcs, p, q2)
    BY <1>1, <1>2, <1>5, TnHeardToken
  <2>2. /\ HostElse("yours", "TN3270E", h, h) /\ TableElse("yours", "TN3270E", my, his, my, his)
        /\ InElse("yours", "TN3270E", p, p)
    BY ElseKept, ElseItself
  <2>3. FitsTn(h.yours["TN3270E"], "TN3270E" \in my, n, f, h.funcs, p, q2)
    BY <1>4, <2>1 DEF b
  <2> QED BY <1>2, <1>4, <2>2, <2>3, TnLine, Zenon
<1>6. ASSUME y = "YES"
      PROVE  /\ b /\ None(p, TnIn) /\ None(q2, TnOut) /\ h.funcs = NoAgreement
             /\ Answerable(n, f, t)
  BY <1>1, <1>2, <1>6, TnHeardToken DEF Answerable
<1> QED BY <1>4, <1>5, <1>6 DEF b

(* The host answers it. *)
LEMMA HostReplied ==
    ASSUME NEW my \in SUBSET Option, NEW his \in SUBSET Option, NEW n \in BOOLEAN, NEW f \in SUBSET Function,
           NEW h, NEW h2, NEW p, NEW q, NEW p2, NEW q2, NEW t \in OutTokens, "TN3270E" \in my,
           Joined(my, his, n, f, h, p, q), Takes(q, q2, t),
           p2 = p \/ \E m \in InTokens : Brings(p, p2, m),
           h2.yours = h.yours, h2.mine = h.mine, h.yours["TN3270E"] = "YES",
           Exchange(n, f, h2.funcs, p2, q2)
    PROVE  Joined(my, his, n, f, h2, p2, q2)
<1>1. OutElse("yours", "TN3270E", q, q2)
  BY TokenMoved DEF OutElse
<1>2. InElse("yours", "TN3270E", p, p2)
  <2>1. CASE p2 = p
    BY <2>1, ElseItself
  <2>2. ASSUME NEW m \in InTokens, Brings(p, p2, m)
        PROVE  InElse("yours", "TN3270E", p, p2)
    BY <2>2, TokenMoved DEF InElse
  <2> QED BY <2>1, <2>2
<1>3. HostElse("yours", "TN3270E", h, h2)
  BY DEF HostElse, Sides
<1>4. TableElse("yours", "TN3270E", my, his, my, his)
  BY ElseKept
<1> DEFINE b == "TN3270E" \in my
           g == h2.funcs
<1>5. b = TRUE /\ "TN3270E" \in Option /\ h2.yours["TN3270E"] = "YES" /\ Exchange(n, f, g, p2, q2)
  OBVIOUS
<1> HIDE DEF b, g
<1>6. FitsTn(h2.yours["TN3270E"], b, n, f, g, p2, q2)
  BY <1>5 DEF FitsTn
<1> QED BY <1>1, <1>2, <1>3, <1>4, <1>5, <1>6, TnLine DEF b, g

(* The terminal hears a subnegotiation: the host waits for the answer, or *)
(* has meanwhile withdrawn.                                               *)
Receiving(y, n, f, g, t, p, q) ==
    /\ None(q, TnOut)
    /\ \/ y = "WANTNO" /\ One(p, TnIn, TnDont)
       \/ /\ y = "YES" /\ None(p, TnIn) /\ ~n
          /\ \/ g = NoAgreement /\ t \in {<<"SEND_DEVICE_TYPE">>} \cup Replies
             \/ g = NoAgreement /\ \E e \in SUBSET f : e # f /\ t = <<"FUNCTIONS_REQUEST", e>>
             \/ g = f /\ t = <<"FUNCTIONS_IS", f>>

(* A subnegotiation of the host finds the terminal in TN3270E. *)
LEMMA TerminalToken ==
    ASSUME NEW my \in SUBSET Option, NEW his \in SUBSET Option, NEW n \in BOOLEAN, NEW f \in SUBSET Function,
           NEW h, NEW p, NEW q, NEW p2, NEW t \in InTokens,
           Joined(my, his, n, f, h, p, q), Takes(p, p2, t)
    PROVE  "TN3270E" \in my /\ Receiving(h.yours["TN3270E"], n, f, h.funcs, t, p2, q)
<1> DEFINE b == "TN3270E" \in my
           y == TnState(h)
           g == h.funcs
<1>1. FitsTn(y, b, n, f, g, p, q) /\ b \in BOOLEAN
  BY DEF Joined, TnFits
<1>2. Loses(p, p2, TnIn, t)
  BY TokenMoved
<1>3. b => y = h.yours["TN3270E"]
  BY DEF TnState
<1> HIDE DEF b, y, g
<1>4. b /\ Receiving(y, n, f, g, t, p2, q)
  BY <1>1, <1>2, TnToken DEF Receiving
<1>5. y = h.yours["TN3270E"]
  BY <1>3, <1>4
<1> QED BY <1>4, <1>5 DEF b, g

(* The terminal answers it, or leaves TN3270E. *)
LEMMA TerminalReplied ==
    ASSUME NEW my \in SUBSET Option, NEW his \in SUBSET Option, NEW n, NEW f, NEW n2, NEW f2,
           NEW my2, NEW h, NEW p, NEW q, NEW p2, NEW q2, NEW t \in InTokens,
           Joined(my, his, n, f, h, p, q), Takes(p, p2, t), "TN3270E" \in my,
           my2 = my \/ my2 = my \ {"TN3270E"},
           q2 = q \/ \E m \in OutTokens \cup {TnWont} : Brings(q, q2, m),
           FitsTn(h.yours["TN3270E"], "TN3270E" \in my2, n2, f2, h.funcs, p2, q2)
    PROVE  Joined(my2, his, n2, f2, h, p2, q2)
<1>1. InElse("yours", "TN3270E", p, p2)
  BY TokenMoved DEF InElse
<1>2. OutElse("yours", "TN3270E", q, q2)
  <2>1. CASE q2 = q
    BY <2>1, ElseItself
  <2>2. ASSUME NEW m \in OutTokens, Brings(q, q2, m)
        PROVE  OutElse("yours", "TN3270E", q, q2)
    BY <2>2, TokenMoved DEF OutElse
  <2>3. CASE Brings(q, q2, TnWont)
    <3>1. "yours" \in Sides /\ Refuses("yours") = "WONT" /\ "TN3270E" \in Option
      BY DEF Sides, Refuses
    <3> QED BY <2>3, <3>1, OutMoved DEF TnWont
  <2> QED BY <2>1, <2>2, <2>3
<1>3. TableElse("yours", "TN3270E", my, his, my2, his)
  BY DEF TableElse, Table, Sides
<1>4. HostElse("yours", "TN3270E", h, h) /\ "TN3270E" \in Option
  BY ElseKept
<1> QED BY <1>1, <1>2, <1>3, <1>4, TnLine, Zenon

(* It leaves: the WONT goes out and the option is off. *)
LEMMA TerminalRefused ==
    ASSUME NEW my \in SUBSET Option, NEW his \in SUBSET Option, NEW n, NEW f, NEW n2,
           NEW h, NEW p, NEW q, NEW p2, NEW q2, NEW t \in InTokens,
           Joined(my, his, n, f, h, p, q), Takes(p, p2, t), "TN3270E" \in my, Brings(q, q2, TnWont),
           FitsTn(h.yours["TN3270E"], FALSE, n2, f, h.funcs, p2, q2)
    PROVE  Joined(my \ {"TN3270E"}, his, n2, f, h, p2, q2)
<1> DEFINE my2 == my \ {"TN3270E"}
<1>1. q2 = q \/ \E m \in OutTokens \cup {TnWont} : Brings(q, q2, m)
  OBVIOUS
<1>2. FitsTn(h.yours["TN3270E"], "TN3270E" \in my2, n2, f, h.funcs, p2, q2)
  <2>1. ("TN3270E" \in my2) = FALSE
    OBVIOUS
  <2> HIDE DEF my2
  <2> QED BY <2>1
<1>3. my2 = my \/ my2 = my \ {"TN3270E"}
  OBVIOUS
<1> HIDE DEF my2
<1>4. Joined(my2, his, n2, f, h, p2, q2)
  BY <1>1, <1>2, <1>3, TerminalReplied, Zenon
<1> QED BY <1>4 DEF my2

(* An answer to a host that is withdrawing changes nothing. *)
LEMMA TnLate ==
    ASSUME NEW g, NEW p, NEW q, NEW q2, NEW n \in BOOLEAN, NEW f \in SUBSET Function,
           One(p, TnIn, TnDont), None(q, TnOut),
           q2 = q \/ \E t \in OutTokens : Gains(q, q2, TnOut, t)
    PROVE  FitsTn("WANTNO", TRUE, n, f, g, p, q2)
BY DEF FitsTn, Gains

(* The terminal asks for a device type or for functions, *)
LEMMA TnRequests ==
    ASSUME NEW y, NEW n \in BOOLEAN, NEW f \in SUBSET Function, NEW g, NEW t, NEW p, NEW q, NEW q2,
           Receiving(y, n, f, g, t, p, q), t \in {<<"SEND_DEVICE_TYPE">>} \cup Replies,
           NEW m, Gains(q, q2, TnOut, m),
           m = <<"FUNCTIONS_REQUEST", f>> \/ \E lu \in 0 .. Lus : m = <<"DEVICE_TYPE_REQUEST", lu>>
    PROVE  FitsTn(y, TRUE, n, f, g, p, q2)
<1>1. m \in OutTokens
  BY DEF OutTokens
<1>2. CASE y = "WANTNO"
  BY <1>1, <1>2, TnLate DEF Receiving
<1>3. CASE y = "YES"
  <2>1. \A e : t # <<"FUNCTIONS_IS", e>>
    BY DEF Replies
  <2>2. None(p, TnIn) /\ ~n /\ g = NoAgreement /\ None(q, TnOut)
    BY <1>3, <2>1 DEF Receiving
  <2>3. Exchange(n, f, g, p, q2)
    BY <2>2 DEF Exchange, Gains
  <2> QED BY <1>3, <2>3 DEF FitsTn
<1> QED BY <1>2, <1>3 DEF Receiving

(* ... leaves TN3270E, *)
LEMMA TnLeaves ==
    ASSUME NEW y, NEW n \in BOOLEAN, NEW f \in SUBSET Function, NEW g, NEW t, NEW p, NEW q, NEW q2,
           NEW f2, Receiving(y, n, f, g, t, p, q), y = "YES" => t \in {<<"SEND_DEVICE_TYPE">>} \cup Replies,
           Gains(q, q2, TnOut, TnWont)
    PROVE  FitsTn(y, FALSE, FALSE, f2, g, p, q2)
<1>1. y = "YES" => g = NoAgreement
  <2>1. \A e : <<"FUNCTIONS_IS", e>> \notin {<<"SEND_DEVICE_TYPE">>} \cup Replies
    BY DEF Replies
  <2> QED BY <2>1 DEF Receiving
<1> QED BY <1>1 DEF Receiving, FitsTn, Gains

(* ... agrees to the functions asked for, *)
LEMMA TnCompletes ==
    ASSUME NEW y, NEW n \in BOOLEAN, NEW f \in SUBSET Function, NEW g, NEW e \in SUBSET Function,
           NEW p, NEW q, NEW q2, Receiving(y, n, f, g, <<"FUNCTIONS_REQUEST", e>>, p, q),
           Gains(q, q2, TnOut, <<"FUNCTIONS_IS", e>>)
    PROVE  FitsTn(y, TRUE, TRUE, e, g, p, q2)
<1>1. <<"FUNCTIONS_IS", e>> \in OutTokens
  BY DEF OutTokens
<1>2. CASE y = "WANTNO"
  BY <1>1, <1>2, TnLate DEF Receiving
<1>3. CASE y = "YES"
  <2>1. <<"FUNCTIONS_REQUEST", e>> # <<"FUNCTIONS_IS", f>>
    OBVIOUS
  <2>2. None(p, TnIn) /\ g = NoAgreement /\ None(q, TnOut)
    BY <1>3, <2>1 DEF Receiving
  <2>3. Exchange(TRUE, e, g, p, q2)
    BY <2>2 DEF Exchange, Gains
  <2> QED BY <1>3, <2>3 DEF FitsTn
<1> QED BY <1>2, <1>3 DEF Receiving

(* ... or takes the set the host agreed to. *)
LEMMA TnEnds ==
    ASSUME NEW y, NEW n \in BOOLEAN, NEW f \in SUBSET Function, NEW g, NEW e \in SUBSET Function,
           NEW p, NEW q, Receiving(y, n, f, g, <<"FUNCTIONS_IS", e>>, p, q)
    PROVE  /\ y = "YES" => e = f
           /\ FitsTn(y, TRUE, TRUE, e, g, p, q)
<1>1. /\ \A x : <<"FUNCTIONS_IS", e>> # <<"FUNCTIONS_REQUEST", x>>
      /\ <<"FUNCTIONS_IS", e>> \notin {<<"SEND_DEVICE_TYPE">>} \cup Replies
      /\ <<"FUNCTIONS_IS", e>> = <<"FUNCTIONS_IS", f>> => e = f
  BY DEF Replies
<1>2. CASE y = "WANTNO"
  BY <1>2, TnLate DEF Receiving
<1>3. CASE y = "YES"
  <2>1. None(p, TnIn) /\ g = f /\ None(q, TnOut) /\ e = f
    BY <1>1, <1>3 DEF Receiving
  <2>2. Exchange(TRUE, e, g, p, q)
    BY <2>1 DEF Exchange
  <2> QED BY <1>3, <2>1, <2>2 DEF FitsTn
<1> QED BY <1>2, <1>3 DEF Receiving

-----------------------------------------------------------------------------

-----------------------------------------------------------------------------
(* The handlers of the terminal keep what joins the ends. *)

(* Sending appends. *)
LEMMA Put ==
    ASSUME NEW q \in Seq(Sent)
    PROVE  /\ q \o <<>> = q
           /\ \A m \in Sent : /\ q \o Append(<<>>, m) = Append(q, m) /\ Append(q, m) \in Seq(Sent)
                              /\ Brings(q, Append(q, m), m)
           /\ \A m, k \in Sent : q \o Append(Append(<<>>, m), k) = Append(Append(q, m), k)
<1>1. q \o <<>> = q
  OBVIOUS
<1>2. \A m \in Sent : q \o Append(<<>>, m) = Append(q, m)
  OBVIOUS
<1>3. \A m, k \in Sent : q \o Append(Append(<<>>, m), k) = Append(Append(q, m), k)
  OBVIOUS
<1>4. \A m \in Sent : Append(q, m) \in Seq(Sent) /\ Brings(q, Append(q, m), m)
  BY Appending
<1> QED BY <1>1, <1>2, <1>3, <1>4

(* The session after a handler, and its messages on their way to the host. *)
Carried(r, hs, p, q) ==
    /\ r \in Talking /\ Decided(r) /\ q \o r.out \in Seq(Sent)
    /\ Joined(r.my, r.his, r.negotiated, r.funcs, hs, p, q \o r.out)

(* A handler of an option keeps the ends joined if the tables and the queue *)
(* it leaves do.                                                            *)
LEMMA ResultCarried ==
    ASSUME NEW h, NEW r, NEW my, NEW his, NEW out, NEW hs, NEW p, NEW q,
           Result(h, r, my, his, out), NEW q2 \in Seq(Sent), q \o out = q2,
           NEW n, n = (h.negotiated /\ "TN3270E" \in my), Joined(my, his, n, h.funcs, hs, p, q2)
    PROVE  Carried(r, hs, p, q)
BY DEF Result, Carried

(* The tables and functions of a session are sets of options and functions. *)
LEMMA SessionFacts ==
    ASSUME NEW h \in Talking, Decided(h)
    PROVE  /\ h.my \in SUBSET Option /\ h.his \in SUBSET Option /\ h.negotiated \in BOOLEAN
           /\ h.funcs \in SUBSET Function /\ ("TN3270E" \notin h.my => ~h.negotiated)
           /\ h.negotiated = (h.negotiated /\ "TN3270E" \in h.my)
           /\ \A my : ("TN3270E" \in h.my => "TN3270E" \in my)
                      => h.negotiated = (h.negotiated /\ "TN3270E" \in my)
BY DEF Talking, Decided

(* Window size and STARTTLS are messages. *)
LEMMA Extras == Extra \subseteq Sent
BY DEF Extra, Sent

(* The handlers of telnet_fsm keep the ends joined: DO, *)
LEMMA DoCarried ==
    ASSUME NEW h \in Talking, Decided(h), h.out = <<>>, NEW hs, NEW p, NEW p2, NEW q \in Seq(Sent),
           NEW o \in Option, Joined(h.my, h.his, h.negotiated, h.funcs, hs, p, q), Takes(p, p2, <<"DO", o>>)
    PROVE  Carried(RcvdDo(h, o, TRUE, TRUE), hs, p2, q)
<1> DEFINE r   == RcvdDo(h, o, TRUE, TRUE)
           d   == "yours"
           n   == h.negotiated
           f   == h.funcs
           my2 == h.my \cup ({o} \ {"TM"})
           wont == <<"WONT", o>>
           will == <<"WILL", o>>
<1>1. /\ d \in Sides /\ Asks(d) = "DO" /\ Agrees(d) = "WILL" /\ Refuses(d) = "WONT"
      /\ Table(h.my, h.his, d) = h.my /\ Table(my2, h.his, d) = my2
      /\ Wanted(d, o) <=> Willing(o)
  BY DEF Sides, Asks, Agrees, Refuses, Table, Wanted
<1>2. /\ h.my \in SUBSET Option /\ h.his \in SUBSET Option /\ n \in BOOLEAN /\ f \in SUBSET Function
      /\ "TN3270E" \notin h.my => ~n
      /\ n = (n /\ "TN3270E" \in h.my) /\ n = (n /\ "TN3270E" \in my2)
  BY SessionFacts
<1>3. wont \in Sent /\ will \in Sent
  BY SentOptions
<1>4. /\ ~Willing(o) => Result(h, r, h.my, h.his, Append(<<>>, wont))
      /\ Willing(o) /\ o \in h.my =>
           \/ Result(h, r, h.my, h.his, <<>>)
           \/ \E x \in Extra : Result(h, r, h.my, h.his, Append(<<>>, x))
      /\ Willing(o) /\ o \notin h.my =>
           \/ Result(h, r, my2, h.his, Append(<<>>, will))
           \/ \E x \in Extra : Result(h, r, my2, h.his, Append(Append(<<>>, will), x))
  BY DoIs
<1>5. TableElse(d, o, h.my, h.his, my2, h.his) /\ my2 \in SUBSET Option
  BY <1>2 DEF TableElse, Table, Sides
<1>6. Covered(d, o) \/ IsTn(d, o) => o \in my2
  BY DEF Covered, IsTn
<1> HIDE DEF r, d, n, f, my2, wont, will
<1>7. CASE ~Willing(o)
  <2>1. /\ q \o Append(<<>>, wont) = Append(q, wont) /\ Append(q, wont) \in Seq(Sent)
        /\ Brings(q, Append(q, wont), wont)
    BY <1>3, Put
  <2>2. Joined(h.my, h.his, n, f, hs, p2, Append(q, wont))
    BY <1>1, <1>2, <1>7, <2>1, AskRefused DEF n, f, wont
  <2> QED BY <1>2, <1>4, <1>7, <2>1, <2>2, ResultCarried DEF n, f, r
<1>8. CASE Willing(o) /\ o \in h.my
  <2>1. Joined(h.my, h.his, n, f, hs, p2, q)
    BY <1>1, <1>2, <1>8, AskKept DEF n, f
  <2>2. CASE Result(h, r, h.my, h.his, <<>>)
    BY <1>2, <2>1, <2>2, Put, ResultCarried DEF n, f, r
  <2>3. ASSUME NEW x \in Extra, Result(h, r, h.my, h.his, Append(<<>>, x))
        PROVE  Carried(r, hs, p2, q)
    <3>1. /\ q \o Append(<<>>, x) = Append(q, x) /\ Append(q, x) \in Seq(Sent) /\ Brings(q, Append(q, x), x)
      BY Extras, Put
    <3>2. Joined(h.my, h.his, n, f, hs, p2, Append(q, x))
      BY <1>2, <2>1, <3>1, ExtraSent
    <3> QED BY <1>2, <2>3, <3>1, <3>2, ResultCarried DEF n, f
  <2> QED BY <1>4, <1>8, <2>2, <2>3 DEF r
<1>9. CASE Willing(o) /\ o \notin h.my
  <2>1. /\ q \o Append(<<>>, will) = Append(q, will) /\ Append(q, will) \in Seq(Sent)
        /\ Brings(q, Append(q, will), will)
    BY <1>3, Put
  <2>2. Joined(my2, h.his, n, f, hs, p2, Append(q, will))
    <3>1. Joined(h.my, h.his, n, f, hs, p, q)
      BY DEF n, f
    <3>2. /\ Takes(p, p2, <<Asks(d), o>>) /\ Brings(q, Append(q, will), <<Agrees(d), o>>)
          /\ Wanted(d, o) /\ o \notin Table(h.my, h.his, d)
          /\ Covered(d, o) \/ IsTn(d, o) => o \in Table(my2, h.his, d)
      BY <1>1, <1>6, <1>9, <2>1 DEF will
    <3> QED BY <1>1, <1>2, <1>5, <3>1, <3>2, AskGranted
  <2>3. CASE Result(h, r, my2, h.his, Append(<<>>, will))
    BY <1>2, <2>1, <2>2, <2>3, ResultCarried DEF n, f, r
  <2>4. ASSUME NEW x \in Extra, Result(h, r, my2, h.his, Append(Append(<<>>, will), x))
        PROVE  Carried(r, hs, p2, q)
    <3> DEFINE q3 == Append(q, will)
               q4 == Append(q3, x)
    <3>1. q \o Append(Append(<<>>, will), x) = q4
      BY <1>3, Extras, Put
    <3>2. q3 \in Seq(Sent)
      BY <2>1
    <3> HIDE DEF q3
    <3>3. q4 \in Seq(Sent) /\ Brings(q3, q4, x)
      BY <3>2, Extras, Put
    <3> HIDE DEF q4
    <3>4. Joined(my2, h.his, n, f, hs, p2, q4)
      BY <1>2, <1>5, <2>2, <3>3, ExtraSent DEF q3
    <3> QED BY <1>2, <2>4, <3>1, <3>3, <3>4, ResultCarried DEF n, f
  <2> QED BY <1>4, <1>9, <2>3, <2>4 DEF r
<1> QED BY <1>7, <1>8, <1>9

(* ... DONT, *)
LEMMA DontCarried ==
    ASSUME NEW h \in Talking, Decided(h), h.out = <<>>, NEW hs, NEW p, NEW p2, NEW q \in Seq(Sent),
           NEW o \in Option, Joined(h.my, h.his, h.negotiated, h.funcs, hs, p, q), Takes(p, p2, <<"DONT", o>>)
    PROVE  Carried(RcvdDont(h, o, TRUE), hs, p2, q)
<1> DEFINE r    == RcvdDont(h, o, TRUE)
           d    == "yours"
           n    == h.negotiated
           f    == h.funcs
           my2  == h.my \ {o}
           n2   == n /\ "TN3270E" \in my2
           wont == <<"WONT", o>>
<1>1. /\ d \in Sides /\ Denies(d) = "DONT" /\ Refuses(d) = "WONT"
      /\ Table(h.my, h.his, d) = h.my /\ Table(my2, h.his, d) = my2
  BY DEF Sides, Denies, Refuses, Table
<1>2. /\ h.my \in SUBSET Option /\ h.his \in SUBSET Option /\ n \in BOOLEAN /\ f \in SUBSET Function
      /\ n = (n /\ "TN3270E" \in h.my)
  BY SessionFacts
<1>3. wont \in Sent
  BY SentOptions
<1>4. /\ o \notin h.my => Result(h, r, h.my, h.his, <<>>)
      /\ o \in h.my => Result(h, r, my2, h.his, Append(<<>>, wont))
  BY DontIs
<1>5. /\ TableElse(d, o, h.my, h.his, my2, h.his) /\ my2 \in SUBSET Option /\ o \notin my2
      /\ n2 \in BOOLEAN /\ (IsTn(d, o) => ~n2) /\ (~IsTn(d, o) => n2 = n)
  BY <1>2 DEF TableElse, Table, Sides, IsTn
<1>6. Joined(h.my, h.his, n, f, hs, p, q) /\ Takes(p, p2, <<Denies(d), o>>)
  BY <1>1
<1> HIDE DEF r, d, n, f, my2
<1>7. CASE o \notin h.my
  <2>1. Joined(h.my, h.his, n, f, hs, p2, q)
    BY <1>1, <1>2, <1>6, <1>7, OrderKept
  <2> QED BY <1>2, <1>4, <1>7, <2>1, Put, ResultCarried DEF n, f, r
<1>8. CASE o \in h.my
  <2> HIDE DEF n2
  <2>1. /\ q \o Append(<<>>, wont) = Append(q, wont) /\ Append(q, wont) \in Seq(Sent)
        /\ Brings(q, Append(q, wont), <<Refuses(d), o>>)
    BY <1>1, <1>3, Put
  <2>2. o \in Table(h.my, h.his, d) /\ o \notin Table(my2, h.his, d)
    BY <1>1, <1>5, <1>8
  <2> HIDE DEF wont
  <2>3. Joined(my2, h.his, n2, f, hs, p2, Append(q, wont))
    BY <1>1, <1>2, <1>5, <1>6, <2>1, <2>2, OrderObeyed
  <2>4. Result(h, r, my2, h.his, Append(<<>>, wont)) /\ n2 = (h.negotiated /\ "TN3270E" \in my2)
    BY <1>4, <1>8 DEF n2, n
  <2> QED BY <2>1, <2>3, <2>4, ResultCarried DEF f, r
<1> QED BY <1>7, <1>8

(* ... WONT, *)
LEMMA WontCarried ==
    ASSUME NEW h \in Talking, Decided(h), h.out = <<>>, NEW hs, NEW p, NEW p2, NEW q \in Seq(Sent),
           NEW o \in Option, Joined(h.my, h.his, h.negotiated, h.funcs, hs, p, q), Takes(p, p2, <<"WONT", o>>)
    PROVE  Carried(RcvdWont(h, o, TRUE), hs, p2, q)
<1> DEFINE r    == RcvdWont(h, o, TRUE)
           d    == "mine"
           n    == h.negotiated
           f    == h.funcs
           his2 == h.his \ {o}
           dont == <<"DONT", o>>
<1>1. /\ d \in Sides /\ Denies(d) = "WONT" /\ Refuses(d) = "DONT" /\ d # "yours"
      /\ Table(h.my, h.his, d) = h.his /\ Table(h.my, his2, d) = his2
  BY DEF Sides, Denies, Refuses, Table
<1>2. /\ h.my \in SUBSET Option /\ h.his \in SUBSET Option /\ n \in BOOLEAN /\ f \in SUBSET Function
      /\ n = (n /\ "TN3270E" \in h.my)
  BY SessionFacts
<1>3. dont \in Sent
  BY SentOptions
<1>4. /\ o \notin h.his => Result(h, r, h.my, h.his, <<>>)
      /\ o \in h.his => Result(h, r, h.my, his2, Append(<<>>, dont))
  BY WontIs
<1>5. /\ TableElse(d, o, h.my, h.his, h.my, his2) /\ his2 \in SUBSET Option /\ o \notin his2
      /\ ~IsTn(d, o)
  BY <1>2 DEF TableElse, Table, Sides, IsTn
<1>6. Joined(h.my, h.his, n, f, hs, p, q) /\ Takes(p, p2, <<Denies(d), o>>)
  BY <1>1
<1> HIDE DEF r, d, n, f, his2
<1>7. CASE o \notin h.his
  <2>1. Joined(h.my, h.his, n, f, hs, p2, q)
    BY <1>1, <1>2, <1>6, <1>7, OrderKept
  <2> QED BY <1>2, <1>4, <1>7, <2>1, Put, ResultCarried DEF n, f, r
<1>8. CASE o \in h.his
  <2>1. /\ q \o Append(<<>>, dont) = Append(q, dont) /\ Append(q, dont) \in Seq(Sent)
        /\ Brings(q, Append(q, dont), <<Refuses(d), o>>)
    BY <1>1, <1>3, Put
  <2>2. o \in Table(h.my, h.his, d) /\ o \notin Table(h.my, his2, d)
    BY <1>1, <1>5, <1>8
  <2> HIDE DEF dont
  <2>3. Joined(h.my, his2, n, f, hs, p2, Append(q, dont))
    BY <1>1, <1>2, <1>5, <1>6, <2>1, <2>2, OrderObeyed
  <2>4. Result(h, r, h.my, his2, Append(<<>>, dont)) /\ n = (h.negotiated /\ "TN3270E" \in h.my)
    BY <1>2, <1>4, <1>8 DEF n
  <2> QED BY <2>1, <2>3, <2>4, ResultCarried DEF f, r
<1> QED BY <1>7, <1>8

(* ... and WILL. *)
LEMMA WillCarried ==
    ASSUME NEW h \in Talking, Decided(h), h.out = <<>>, NEW hs, NEW p, NEW p2, NEW q \in Seq(Sent),
           NEW o \in Option, Joined(h.my, h.his, h.negotiated, h.funcs, hs, p, q), Takes(p, p2, <<"WILL", o>>)
    PROVE  Carried(RcvdWill(h, o, TRUE, TRUE), hs, p2, q)
<1> DEFINE r    == RcvdWill(h, o, TRUE, TRUE)
           d    == "mine"
           n    == h.negotiated
           f    == h.funcs
           his2 == h.his \cup {o}
           does == <<"DO", o>>
           dont == <<"DONT", o>>
           will == <<"WILL", o>>
<1>1. /\ d \in Sides /\ Asks(d) = "WILL" /\ Agrees(d) = "DO" /\ Refuses(d) = "DONT" /\ d # "yours"
      /\ Table(h.my, h.his, d) = h.his /\ Table(h.my, his2, d) = his2
      /\ Wanted(d, o) <=> Welcome(o)
  BY DEF Sides, Asks, Agrees, Refuses, Table, Wanted
<1>2. /\ h.my \in SUBSET Option /\ h.his \in SUBSET Option /\ n \in BOOLEAN /\ f \in SUBSET Function
      /\ "TN3270E" \notin h.my => ~n
      /\ n = (n /\ "TN3270E" \in h.my) /\ n = (n /\ "TN3270E" \in h.my \cup {o})
  BY SessionFacts
<1>3. does \in Sent /\ dont \in Sent /\ will \in Sent
  BY SentOptions
<1>4. /\ ~Welcome(o) => Result(h, r, h.my, h.his, Append(<<>>, dont))
      /\ Welcome(o) /\ o \in h.his => Result(h, r, h.my, h.his, <<>>)
      /\ Welcome(o) /\ o \notin h.his /\ o = "EOR" /\ o \notin h.my =>
           Result(h, r, h.my \cup {o}, his2, Append(Append(<<>>, does), will))
      /\ Welcome(o) /\ o \notin h.his /\ ~(o = "EOR" /\ o \notin h.my) =>
           Result(h, r, h.my, his2, Append(<<>>, does))
  BY WillIs
<1>5. /\ TableElse(d, o, h.my, h.his, h.my, his2) /\ his2 \in SUBSET Option /\ o \in his2
      /\ h.my \cup {o} \in SUBSET Option
  BY <1>2 DEF TableElse, Table, Sides
<1>6. Joined(h.my, h.his, n, f, hs, p, q) /\ Takes(p, p2, <<Asks(d), o>>)
  BY <1>1
<1> HIDE DEF r, d, n, f, his2
<1>7. CASE ~Welcome(o)
  <2>1. /\ q \o Append(<<>>, dont) = Append(q, dont) /\ Append(q, dont) \in Seq(Sent)
        /\ Brings(q, Append(q, dont), <<Refuses(d), o>>)
    BY <1>1, <1>3, Put
  <2>2. Joined(h.my, h.his, n, f, hs, p2, Append(q, dont))
    BY <1>1, <1>2, <1>6, <1>7, <2>1, AskRefused
  <2> QED BY <1>2, <1>4, <1>7, <2>1, <2>2, ResultCarried DEF n, f, r
<1>8. CASE Welcome(o) /\ o \in h.his
  <2>1. Joined(h.my, h.his, n, f, hs, p2, q)
    BY <1>1, <1>2, <1>6, <1>8, AskKept
  <2> QED BY <1>2, <1>4, <1>8, <2>1, Put, ResultCarried DEF n, f, r
<1>9. ASSUME Welcome(o), o \notin h.his
      PROVE  Joined(h.my, his2, n, f, hs, p2, Append(q, does))
  <2>1. /\ Append(q, does) \in Seq(Sent) /\ Brings(q, Append(q, does), <<Agrees(d), o>>)
    BY <1>1, <1>3, Put
  <2>2. o \notin Table(h.my, h.his, d) /\ o \in Table(h.my, his2, d) /\ Wanted(d, o)
    BY <1>1, <1>5, <1>9
  <2> HIDE DEF does
  <2> QED BY <1>1, <1>2, <1>5, <1>6, <2>1, <2>2, AskGranted
<1>10. CASE Welcome(o) /\ o \notin h.his /\ ~(o = "EOR" /\ o \notin h.my)
  <2>1. q \o Append(<<>>, does) = Append(q, does) /\ Append(q, does) \in Seq(Sent)
    BY <1>3, Put
  <2> QED BY <1>2, <1>4, <1>9, <1>10, <2>1, ResultCarried DEF n, f, r
<1>11. CASE Welcome(o) /\ o \notin h.his /\ o = "EOR" /\ o \notin h.my
  <2> DEFINE q3 == Append(q, does)
             q4 == Append(q3, will)
  <2>1. q \o Append(Append(<<>>, does), will) = q4
    BY <1>3, Put, Zenon
  <2>2. q3 \in Seq(Sent) /\ Joined(h.my, his2, n, f, hs, p2, q3)
    BY <1>3, <1>9, <1>11, Put
  <2> HIDE DEF q3
  <2>3. q4 \in Seq(Sent) /\ Brings(q3, q4, will)
    BY <1>3, <2>2, Put
  <2> HIDE DEF q4
  <2>4. Joined(h.my \cup {o}, his2, n, f, hs, p2, q4)
    BY <1>2, <1>5, <1>11, <2>2, <2>3, Volunteered
  <2>5. Result(h, r, h.my \cup {o}, his2, Append(Append(<<>>, does), will))
    BY <1>4, <1>11
  <2> HIDE DEF does, will
  <2> QED BY <1>2, <2>1, <2>3, <2>4, <2>5, ResultCarried DEF n, f, r
<1> QED BY <1>7, <1>8, <1>10, <1>11

(* A handler of a subnegotiation keeps the ends joined if the functions and *)
(* the queue it leaves do.                                                  *)
LEMMA ReachedCarried ==
    ASSUME NEW h, NEW r, NEW f, NEW n, NEW out, NEW hs, NEW p, NEW q,
           Reached(h, r, f, n, out), NEW q2 \in Seq(Sent), q \o out = q2,
           Joined(h.my, h.his, n, f, hs, p, q2)
    PROVE  Carried(r, hs, p, q)
BY DEF Reached, Carried

(* Subnegotiations are messages. *)
LEMMA TokenMessages ==
    /\ \A lu \in 0 .. Lus : <<"DEVICE_TYPE_REQUEST", lu>> \in Sent \cap OutTokens
    /\ \A f \in SUBSET Function : /\ <<"FUNCTIONS_REQUEST", f>> \in Sent \cap OutTokens
                                  /\ <<"FUNCTIONS_IS", f>> \in Sent \cap OutTokens
BY DEF Sent, OutTokens

(* The terminal answers a subnegotiation with one of its own, *)
LEMMA TokenReply ==
    ASSUME NEW h \in Talking, Decided(h), NEW hs, NEW p, NEW p2, NEW q \in Seq(Sent), NEW t \in InTokens,
           Joined(h.my, h.his, h.negotiated, h.funcs, hs, p, q), Takes(p, p2, t), "TN3270E" \in h.my,
           NEW m \in Sent \cap OutTokens, NEW n2 \in BOOLEAN, NEW f2,
           \A q2 : Gains(q, q2, TnOut, m) => FitsTn(hs.yours["TN3270E"], TRUE, n2, f2, hs.funcs, p2, q2)
    PROVE  /\ q \o Append(<<>>, m) \in Seq(Sent)
           /\ Joined(h.my, h.his, n2, f2, hs, p2, q \o Append(<<>>, m))
<1> DEFINE q2 == Append(q, m)
           b == "TN3270E" \in h.my
<1>1. q \o Append(<<>>, m) = q2 /\ q2 \in Seq(Sent) /\ Brings(q, q2, m)
  BY Put
<1> HIDE DEF q2
<1>2. Gains(q, q2, TnOut, m)
  BY <1>1, TokenMoved
<1>3. FitsTn(hs.yours["TN3270E"], TRUE, n2, f2, hs.funcs, p2, q2) /\ b = TRUE
  BY <1>2
<1>4. h.my \in SUBSET Option /\ h.his \in SUBSET Option
  BY SessionFacts
<1> HIDE DEF b
<1>5. FitsTn(hs.yours["TN3270E"], b, n2, f2, hs.funcs, p2, q2)
  BY <1>3
<1>6. Joined(h.my, h.his, n2, f2, hs, p2, q2)
  BY <1>1, <1>4, <1>5, TerminalReplied DEF b
<1> QED BY <1>1, <1>6

(* ... or with WONT TN3270E. *)
LEMMA TokenLeave ==
    ASSUME NEW h \in Talking, Decided(h), NEW hs, NEW p, NEW p2, NEW q \in Seq(Sent), NEW t \in InTokens,
           Joined(h.my, h.his, h.negotiated, h.funcs, hs, p, q), Takes(p, p2, t), "TN3270E" \in h.my,
           Receiving(hs.yours["TN3270E"], h.negotiated, h.funcs, hs.funcs, t, p2, q),
           hs.yours["TN3270E"] = "YES" => t \in {<<"SEND_DEVICE_TYPE">>} \cup Replies,
           NEW r, Result(h, r, h.my \ {"TN3270E"}, h.his, Append(<<>>, <<"WONT", "TN3270E">>))
    PROVE  Carried(r, hs, p2, q)
<1> DEFINE q2 == Append(q, TnWont)
           my2 == h.my \ {"TN3270E"}
           n2 == h.negotiated /\ "TN3270E" \in my2
<1>0. h.my \in SUBSET Option /\ h.his \in SUBSET Option /\ h.negotiated \in BOOLEAN /\ h.funcs \in SUBSET Function
  BY SessionFacts
<1>1. TnWont \in Sent
  BY <1>0, SentOptions DEF TnWont
<1>2. q \o Append(<<>>, TnWont) = q2 /\ q2 \in Seq(Sent) /\ Brings(q, q2, TnWont)
  BY <1>1, Put
<1>3. n2 = FALSE
  OBVIOUS
<1> HIDE DEF q2
<1>4. Gains(q, q2, TnOut, TnWont)
  <2>1. "yours" \in Sides /\ Refuses("yours") = "WONT" /\ "TN3270E" \in Option /\ IsTn("yours", "TN3270E")
    BY <1>0 DEF Sides, Refuses, IsTn
  <2> QED BY <1>2, <2>1, OutMoved DEF TnWont
<1>5. FitsTn(hs.yours["TN3270E"], FALSE, FALSE, h.funcs, hs.funcs, p2, q2)
  BY <1>0, <1>4, TnLeaves
<1> HIDE DEF n2
<1>7. Joined(my2, h.his, n2, h.funcs, hs, p2, q2)
  <2>1. Joined(h.my \ {"TN3270E"}, h.his, FALSE, h.funcs, hs, p2, q2)
    BY <1>0, <1>2, <1>5, TerminalRefused, Zenon
  <2> QED BY <1>3, <2>1
<1>8. Result(h, r, my2, h.his, Append(<<>>, TnWont))
  BY DEF TnWont
<1> QED BY <1>2, <1>7, <1>8, ResultCarried DEF n2

(* Asking for a device type or for functions keeps the ends joined, *)
LEMMA RequestCarried ==
    ASSUME NEW h \in Talking, Decided(h), NEW hs, NEW p, NEW p2, NEW q \in Seq(Sent), NEW t \in InTokens,
           Joined(h.my, h.his, h.negotiated, h.funcs, hs, p, q), Takes(p, p2, t), "TN3270E" \in h.my,
           Receiving(hs.yours["TN3270E"], h.negotiated, h.funcs, hs.funcs, t, p2, q),
           t \in {<<"SEND_DEVICE_TYPE">>} \cup Replies, NEW m,
           m = <<"FUNCTIONS_REQUEST", h.funcs>> \/ \E lu \in 0 .. Lus : m = <<"DEVICE_TYPE_REQUEST", lu>>,
           NEW r, Result(h, r, h.my, h.his, Append(<<>>, m))
    PROVE  Carried(r, hs, p2, q)
<1> DEFINE n == h.negotiated
           f == h.funcs
           y == hs.yours["TN3270E"]
           g == hs.funcs
<1>1. n \in BOOLEAN /\ f \in SUBSET Function /\ n = (n /\ "TN3270E" \in h.my)
  BY SessionFacts
<1>2. m \in Sent \cap OutTokens
  BY <1>1, TokenMessages
<1>3. Joined(h.my, h.his, n, f, hs, p, q) /\ Receiving(y, n, f, g, t, p2, q)
  OBVIOUS
<1> HIDE DEF n, f, y, g
<1>4. ASSUME NEW q2, Gains(q, q2, TnOut, m)
      PROVE  FitsTn(y, TRUE, n, f, g, p2, q2)
  BY <1>1, <1>3, <1>4, TnRequests DEF f
<1>5. /\ q \o Append(<<>>, m) \in Seq(Sent)
      /\ Joined(h.my, h.his, n, f, hs, p2, q \o Append(<<>>, m))
  BY <1>1, <1>2, <1>4, TokenReply DEF y, g
<1> QED BY <1>1, <1>5, ResultCarried DEF n, f

(* ... and so do the handlers of FUNCTIONS, *)
LEMMA FunctionsCarried ==
    ASSUME NEW h \in Talking, Decided(h), h.out = <<>>, NEW hs, NEW p, NEW p2, NEW q \in Seq(Sent),
           NEW e \in SUBSET Function, NEW t \in InTokens,
           Joined(h.my, h.his, h.negotiated, h.funcs, hs, p, q), Takes(p, p2, t), "TN3270E" \in h.my,
           Receiving(hs.yours["TN3270E"], h.negotiated, h.funcs, hs.funcs, t, p2, q)
    PROVE  /\ t = <<"FUNCTIONS_REQUEST", e>> => Carried(RcvdFunctionsRequest(h, e, TRUE), hs, p2, q)
           /\ t = <<"FUNCTIONS_IS", e>> => Carried(RcvdFunctionsIs(h, e, TRUE), hs, p2, q)
<1> DEFINE n == h.negotiated
           f == h.funcs
           y == hs.yours["TN3270E"]
           g == hs.funcs
           k == f \cap e
<1>1. n \in BOOLEAN /\ f \in SUBSET Function /\ k \in SUBSET Function
  BY SessionFacts
<1>2. Joined(h.my, h.his, n, f, hs, p, q) /\ Receiving(y, n, f, g, t, p2, q)
  OBVIOUS
<1>3. ASSUME t = <<"FUNCTIONS_REQUEST", e>>
      PROVE  Carried(RcvdFunctionsRequest(h, e, TRUE), hs, p2, q)
  <2> DEFINE r == RcvdFunctionsRequest(h, e, TRUE)
             is == <<"FUNCTIONS_IS", e>>
             rq == <<"FUNCTIONS_REQUEST", k>>
  <2>1. \/ Reached(h, r, e, TRUE, Append(<<>>, is))
        \/ f \subseteq e /\ f # e /\ Reached(h, r, k, n, Append(<<>>, rq))
    BY FunctionsRequestIs
  <2>2. is \in Sent \cap OutTokens /\ rq \in Sent \cap OutTokens
    BY <1>1, TokenMessages
  <2> HIDE DEF r, n, f, y, g, k, rq
  <2>3. CASE Reached(h, r, e, TRUE, Append(<<>>, is))
    <3>1. ASSUME NEW q2, Gains(q, q2, TnOut, is)
          PROVE  FitsTn(y, TRUE, TRUE, e, g, p2, q2)
      BY <1>1, <1>2, <1>3, <3>1, TnCompletes
    <3> HIDE DEF is
    <3>2. /\ q \o Append(<<>>, is) \in Seq(Sent)
          /\ Joined(h.my, h.his, TRUE, e, hs, p2, q \o Append(<<>>, is))
      BY <2>2, <3>1, TokenReply DEF y, g
    <3> QED BY <2>3, <3>2, ReachedCarried DEF r
  <2>4. CASE f \subseteq e /\ f # e /\ Reached(h, r, k, n, Append(<<>>, rq))
    <3>1. y = "WANTNO" /\ One(p2, TnIn, TnDont) /\ None(q, TnOut)
      <4>1. t # <<"FUNCTIONS_IS", f>> /\ t \notin {<<"SEND_DEVICE_TYPE">>} \cup Replies
        BY <1>3 DEF Replies
      <4>2. \A x \in SUBSET f : t = <<"FUNCTIONS_REQUEST", x>> => x = e
        BY <1>3
      <4>3. e \notin SUBSET f
        BY <2>4
      <4> QED BY <1>2, <4>1, <4>2, <4>3 DEF Receiving
    <3>2. ASSUME NEW q2, Gains(q, q2, TnOut, rq)
          PROVE  FitsTn(y, TRUE, n, k, g, p2, q2)
      BY <1>1, <2>2, <3>1, <3>2, TnLate
    <3>3. /\ q \o Append(<<>>, rq) \in Seq(Sent)
          /\ Joined(h.my, h.his, n, k, hs, p2, q \o Append(<<>>, rq))
      BY <1>1, <2>2, <3>2, TokenReply DEF y, g
    <3> QED BY <2>4, <3>3, ReachedCarried DEF r
  <2> QED BY <2>1, <2>3, <2>4 DEF r
<1>4. ASSUME t = <<"FUNCTIONS_IS", e>>
      PROVE  Carried(RcvdFunctionsIs(h, e, TRUE), hs, p2, q)
  <2> DEFINE r == RcvdFunctionsIs(h, e, TRUE)
             b == "TN3270E" \in h.my
  <2>1. \/ f # e /\ Result(h, r, h.my \ {"TN3270E"}, h.his, Append(<<>>, <<"WONT", "TN3270E">>))
        \/ Reached(h, r, e, TRUE, <<>>)
    BY FunctionsIsIs
  <2>2. h.my \in SUBSET Option /\ h.his \in SUBSET Option /\ b = TRUE
    BY SessionFacts
  <2> HIDE DEF r, n, f, y, g, b
  <2>3. (y = "YES" => e = f) /\ FitsTn(y, TRUE, TRUE, e, g, p2, q)
    BY <1>1, <1>2, <1>4, TnEnds
  <2>4. CASE f # e /\ Result(h, r, h.my \ {"TN3270E"}, h.his, Append(<<>>, <<"WONT", "TN3270E">>))
    <3>1. y # "YES"
      BY <2>3, <2>4
    <3> QED BY <2>4, <3>1, TokenLeave DEF r, y
  <2>5. CASE Reached(h, r, e, TRUE, <<>>)
    <3> DEFINE w == TRUE
    <3>1. FitsTn(y, b, w, e, g, p2, q)
      BY <2>2, <2>3
    <3> HIDE DEF w
    <3>2. Joined(h.my, h.his, w, e, hs, p2, q)
      <4> DEFINE my2 == h.my
      <4>1. my2 = h.my /\ h.my \in SUBSET Option /\ h.his \in SUBSET Option
        BY <2>2
      <4>2. FitsTn(hs.yours["TN3270E"], b, w, e, hs.funcs, p2, q)
        BY <3>1 DEF y, g
      <4> HIDE DEF my2
      <4>3. FitsTn(hs.yours["TN3270E"], "TN3270E" \in my2, w, e, hs.funcs, p2, q)
        BY <4>1, <4>2 DEF b
      <4>4. Joined(my2, h.his, w, e, hs, p2, q)
        BY <1>2, <4>1, <4>3, TerminalReplied, Zenon
      <4> QED BY <4>1, <4>4
    <3>3. Joined(h.my, h.his, TRUE, e, hs, p2, q)
      BY <3>2 DEF w
    <3>4. q \o <<>> = q
      BY Put
    <3> QED BY <2>5, <3>3, <3>4, ReachedCarried DEF r
  <2> QED BY <2>1, <2>4, <2>5 DEF r
<1> QED BY <1>3, <1>4

(* ... and tn3270e_negotiate as a whole. *)
LEMMA TokenCarried ==
    ASSUME NEW h \in Talking, Decided(h), h.out = <<>>, NEW hs, NEW p, NEW p2, NEW q \in Seq(Sent),
           NEW t \in InTokens, Joined(h.my, h.his, h.negotiated, h.funcs, hs, p, q), Takes(p, p2, t)
    PROVE  "TN3270E" \in h.my /\ Carried(Tn3270eHandled(h, t), hs, p2, q)
<1> DEFINE y == hs.yours["TN3270E"]
<1>1. h.my \in SUBSET Option /\ h.his \in SUBSET Option /\ h.negotiated \in BOOLEAN /\ h.funcs \in SUBSET Function
  BY SessionFacts
<1>2. "TN3270E" \in h.my /\ Receiving(y, h.negotiated, h.funcs, hs.funcs, t, p2, q)
  BY <1>1, TerminalToken
<1> HIDE DEF y
<1>3. CASE t = <<"SEND_DEVICE_TYPE">>
  <2>1. Tn3270eHandled(h, t) = Tn3270eRequest(h, TRUE)
    BY <1>3 DEF Tn3270eHandled
  <2>2. PICK lu \in 0 .. Lus : Result(h, Tn3270eRequest(h, TRUE), h.my, h.his,
                                      Append(<<>>, <<"DEVICE_TYPE_REQUEST", lu>>))
    BY RequestIs
  <2> QED BY <1>2, <1>3, <2>1, <2>2, RequestCarried DEF y
<1>4. CASE t = <<"DEVICE_TYPE_IS">>
  <2>1. Tn3270eHandled(h, t) = Send(h, <<"FUNCTIONS_REQUEST", h.funcs>>, TRUE)
    BY <1>4 DEF Tn3270eHandled, RcvdDeviceTypeIs
  <2>2. Result(h, Send(h, <<"FUNCTIONS_REQUEST", h.funcs>>, TRUE), h.my, h.his,
               Append(<<>>, <<"FUNCTIONS_REQUEST", h.funcs>>))
    BY <1>1, SendResult, SentTokens
  <2> QED BY <1>2, <1>4, <2>1, <2>2, RequestCarried DEF y, Replies
<1>5. CASE t \in {<<"REJECT">>, <<"REJECT_LU">>}
  <2>1. PICK final \in BOOLEAN : Tn3270eHandled(h, t) = RcvdReject(h, final, TRUE)
    <3>1. t[1] = "REJECT" => Tn3270eHandled(h, t) = RcvdReject(h, TRUE, TRUE)
      BY DEF Tn3270eHandled
    <3>2. t[1] = "REJECT_LU" => Tn3270eHandled(h, t) = RcvdReject(h, FALSE, TRUE)
      BY DEF Tn3270eHandled
    <3>3. t[1] = "REJECT" \/ t[1] = "REJECT_LU"
      BY <1>5
    <3> QED BY <3>1, <3>2, <3>3
  <2>2. \/ Result(h, RcvdReject(h, final, TRUE), h.my \ {"TN3270E"}, h.his, Append(<<>>, <<"WONT", "TN3270E">>))
        \/ \E lu \in 0 .. Lus : Result(h, RcvdReject(h, final, TRUE), h.my, h.his,
                                       Append(<<>>, <<"DEVICE_TYPE_REQUEST", lu>>))
    BY <1>2, RejectIs
  <2>3. t \in {<<"SEND_DEVICE_TYPE">>} \cup Replies
    BY <1>5 DEF Replies
  <2>4. CASE Result(h, RcvdReject(h, final, TRUE), h.my \ {"TN3270E"}, h.his, Append(<<>>, <<"WONT", "TN3270E">>))
    BY <1>2, <2>1, <2>3, <2>4, TokenLeave DEF y
  <2>5. ASSUME NEW lu \in 0 .. Lus, Result(h, RcvdReject(h, final, TRUE), h.my, h.his,
                                           Append(<<>>, <<"DEVICE_TYPE_REQUEST", lu>>))
        PROVE  Carried(RcvdReject(h, final, TRUE), hs, p2, q)
    BY <1>2, <2>3, <2>5, RequestCarried DEF y
  <2> QED BY <1>2, <2>1, <2>2, <2>4, <2>5
<1>6. ASSUME NEW e \in SUBSET Function, t = <<"FUNCTIONS_REQUEST", e>> \/ t = <<"FUNCTIONS_IS", e>>
      PROVE  Carried(Tn3270eHandled(h, t), hs, p2, q)
  <2>1. /\ t = <<"FUNCTIONS_REQUEST", e>> => Tn3270eHandled(h, t) = RcvdFunctionsRequest(h, e, TRUE)
        /\ t = <<"FUNCTIONS_IS", e>> => Tn3270eHandled(h, t) = RcvdFunctionsIs(h, e, TRUE)
    <3>1. t[1] = "FUNCTIONS_REQUEST" => Tn3270eHandled(h, t) = RcvdFunctionsRequest(h, t[2], TRUE)
      BY DEF Tn3270eHandled
    <3>2. t[1] = "FUNCTIONS_IS" => Tn3270eHandled(h, t) = RcvdFunctionsIs(h, t[2], TRUE)
      BY DEF Tn3270eHandled
    <3>3. t[2] = e
      BY <1>6
    <3>4. /\ t = <<"FUNCTIONS_REQUEST", e>> => t[1] = "FUNCTIONS_REQUEST"
          /\ t = <<"FUNCTIONS_IS", e>> => t[1] = "FUNCTIONS_IS"
      OBVIOUS
    <3> QED BY <3>1, <3>2, <3>3, <3>4
  <2> QED BY <1>2, <1>6, <2>1, FunctionsCarried DEF y
<1>7. \/ t = <<"SEND_DEVICE_TYPE">> \/ t = <<"DEVICE_TYPE_IS">> \/ t \in {<<"REJECT">>, <<"REJECT_LU">>}
      \/ \E e \in SUBSET Function : t = <<"FUNCTIONS_REQUEST", e>> \/ t = <<"FUNCTIONS_IS", e>>
  BY DEF InTokens, Replies
<1> QED BY <1>2, <1>3, <1>4, <1>5, <1>6, <1>7

(* The head of a queue is taken from it. *)
LEMMA TakingHead ==
    ASSUME NEW S, NEW q \in Seq(S), q # <<>>
    PROVE  Head(q) \in S /\ Tail(q) \in Seq(S) /\ Takes(q, Tail(q), Head(q))
BY Taking, Rest

(* Subnegotiations, window size and STARTTLS are not option commands. *)
LEMMA Kinds ==
    /\ \A m \in InTokens : m[1] \notin OptionCommand
    /\ \A m \in OutTokens : m[1] \notin OptionCommand
    /\ \A m \in Extra : m[1] \notin OptionCommand
<1>1. \A m \in InTokens : m[1] \in {"SEND_DEVICE_TYPE", "DEVICE_TYPE_IS", "REJECT", "REJECT_LU",
                                    "FUNCTIONS_REQUEST", "FUNCTIONS_IS"}
  BY DEF InTokens, Replies
<1>2. \A m \in OutTokens : m[1] \in {"DEVICE_TYPE_REQUEST", "FUNCTIONS_REQUEST", "FUNCTIONS_IS"}
  BY DEF OutTokens
<1>3. \A m \in Extra : m[1] \in {"NAWS", "STARTTLS_FOLLOWS"}
  BY DEF Extra
<1> QED BY <1>1, <1>2, <1>3 DEF OptionCommand

(* telnet_fsm keeps the ends joined on an option command, *)
LEMMA OptionCarried ==
    ASSUME NEW h \in Talking, Decided(h), h.out = <<>>, NEW hs, NEW p, NEW p2, NEW q \in Seq(Sent),
           NEW c \in OptionCommand, NEW o \in Option,
           Joined(h.my, h.his, h.negotiated, h.funcs, hs, p, q), Takes(p, p2, <<c, o>>)
    PROVE  Carried(OptionHandled(h, <<c, o>>), hs, p2, q)
<1> DEFINE m == <<c, o>>
<1>1. m[1] = c /\ m[2] = o
  OBVIOUS
<1>2. /\ c = "WILL" => OptionHandled(h, m) = RcvdWill(h, m[2], TRUE, TRUE)
      /\ c = "WONT" => OptionHandled(h, m) = RcvdWont(h, m[2], TRUE)
      /\ c = "DO" => OptionHandled(h, m) = RcvdDo(h, m[2], TRUE, TRUE)
      /\ c = "DONT" => OptionHandled(h, m) = RcvdDont(h, m[2], TRUE)
  BY <1>1 DEF OptionHandled
<1>3. CASE c = "WILL"
  BY <1>1, <1>2, <1>3, WillCarried
<1>4. CASE c = "WONT"
  BY <1>1, <1>2, <1>4, WontCarried
<1>5. CASE c = "DO"
  BY <1>1, <1>2, <1>5, DoCarried
<1>6. CASE c = "DONT"
  BY <1>1, <1>2, <1>6, DontCarried
<1> QED BY <1>3, <1>4, <1>5, <1>6 DEF OptionCommand

(* ... and on every message. *)
LEMMA MessageCarried ==
    ASSUME NEW h \in Talking, Decided(h), h.out = <<>>, NEW hs, NEW p, NEW p2, NEW q \in Seq(Sent),
           NEW m \in Told, Joined(h.my, h.his, h.negotiated, h.funcs, hs, p, q), Takes(p, p2, m)
    PROVE  Carried(Handled(h, m), hs, p2, q)
<1>1. CASE m \in InTokens
  <2>1. m[1] \notin OptionCommand
    BY <1>1, Kinds
  <2>2. "TN3270E" \in h.my /\ Carried(Tn3270eHandled(h, m), hs, p2, q)
    BY <1>1, TokenCarried
  <2> QED BY <2>1, <2>2 DEF Handled
<1>2. CASE m \in OptionCommand \X Option
  <2>1. PICK c \in OptionCommand, o \in Option : m = <<c, o>>
    BY <1>2
  <2>2. m[1] \in OptionCommand
    BY <2>1
  <2>3. Carried(OptionHandled(h, m), hs, p2, q)
    BY <2>1, OptionCarried
  <2> QED BY <2>2, <2>3 DEF Handled
<1> QED BY <1>1, <1>2 DEF Told

(* After the handler its messages are on their way. *)
LEMMA Flushed ==
    ASSUME NEW h \in Talking, Decided(h)
    PROVE  LET r == [h EXCEPT !.out = <<>>]
           IN  /\ r \in Talking /\ Decided(r) /\ r.out = <<>> /\ r.my = h.my /\ r.his = h.his
               /\ r.negotiated = h.negotiated /\ r.funcs = h.funcs
<1> DEFINE r == [h EXCEPT !.out = <<>>]
<1>1. <<>> \in Seq(Sent)
  OBVIOUS
<1>2. r \in Talking
  BY <1>1, Zenon DEF Talking
<1>3. /\ r.out = <<>> /\ r.my = h.my /\ r.his = h.his /\ r.negotiated = h.negotiated /\ r.funcs = h.funcs
      /\ r.cstate = h.cstate
  BY DEF Talking
<1> HIDE DEF r
<1>4. Decided(r)
  BY <1>3 DEF Decided
<1> QED BY <1>2, <1>3, <1>4 DEF r

-----------------------------------------------------------------------------
(* The invariant, and the steps that keep it. *)

(* The inductive invariant: the ends are joined, between two handlers. *)
HInv ==
    /\ h3270 \in Talking /\ Decided(h3270) /\ h3270.out = <<>>
    /\ record = NoRecord
    /\ host \in HostState
    /\ toHost \in Seq(Sent) /\ toTerminal \in Seq(Told)
    /\ Joined(h3270.my, h3270.his, h3270.negotiated, h3270.funcs, host, toTerminal, toHost)

(* A step of the terminal. *)
LEMMA HandledStep == HInv /\ TerminalReceives => HInv'
<1> SUFFICES ASSUME HInv, TerminalReceives
             PROVE  HInv'
  OBVIOUS
<1> DEFINE m == Head(toTerminal)
           r == Handled(h3270, m)
           p2 == Tail(toTerminal)
<1>1. m \in Told /\ p2 \in Seq(Told) /\ Takes(toTerminal, p2, m)
  BY TakingHead DEF HInv, TerminalReceives
<1>2. /\ toTerminal' = p2 /\ h3270' = [r EXCEPT !.out = <<>>] /\ toHost' = toHost \o r.out
      /\ record' = record /\ host' = host
  BY DEF TerminalReceives
<1> HIDE DEF m, p2
<1>3. Carried(r, host, p2, toHost)
  BY <1>1, MessageCarried DEF HInv
<1> HIDE DEF r
<1>4. /\ h3270' \in Talking /\ Decided(h3270') /\ h3270'.out = <<>>
      /\ h3270'.my = r.my /\ h3270'.his = r.his /\ h3270'.negotiated = r.negotiated /\ h3270'.funcs = r.funcs
  BY <1>2, <1>3, Flushed DEF Carried
<1>5. /\ toHost' \in Seq(Sent)
      /\ Joined(r.my, r.his, r.negotiated, r.funcs, host, p2, toHost')
  BY <1>2, <1>3 DEF Carried
<1>6. Joined(h3270'.my, h3270'.his, h3270'.negotiated, h3270'.funcs, host', toTerminal', toHost')
  BY <1>2, <1>4, <1>5
<1> QED BY <1>1, <1>2, <1>4, <1>5, <1>6 DEF HInv

(* The state of one option, the functions and the count, written together. *)
HostPut(h, d, o, y, f, s) == [h EXCEPT ![d][o] = y, !.funcs = f, !.starts = s]

(* The host writes the state of one option, and no other. *)
LEMMA HostWrites ==
    ASSUME NEW h \in HostState, NEW d \in Sides, NEW o \in Option, NEW y \in OptionState,
           NEW f \in (SUBSET Function) \cup {NoAgreement}, NEW s \in 0 .. MaxStarts, NEW r,
           r = HostPut(h, d, o, y, f, s)
    PROVE  /\ r \in HostState /\ r[d][o] = y /\ r.funcs = f /\ HostElse(d, o, h, r)
<1>1. h.yours \in [Option -> OptionState] /\ h.mine \in [Option -> OptionState]
  BY DEF HostState
<1>2. CASE d = "yours"
  <2> DEFINE v == [h.yours EXCEPT ![o] = y]
  <2>1. v \in [Option -> OptionState] /\ v[o] = y /\ \A x \in Option : x # o => v[x] = h.yours[x]
    BY <1>1
  <2>2. r = [h EXCEPT !["yours"] = v, !.funcs = f, !.starts = s]
    BY <1>2 DEF HostPut
  <2> HIDE DEF v
  <2>3. r = [yours |-> v, mine |-> h.mine, funcs |-> f, starts |-> s]
    BY <2>2 DEF HostState
  <2>4. [yours |-> v, mine |-> h.mine, funcs |-> f, starts |-> s] \in HostState
    BY <1>1, <2>1 DEF HostState
  <2>5. r.yours = v /\ r.mine = h.mine /\ r.funcs = f
    <3> DEFINE k == [yours |-> v, mine |-> h.mine, funcs |-> f, starts |-> s]
    <3>1. k.yours = v /\ k.mine = h.mine /\ k.funcs = f
      OBVIOUS
    <3> HIDE DEF k
    <3>2. r = k
      BY <2>3 DEF k
    <3> QED BY <3>1, <3>2, Zenon
  <2>6. r[d] = v /\ r[d][o] = y
    BY <1>2, <2>1, <2>5
  <2>7. HostElse(d, o, h, r)
    <3> SUFFICES ASSUME NEW e \in Sides, NEW x \in Option, e # d \/ x # o
                 PROVE  r[e][x] = h[e][x]
      BY DEF HostElse
    <3>1. CASE e = "yours"
      BY <1>2, <2>1, <2>5, <3>1
    <3>2. CASE e = "mine"
      BY <1>2, <2>1, <2>5, <3>2
    <3> QED BY <3>1, <3>2 DEF Sides
  <2> QED BY <2>3, <2>4, <2>5, <2>6, <2>7
<1>3. CASE d = "mine"
  <2> DEFINE v == [h.mine EXCEPT ![o] = y]
  <2>1. v \in [Option -> OptionState] /\ v[o] = y /\ \A x \in Option : x # o => v[x] = h.mine[x]
    BY <1>1
  <2>2. r = [h EXCEPT !["mine"] = v, !.funcs = f, !.starts = s]
    BY <1>3 DEF HostPut
  <2> HIDE DEF v
  <2>3. r = [yours |-> h.yours, mine |-> v, funcs |-> f, starts |-> s]
    BY <2>2 DEF HostState
  <2>4. [yours |-> h.yours, mine |-> v, funcs |-> f, starts |-> s] \in HostState
    BY <1>1, <2>1 DEF HostState
  <2>5. r.yours = h.yours /\ r.mine = v /\ r.funcs = f
    <3> DEFINE k == [yours |-> h.yours, mine |-> v, funcs |-> f, starts |-> s]
    <3>1. k.yours = h.yours /\ k.mine = v /\ k.funcs = f
      OBVIOUS
    <3> HIDE DEF k
    <3>2. r = k
      BY <2>3 DEF k
    <3> QED BY <3>1, <3>2, Zenon
  <2>6. r[d] = v /\ r[d][o] = y
    BY <1>3, <2>1, <2>5
  <2>7. HostElse(d, o, h, r)
    <3> SUFFICES ASSUME NEW e \in Sides, NEW x \in Option, e # d \/ x # o
                 PROVE  r[e][x] = h[e][x]
      BY DEF HostElse
    <3>1. CASE e = "yours"
      BY <1>3, <2>1, <2>5, <3>1
    <3>2. CASE e = "mine"
      BY <1>3, <2>1, <2>5, <3>2
    <3> QED BY <3>1, <3>2 DEF Sides
  <2> QED BY <2>3, <2>4, <2>5, <2>6, <2>7
<1> QED BY <1>2, <1>3 DEF Sides

(* What the host believes of an option is one of the four states. *)
LEMMA HostFields ==
    ASSUME NEW h \in HostState
    PROVE  /\ h.funcs \in (SUBSET Function) \cup {NoAgreement} /\ h.starts \in 0 .. MaxStarts
           /\ \A d \in Sides, o \in Option : h[d][o] \in OptionState
BY DEF HostState, Sides

(* The host asks for one change. *)
LEMMA AskStep ==
    ASSUME HInv, NEW d \in Sides, NEW o \in Option, NEW y, NEW c, Ask(d, o, y, c),
           \/ host[d][o] = "NO" /\ c = Asks(d) /\ y = "WANTYES"
           \/ host[d][o] = "YES" /\ c = Denies(d) /\ y = "WANTNO"
    PROVE  HInv'
<1> DEFINE s == host.starts + 1
           m == <<c, o>>
<1>1. /\ host \in HostState /\ toTerminal \in Seq(Told) /\ y \in OptionState
      /\ host.funcs \in (SUBSET Function) \cup {NoAgreement}
  BY HostFields DEF HInv, OptionState
<1>2. s \in 0 .. MaxStarts
  <2>1. host.starts < MaxStarts /\ MaxStarts \in Nat
    BY HostAssumption DEF Ask
  <2>2. host.starts \in 0 .. MaxStarts
    BY <1>1, HostFields
  <2> QED BY <2>1, <2>2
<1>3. host' = HostPut(host, d, o, y, host.funcs, s)
  <2> DEFINE v == [host[d] EXCEPT ![o] = y]
  <2>1. host' = [host EXCEPT ![d] = v, !.starts = s]
    BY DEF Ask
  <2> HIDE DEF v
  <2>2. [host EXCEPT ![d] = v, !.starts = s] = [host EXCEPT ![d] = v, !.funcs = host.funcs, !.starts = s]
    BY <1>1 DEF HostState, Sides
  <2> QED BY <2>1, <2>2 DEF v, HostPut
<1>4. toTerminal' = Append(toTerminal, m) /\ h3270' = h3270 /\ record' = record /\ toHost' = toHost
  BY DEF Ask
<1>5. m \in Told /\ c \in {Asks(d), Denies(d)}
  BY DEF Told, OptionCommand, Asks, Denies
<1> DEFINE h == host
           h2 == host'
<1>6. h \in HostState /\ h2 = HostPut(h, d, o, y, h.funcs, s)
  BY <1>1, <1>3
<1> HIDE DEF s, m, h, h2
<1>7. h2 \in HostState /\ h2[d][o] = y /\ h2.funcs = h.funcs /\ HostElse(d, o, h, h2)
  <2>1. h.funcs \in (SUBSET Function) \cup {NoAgreement}
    BY <1>1 DEF h
  <2> QED BY <1>1, <1>2, <1>6, <2>1, HostWrites
<1>8. toTerminal' \in Seq(Told) /\ Brings(toTerminal, toTerminal', m)
  BY <1>1, <1>4, <1>5, Appending
<1>9. /\ h3270.my \in SUBSET Option /\ h3270.his \in SUBSET Option /\ h3270.negotiated \in BOOLEAN
       /\ h3270.funcs \in SUBSET Function
       /\ Joined(h3270.my, h3270.his, h3270.negotiated, h3270.funcs, h, toTerminal, toHost)
  BY SessionFacts DEF HInv, h
<1>10. \/ h[d][o] = "NO" /\ c = Asks(d) /\ h2[d][o] = "WANTYES"
       \/ h[d][o] = "YES" /\ c = Denies(d) /\ h2[d][o] = "WANTNO"
  BY <1>7 DEF h
<1>11. Brings(toTerminal, toTerminal', <<c, o>>)
  BY <1>8 DEF m
<1>12. Joined(h3270.my, h3270.his, h3270.negotiated, h3270.funcs, h2, toTerminal', toHost)
  BY <1>5, <1>7, <1>9, <1>10, <1>11, HostAsked
<1> QED BY <1>4, <1>7, <1>8, <1>12 DEF HInv, h2

(* HostStarts. *)
LEMMA StartsStep == HInv /\ HostStarts => HInv'
<1> SUFFICES ASSUME HInv, NEW o \in Option,
                    \/ host.yours[o] = "NO"  /\ Ask("yours", o, "WANTYES", "DO")
                    \/ host.yours[o] = "YES" /\ Ask("yours", o, "WANTNO", "DONT")
                    \/ host.mine[o]  = "NO"  /\ Ask("mine", o, "WANTYES", "WILL")
                    \/ host.mine[o]  = "YES" /\ Ask("mine", o, "WANTNO", "WONT")
             PROVE  HInv'
  BY DEF HostStarts
<1>1. /\ "yours" \in Sides /\ "mine" \in Sides
      /\ Asks("yours") = "DO" /\ Denies("yours") = "DONT" /\ Asks("mine") = "WILL" /\ Denies("mine") = "WONT"
  BY DEF Sides, Asks, Denies
<1>2. CASE host.yours[o] = "NO"  /\ Ask("yours", o, "WANTYES", "DO")
  BY <1>1, <1>2, AskStep
<1>3. CASE host.yours[o] = "YES" /\ Ask("yours", o, "WANTNO", "DONT")
  BY <1>1, <1>3, AskStep
<1>4. CASE host.mine[o]  = "NO"  /\ Ask("mine", o, "WANTYES", "WILL")
  BY <1>1, <1>4, AskStep
<1>5. CASE host.mine[o]  = "YES" /\ Ask("mine", o, "WANTNO", "WONT")
  BY <1>1, <1>5, AskStep
<1> QED BY <1>2, <1>3, <1>4, <1>5

(* The new state of an option, and the answer. *)
LEMMA NextOptionIs ==
    ASSUME NEW y \in OptionState, NEW b \in BOOLEAN, NEW a \in BOOLEAN, NEW agree, NEW refuse
    PROVE  /\ NextOptionState(y, b, a) \in OptionState
           /\ Reply(y, b, a, agree, refuse) \in {<<>>, <<agree>>, <<refuse>>}
           /\ y = "WANTYES" /\ b => /\ NextOptionState(y, b, a) = "YES"
                                    /\ Reply(y, b, a, agree, refuse) = <<>>
           /\ y # "NO" /\ ~b => /\ NextOptionState(y, b, a) = "NO"
                                /\ Reply(y, b, a, agree, refuse) = IF y = "YES" THEN <<refuse>> ELSE <<>>
BY DEF NextOptionState, Reply, OptionState

(* The answer as messages. *)
Answers(back, o) == [i \in DOMAIN back |-> <<back[i], o>>]

(* There is at most one, *)
LEMMA AnswersAre ==
    ASSUME NEW o
    PROVE  /\ Answers(<<>>, o) = <<>>
           /\ \A x : Answers(<<x>>, o) = << <<x, o>> >>
<1>1. Answers(<<>>, o) = <<>>
  BY DEF Answers
<1>2. ASSUME NEW x
      PROVE  Answers(<<x>>, o) = << <<x, o>> >>
  BY DEF Answers
<1> QED BY <1>1, <1>2

(* ... and it is appended. *)
LEMMA Answering ==
    ASSUME NEW p \in Seq(Told), NEW m \in Told
    PROVE  /\ p \o <<>> \o <<>> = p
           /\ p \o <<m>> \o <<>> = Append(p, m)
           /\ p \o <<>> \o <<m>> = Append(p, m)
OBVIOUS

(* What HostOption leaves. *)
HostDid(d, o, new, back) ==
    /\ host' \in HostState /\ host'[d][o] = new /\ HostElse(d, o, host, host')
    /\ host'.funcs = IF IsTn(d, o) /\ host[d][o] # new THEN NoAgreement ELSE host.funcs
    /\ toTerminal' = toTerminal \o Answers(back, o)
                         \o (IF IsTn(d, o) /\ host[d][o] # new /\ new = "YES"
                             THEN << <<"SEND_DEVICE_TYPE">> >> ELSE <<>>)

(* HostOption writes one option; with TN3270E the agreement on functions *)
(* ends, and the device type is asked for.                               *)
LEMMA HostOptionIs ==
    ASSUME HInv, NEW d \in Sides, NEW o \in Option, NEW b \in BOOLEAN, NEW agree, NEW refuse,
           HostOption(d, o, b, agree, refuse), NEW new, NEW back,
           new = NextOptionState(host[d][o], b, o \in Accepted),
           back = Reply(host[d][o], b, o \in Accepted, agree, refuse)
    PROVE  HostDid(d, o, new, back)
<1> DEFINE f == IF IsTn(d, o) /\ host[d][o] # new THEN NoAgreement ELSE host.funcs
           v == [host[d] EXCEPT ![o] = new]
<1>1. /\ host' = [host EXCEPT ![d] = v, !.funcs = f]
      /\ toTerminal' = toTerminal \o Answers(back, o)
                       \o (IF IsTn(d, o) /\ host[d][o] # new /\ new = "YES"
                           THEN << <<"SEND_DEVICE_TYPE">> >> ELSE <<>>)
  BY DEF HostOption, IsTn, Answers
<1>2. /\ host \in HostState /\ host[d][o] \in OptionState
      /\ host.funcs \in (SUBSET Function) \cup {NoAgreement} /\ host.starts \in 0 .. MaxStarts
  BY HostFields DEF HInv
<1>3. new \in OptionState
  <2> DEFINE a == o \in Accepted
  <2>1. a \in BOOLEAN
    OBVIOUS
  <2> HIDE DEF a
  <2>2. new = NextOptionState(host[d][o], b, a)
    BY DEF a
  <2> QED BY <1>2, <2>1, <2>2, NextOptionIs
<1>4. f \in (SUBSET Function) \cup {NoAgreement}
  BY <1>2
<1> HIDE DEF f, v
<1>5. host' = HostPut(host, d, o, new, f, host.starts)
  <2>1. [host EXCEPT ![d] = v, !.funcs = f] = [host EXCEPT ![d] = v, !.funcs = f, !.starts = host.starts]
    BY <1>2 DEF HostState, Sides
  <2> QED BY <1>1, <2>1 DEF v, HostPut
<1>6. host' \in HostState /\ host'[d][o] = new /\ host'.funcs = f /\ HostElse(d, o, host, host')
  BY <1>2, <1>3, <1>4, <1>5, HostWrites
<1> QED BY <1>1, <1>6 DEF f, HostDid

(* A step of the host keeps the invariant if it joins the ends. *)
LEMMA HostMoves ==
    ASSUME HInv, UNCHANGED <<h3270, record>>, host' \in HostState, toHost' \in Seq(Sent),
           toTerminal' \in Seq(Told),
           Joined(h3270.my, h3270.his, h3270.negotiated, h3270.funcs, host', toTerminal', toHost')
    PROVE  HInv'
BY DEF HInv

(* A command of an option other than TN3270E, *)
LEMMA OrdinaryHeard ==
    ASSUME HInv, UNCHANGED <<h3270, record>>, toHost' \in Seq(Sent), NEW d \in Sides, NEW o \in Option,
           ~IsTn(d, o), NEW b \in BOOLEAN, NEW c, c = IF b THEN Agrees(d) ELSE Refuses(d),
           Takes(toHost, toHost', <<c, o>>), HostOption(d, o, b, Asks(d), Denies(d))
    PROVE  HInv'
<1> DEFINE y == host[d][o]
           a == o \in Accepted
           new == NextOptionState(y, b, a)
           back == Reply(y, b, a, Asks(d), Denies(d))
           p == toTerminal
           p2 == toTerminal'
           hs == host
           hs2 == host'
<1>1. a \in BOOLEAN /\ p \in Seq(Told) /\ hs \in HostState /\ y \in OptionState
  BY HostFields DEF HInv
<1>2. c \in {Agrees(d), Refuses(d)} /\ b = (c = Agrees(d))
  BY DEF Agrees, Refuses, Sides
<1>3. /\ hs2 \in HostState /\ hs2[d][o] = new /\ HostElse(d, o, hs, hs2) /\ hs2.funcs = hs.funcs
      /\ p2 = p \o Answers(back, o) \o <<>>
  <2> HIDE DEF new, back
  <2>1. new = NextOptionState(host[d][o], b, o \in Accepted) /\ back = Reply(host[d][o], b, o \in Accepted, Asks(d), Denies(d))
    BY DEF new, back, y, a
  <2>2. HostDid(d, o, new, back)
    BY <2>1, HostOptionIs
  <2> QED BY <2>2 DEF HostDid
<1> HIDE DEF a, p, p2, hs2
<1>4. back \in {<<>>, <<Asks(d)>>, <<Denies(d)>>}
  <2> HIDE DEF y
  <2> QED BY <1>1, NextOptionIs
<1>5. /\ {Asks(d), Denies(d)} \subseteq OptionCommand
      /\ \A r \in {Asks(d), Denies(d)} : <<r, o>> \in Told
  BY DEF Asks, Denies, OptionCommand, Told
<1>6. /\ p2 \in Seq(Told)
      /\ \/ back = <<>> /\ p2 = p
         \/ \E r \in {Asks(d), Denies(d)} : back = <<r>> /\ Brings(p, p2, <<r, o>>)
  <2> HIDE DEF back, y
  <2>1. CASE back = <<>>
    <3>1. p2 = p \o <<>> \o <<>>
      BY <1>3, <2>1, AnswersAre
    <3>2. p2 = p
      BY <1>1, <3>1
    <3> QED BY <1>1, <2>1, <3>2
  <2>2. ASSUME NEW r \in {Asks(d), Denies(d)}, back = <<r>>
        PROVE  p2 \in Seq(Told) /\ Brings(p, p2, <<r, o>>)
    <3> DEFINE m == <<r, o>>
    <3>1. Answers(back, o) = <<m>> /\ m \in Told
      BY <1>5, <2>2, AnswersAre
    <3> HIDE DEF m
    <3>2. p2 = Append(p, m)
      BY <1>1, <1>3, <3>1, Answering
    <3>3. p2 \in Seq(Told) /\ Brings(p, p2, m)
      BY <1>1, <3>1, <3>2, Appending
    <3> QED BY <3>3 DEF m
  <2> QED BY <1>4, <2>1, <2>2
<1> DEFINE my == h3270.my
           his == h3270.his
           n == h3270.negotiated
           f == h3270.funcs
           q == toHost
           q2 == toHost'
<1>7. /\ my \in SUBSET Option /\ his \in SUBSET Option /\ n \in BOOLEAN /\ f \in SUBSET Function
      /\ Joined(my, his, n, f, hs, p, q) /\ Takes(q, q2, <<c, o>>)
  BY SessionFacts DEF HInv, p
<1>8. /\ hs2[d][o] = NextOptionState(hs[d][o], b, a)
      /\ back = Reply(hs[d][o], b, a, Asks(d), Denies(d))
      /\ b <=> c = Agrees(d)
      /\ a <=> o \in Accepted
  BY <1>2, <1>3 DEF a
<1> HIDE DEF new, back, y, hs, my, his, n, f, q, q2
<1>9. Joined(my, his, n, f, hs2, p2, q2)
  <2>1. hs \in HostState /\ a \in BOOLEAN /\ c \in {Agrees(d), Refuses(d)}
    BY <1>1, <1>2
  <2>2. Hears(hs, hs2, d, o, b, p, p2)
    BY <1>3, <1>4, <1>6, <1>8, <2>1 DEF Hears
  <2> QED BY <1>7, <2>1, <2>2, HostHeard, Zenon
<1> QED BY <1>3, <1>6, <1>9, HostMoves DEF p2, hs2, my, his, n, f, q2

(* ... WILL TN3270E, *)
LEMMA TnGranted ==
    ASSUME HInv, UNCHANGED <<h3270, record>>, toHost' \in Seq(Sent), NEW d \in Sides, NEW o \in Option,
           IsTn(d, o), NEW b \in BOOLEAN, b,
           Takes(toHost, toHost', TnWill), HostOption(d, o, b, Asks(d), Denies(d))
    PROVE  HInv'
<1> DEFINE my == h3270.my
           his == h3270.his
           n == h3270.negotiated
           f == h3270.funcs
           y == host[d][o]
           a == o \in Accepted
           new == NextOptionState(y, b, a)
           back == Reply(y, b, a, Asks(d), Denies(d))
           p == toTerminal
           p2 == toTerminal'
           q == toHost
           q2 == toHost'
           hs == host
           hs2 == host'
<1>1. /\ my \in SUBSET Option /\ his \in SUBSET Option /\ n \in BOOLEAN /\ f \in SUBSET Function
      /\ Joined(my, his, n, f, hs, p, q) /\ Takes(q, q2, TnWill)
      /\ p \in Seq(Told) /\ hs \in HostState
  BY SessionFacts DEF HInv
<1>2. d = "yours" /\ o = "TN3270E" /\ a \in BOOLEAN /\ y = hs[d][o] /\ y = hs.yours["TN3270E"] /\ Denies(d) = "DONT"
  BY DEF IsTn, Denies
<1>3. y \in OptionState /\ y = "WANTYES"
  <2>1. hs[d][o] \in OptionState
    BY <1>1, HostFields
  <2> HIDE DEF my, his, n, f, p, q, q2, hs
  <2>2. hs.yours["TN3270E"] = "WANTYES"
    BY <1>1, <1>2, HostHeardWillTnKnown
  <2> QED BY <1>2, <2>1, <2>2
<1>4. /\ hs2 \in HostState /\ hs2[d][o] = new /\ HostElse(d, o, hs, hs2)
      /\ hs2.funcs = IF IsTn(d, o) /\ hs[d][o] # new THEN NoAgreement ELSE hs.funcs
      /\ p2 = p \o Answers(back, o)
                \o (IF IsTn(d, o) /\ hs[d][o] # new /\ new = "YES"
                    THEN << <<"SEND_DEVICE_TYPE">> >> ELSE <<>>)
  <2> HIDE DEF new, back
  <2>1. new = NextOptionState(host[d][o], b, o \in Accepted) /\ back = Reply(host[d][o], b, o \in Accepted, Asks(d), Denies(d))
    BY DEF new, back, y, a
  <2>2. HostDid(d, o, new, back)
    BY <2>1, HostOptionIs
  <2> QED BY <2>2 DEF HostDid
<1>5. new = "YES" /\ back = <<>>
  <2> HIDE DEF y, a
  <2> QED BY <1>2, <1>3 DEF NextOptionState, Reply, OptionState
<1> HIDE DEF my, his, n, f, y, a, new, back, p, p2, q, q2, hs, hs2
<1> DEFINE m == <<"SEND_DEVICE_TYPE">>
<1>6. m \in Told
  BY DEF Told, InTokens
<1>7. p2 = p \o Answers(back, o) \o <<m>>
  BY <1>2, <1>3, <1>4, <1>5
<1> HIDE DEF m
<1>8. hs2.funcs = NoAgreement /\ hs2.yours["TN3270E"] = "YES" /\ HostElse("yours", "TN3270E", hs, hs2)
  BY <1>2, <1>3, <1>4, <1>5
<1>9. p2 \in Seq(Told) /\ Brings(p, p2, m)
  <2>1. Answers(back, o) = <<>>
    BY <1>5, AnswersAre
  <2>2. p2 = Append(p, m)
    BY <1>1, <1>6, <1>7, <2>1, Answering
  <2> QED BY <1>1, <1>6, <2>2, Appending
<1>10. Joined(my, his, n, f, hs2, p2, q2)
  <2>1. Brings(p, p2, <<"SEND_DEVICE_TYPE">>) /\ "TN3270E" \in Option
    BY <1>2, <1>9 DEF m
  <2> QED BY <1>1, <1>8, <2>1, HostHeardWillTn
<1> QED BY <1>4, <1>9, <1>10, HostMoves DEF p2, hs2, my, his, n, f, q2

(* ... WONT TN3270E, *)
LEMMA TnDeclined ==
    ASSUME HInv, UNCHANGED <<h3270, record>>, toHost' \in Seq(Sent), NEW d \in Sides, NEW o \in Option,
           IsTn(d, o), NEW b \in BOOLEAN, ~b,
           Takes(toHost, toHost', TnWont), HostOption(d, o, b, Asks(d), Denies(d))
    PROVE  HInv'
<1> DEFINE my == h3270.my
           his == h3270.his
           n == h3270.negotiated
           f == h3270.funcs
           y == host[d][o]
           a == o \in Accepted
           new == NextOptionState(y, b, a)
           back == Reply(y, b, a, Asks(d), Denies(d))
           p == toTerminal
           p2 == toTerminal'
           q == toHost
           q2 == toHost'
           hs == host
           hs2 == host'
<1>1. /\ my \in SUBSET Option /\ his \in SUBSET Option /\ n \in BOOLEAN /\ f \in SUBSET Function
      /\ Joined(my, his, n, f, hs, p, q) /\ Takes(q, q2, TnWont)
      /\ p \in Seq(Told) /\ hs \in HostState
  BY SessionFacts DEF HInv
<1>2. d = "yours" /\ o = "TN3270E" /\ a \in BOOLEAN /\ y = hs[d][o] /\ y = hs.yours["TN3270E"] /\ Denies(d) = "DONT"
  BY DEF IsTn, Denies
<1>3. y \in OptionState /\ y # "NO"
  <2>1. hs[d][o] \in OptionState
    BY <1>1, HostFields
  <2> HIDE DEF my, his, n, f, p, q, q2, hs
  <2>2. hs.yours["TN3270E"] # "NO"
    BY <1>1, <1>2, HostHeardWontTnKnown
  <2> QED BY <1>2, <2>1, <2>2
<1>4. /\ hs2 \in HostState /\ hs2[d][o] = new /\ HostElse(d, o, hs, hs2)
      /\ hs2.funcs = IF IsTn(d, o) /\ hs[d][o] # new THEN NoAgreement ELSE hs.funcs
      /\ p2 = p \o Answers(back, o)
                \o (IF IsTn(d, o) /\ hs[d][o] # new /\ new = "YES"
                    THEN << <<"SEND_DEVICE_TYPE">> >> ELSE <<>>)
  <2> HIDE DEF new, back
  <2>1. new = NextOptionState(host[d][o], b, o \in Accepted) /\ back = Reply(host[d][o], b, o \in Accepted, Asks(d), Denies(d))
    BY DEF new, back, y, a
  <2>2. HostDid(d, o, new, back)
    BY <2>1, HostOptionIs
  <2> QED BY <2>2 DEF HostDid
<1>5. new = "NO" /\ back = IF y = "YES" THEN <<Denies(d)>> ELSE <<>>
  <2> HIDE DEF y, a
  <2> QED BY <1>2, <1>3 DEF NextOptionState, Reply, OptionState
<1> HIDE DEF my, his, n, f, y, a, new, back, p, p2, q, q2, hs, hs2
<1> DEFINE m == <<Denies(d), o>>
<1>6. m \in Told /\ m = TnDont
  BY <1>2 DEF Told, OptionCommand, TnDont
<1>7. p2 = p \o Answers(back, o) \o <<>>
  BY <1>5, <1>4
<1>8. hs2.funcs = NoAgreement /\ hs2.yours["TN3270E"] = "NO" /\ HostElse("yours", "TN3270E", hs, hs2)
  BY <1>2, <1>3, <1>4, <1>5
<1>9. p2 \in Seq(Told) /\ IF hs.yours["TN3270E"] = "YES" THEN Brings(p, p2, TnDont) ELSE p2 = p
  <2>1. CASE y = "YES"
    <3>1. Answers(back, o) = <<m>>
      BY <1>5, <2>1, AnswersAre
    <3> HIDE DEF m
    <3>2. p2 = Append(p, m)
      BY <1>1, <1>6, <1>7, <3>1, Answering
    <3>3. p2 \in Seq(Told) /\ Brings(p, p2, m)
      BY <1>1, <1>6, <3>2, Appending
    <3> QED BY <1>2, <1>6, <2>1, <3>3
  <2>2. CASE y # "YES"
    <3>1. back = <<>>
      BY <1>5, <2>2
    <3>2. p2 = p \o <<>> \o <<>>
      BY <1>7, <3>1, AnswersAre
    <3>3. p2 = p
      BY <1>1, <3>2
    <3> QED BY <1>1, <1>2, <2>2, <3>3
  <2> QED BY <2>1, <2>2
<1>10. Joined(my, his, n, f, hs2, p2, q2)
  <2>1. "TN3270E" \in Option
    BY <1>2
  <2> QED BY <1>1, <1>8, <1>9, <2>1, HostHeardWontTn
<1> QED BY <1>4, <1>9, <1>10, HostMoves DEF p2, hs2, my, his, n, f, q2

(* ... every option command. *)
LEMMA OptionHeard ==
    ASSUME HInv, UNCHANGED <<h3270, record>>, toHost' \in Seq(Sent), NEW d \in Sides, NEW o \in Option,
           NEW b \in BOOLEAN, NEW c, c = IF b THEN Agrees(d) ELSE Refuses(d),
           Takes(toHost, toHost', <<c, o>>), HostOption(d, o, b, Asks(d), Denies(d))
    PROVE  HInv'
<1>1. CASE ~IsTn(d, o)
  BY <1>1, OrdinaryHeard
<1>2. CASE IsTn(d, o) /\ b
  <2>1. <<c, o>> = TnWill
    BY <1>2 DEF IsTn, Agrees, TnWill
  <2>2. Takes(toHost, toHost', TnWill)
    BY <2>1
  <2> QED BY <1>2, <2>2, TnGranted
<1>3. CASE IsTn(d, o) /\ ~b
  <2>1. <<c, o>> = TnWont
    BY <1>3 DEF IsTn, Refuses, TnWont
  <2>2. Takes(toHost, toHost', TnWont)
    BY <2>1
  <2> QED BY <1>3, <2>2, TnDeclined
<1> QED BY <1>1, <1>2, <1>3

(* The cases of HostReceives. *)
LEMMA Hearing ==
    ASSUME HostReceives, NEW m, m = Head(toHost)
    PROVE  /\ m[1] = "WILL" => HostOption("yours", m[2], TRUE, "DO", "DONT")
           /\ m[1] = "WONT" => HostOption("yours", m[2], FALSE, "DO", "DONT")
           /\ m[1] = "DO" => HostOption("mine", m[2], TRUE, "WILL", "WONT")
           /\ m[1] = "DONT" => HostOption("mine", m[2], FALSE, "WILL", "WONT")
           /\ m[1] = "DEVICE_TYPE_REQUEST" /\ InTn3270eNegotiation =>
                \E reply \in {"DEVICE_TYPE_IS", "REJECT_LU", "REJECT"} : HostAnswers(<<reply>>, host.funcs)
           /\ m[1] = "FUNCTIONS_REQUEST" /\ InTn3270eNegotiation => HostFunctionsRequest(m[2])
           /\ m[1] = "FUNCTIONS_IS" /\ InTn3270eNegotiation =>
                host' = [host EXCEPT !.funcs = m[2]] /\ UNCHANGED toTerminal
           /\ \/ m[1] \notin OptionCommand \cup {"DEVICE_TYPE_REQUEST", "FUNCTIONS_REQUEST", "FUNCTIONS_IS"}
              \/ m[1] \notin OptionCommand /\ ~InTn3270eNegotiation
              => UNCHANGED <<host, toTerminal>>
<1>1. CASE m[1] = "WILL"
  BY <1>1 DEF HostReceives, OptionCommand
<1>2. CASE m[1] = "WONT"
  BY <1>2 DEF HostReceives, OptionCommand
<1>3. CASE m[1] = "DO"
  BY <1>3 DEF HostReceives, OptionCommand
<1>4. CASE m[1] = "DONT"
  BY <1>4 DEF HostReceives, OptionCommand
<1>5. CASE m[1] = "DEVICE_TYPE_REQUEST" /\ InTn3270eNegotiation
  BY <1>5 DEF HostReceives, OptionCommand
<1>6. CASE m[1] = "FUNCTIONS_REQUEST" /\ InTn3270eNegotiation
  BY <1>6 DEF HostReceives, OptionCommand
<1>7. CASE m[1] = "FUNCTIONS_IS" /\ InTn3270eNegotiation
  BY <1>7 DEF HostReceives, OptionCommand
<1>8. CASE \/ m[1] \notin OptionCommand \cup {"DEVICE_TYPE_REQUEST", "FUNCTIONS_REQUEST", "FUNCTIONS_IS"}
           \/ m[1] \notin OptionCommand /\ ~InTn3270eNegotiation
  BY <1>8 DEF HostReceives, OptionCommand
<1> QED BY <1>1, <1>2, <1>3, <1>4, <1>5, <1>6, <1>7, <1>8 DEF OptionCommand

(* An answer to a subnegotiation keeps the invariant. *)
LEMMA AnswerMoves ==
    ASSUME HInv, UNCHANGED <<h3270, record>>, toHost' \in Seq(Sent), NEW t \in OutTokens,
           Takes(toHost, toHost', t), "TN3270E" \in h3270.my, host.yours["TN3270E"] = "YES",
           NEW g \in (SUBSET Function) \cup {NoAgreement}, host' = [host EXCEPT !.funcs = g],
           toTerminal' \in Seq(Told),
           toTerminal' = toTerminal \/ \E m \in InTokens : Brings(toTerminal, toTerminal', m),
           Exchange(h3270.negotiated, h3270.funcs, g, toTerminal', toHost')
    PROVE  HInv'
<1> DEFINE my == h3270.my
           his == h3270.his
           n == h3270.negotiated
           f == h3270.funcs
           p == toTerminal
           p2 == toTerminal'
           q == toHost
           q2 == toHost'
           hs == host
           hs2 == host'
<1>1. /\ my \in SUBSET Option /\ his \in SUBSET Option /\ n \in BOOLEAN /\ f \in SUBSET Function
      /\ Joined(my, his, n, f, hs, p, q) /\ Takes(q, q2, t) /\ "TN3270E" \in my
      /\ hs \in HostState /\ hs.yours["TN3270E"] = "YES"
      /\ p2 = p \/ \E m \in InTokens : Brings(p, p2, m)
  BY SessionFacts DEF HInv
<1>2. hs2 \in HostState /\ hs2.yours = hs.yours /\ hs2.mine = hs.mine /\ hs2.funcs = g
  <2> HIDE DEF hs2
  <2>1. hs2 = [hs EXCEPT !.funcs = g] /\ hs \in HostState
    BY <1>1 DEF hs2
  <2> HIDE DEF hs
  <2>2. hs2 \in HostState
    BY <2>1, Zenon DEF HostState
  <2>3. hs2.yours = hs.yours /\ hs2.mine = hs.mine /\ hs2.funcs = g
    BY <2>1 DEF HostState
  <2> QED BY <2>2, <2>3
<1> HIDE DEF my, his, n, f, p, p2, q, q2, hs, hs2
<1>3. Exchange(n, f, hs2.funcs, p2, q2)
  BY <1>2 DEF n, f, p2, q2
<1>4. Joined(my, his, n, f, hs2, p2, q2)
  BY <1>1, <1>2, <1>3, HostReplied
<1> QED BY <1>2, <1>4, HostMoves DEF p2, hs2, my, his, n, f, q2

(* Every subnegotiation does. *)
LEMMA TokenHeard ==
    ASSUME HInv, HostReceives, NEW t \in OutTokens, t = Head(toHost), toHost' \in Seq(Sent),
           Takes(toHost, toHost', t)
    PROVE  HInv'
<1> DEFINE my == h3270.my
           his == h3270.his
           n == h3270.negotiated
           f == h3270.funcs
           p == toTerminal
           p2 == toTerminal'
           q == toHost
           q2 == toHost'
           hs == host
<1>1. /\ my \in SUBSET Option /\ his \in SUBSET Option /\ n \in BOOLEAN /\ f \in SUBSET Function
      /\ Joined(my, his, n, f, hs, p, q) /\ Takes(q, q2, t) /\ p \in Seq(Told) /\ hs \in HostState
      /\ UNCHANGED <<h3270, record>>
  BY SessionFacts DEF HInv, HostReceives
<1>2. InTn3270eNegotiation <=> hs.yours["TN3270E"] = "YES"
  BY DEF InTn3270eNegotiation
<1> HIDE DEF my, his, n, f, p, q, q2, hs
<1>3. hs.yours["TN3270E"] # "YES" => Joined(my, his, n, f, hs, p, q2)
  BY <1>1, HostToken
<1>4. hs.yours["TN3270E"] = "YES" =>
         /\ "TN3270E" \in my /\ None(p, TnIn) /\ None(q2, TnOut) /\ hs.funcs = NoAgreement
         /\ Answerable(n, f, t)
  BY <1>1, HostToken, Zenon
<1>5. CASE ~InTn3270eNegotiation
  <2>1. t[1] \notin OptionCommand
    BY Kinds
  <2>2. UNCHANGED <<host, toTerminal>>
    BY <1>5, <2>1, Hearing
  <2>3. Joined(my, his, n, f, hs, p, q2)
    BY <1>2, <1>3, <1>5
  <2>4. host' \in HostState /\ toTerminal' \in Seq(Told)
    BY <1>1, <2>2 DEF hs, p
  <2>5. Joined(my, his, n, f, host', toTerminal', q2)
    BY <2>2, <2>3 DEF hs, p
  <2> QED BY <1>1, <2>4, <2>5, HostMoves DEF my, his, n, f, q2
<1>6. ASSUME InTn3270eNegotiation, NEW m \in InTokens, NEW g \in (SUBSET Function) \cup {NoAgreement},
             HostAnswers(m, g), Gains(p, p2, TnIn, m) => Exchange(n, f, g, p2, q2)
      PROVE  HInv'
  <2>1. m \in Told /\ toTerminal' = Append(toTerminal, m) /\ host' = [host EXCEPT !.funcs = g]
    BY <1>6 DEF Told, HostAnswers
  <2>2. p2 \in Seq(Told) /\ Brings(p, p2, m)
    BY <1>1, <2>1, Appending DEF p
  <2>3. Gains(p, p2, TnIn, m)
    BY <2>2, TokenMoved
  <2>4. Exchange(n, f, g, p2, q2) /\ "TN3270E" \in my /\ hs.yours["TN3270E"] = "YES"
    BY <1>2, <1>4, <1>6, <2>3
  <2>5. toTerminal' \in Seq(Told) /\ \E k \in InTokens : Brings(toTerminal, toTerminal', k)
    BY <2>2 DEF p
  <2> QED BY <1>1, <2>1, <2>4, <2>5, AnswerMoves DEF my, n, f, hs, q2
<1>7. ASSUME InTn3270eNegotiation, ~n, NEW lu \in 0 .. Lus, t = <<"DEVICE_TYPE_REQUEST", lu>>
      PROVE  HInv'
  <2>1. t[1] = "DEVICE_TYPE_REQUEST"
    BY <1>7
  <2>2. PICK reply \in {"DEVICE_TYPE_IS", "REJECT_LU", "REJECT"} : HostAnswers(<<reply>>, host.funcs)
    BY <1>7, <2>1, Hearing
  <2> DEFINE m == <<reply>>
  <2>3. m \in Replies /\ m \in InTokens
    BY DEF Replies, InTokens
  <2>4. HostAnswers(m, NoAgreement)
    BY <1>2, <1>4, <1>7, <2>2 DEF hs
  <2> HIDE DEF m
  <2>5. Gains(p, p2, TnIn, m) => Exchange(n, f, NoAgreement, p2, q2)
    <3> HIDE DEF p2
    <3> QED BY <1>1, <1>2, <1>4, <1>7, <2>3, TnAnswered
  <2> QED BY <1>6, <1>7, <2>3, <2>4, <2>5
<1>8. ASSUME InTn3270eNegotiation, ~n, t = <<"FUNCTIONS_REQUEST", f>>
      PROVE  HInv'
  <2>1. t[1] = "FUNCTIONS_REQUEST" /\ t[2] = f
    BY <1>8
  <2>2. HostFunctionsRequest(f)
    BY <1>8, <2>1, Hearing
  <2>3. CASE f \subseteq HostFunctions
    <3> DEFINE m == <<"FUNCTIONS_IS", f>>
    <3>1. m \in InTokens /\ HostAnswers(m, f)
      BY <1>1, <2>2, <2>3 DEF InTokens, HostFunctionsRequest
    <3>2. Gains(p, p2, TnIn, m) => Exchange(n, f, f, p2, q2)
      <4> HIDE DEF p2
      <4> QED BY <1>1, <1>2, <1>4, <1>8, TnAnswered
    <3> HIDE DEF m
    <3> QED BY <1>1, <1>6, <1>8, <3>1, <3>2
  <2>4. CASE ~(f \subseteq HostFunctions)
    <3> DEFINE e == f \cap HostFunctions
               m == <<"FUNCTIONS_REQUEST", e>>
    <3>1. e \in SUBSET f /\ e # f /\ e \in SUBSET Function
      BY <1>1, <2>4
    <3>2. m \in InTokens /\ HostAnswers(m, NoAgreement)
      <4>1. HostAnswers(m, host.funcs)
        BY <2>2, <2>4 DEF HostFunctionsRequest
      <4>2. host.funcs = NoAgreement
        BY <1>2, <1>4, <1>8 DEF hs
      <4> QED BY <3>1, <4>1, <4>2 DEF InTokens
    <3> HIDE DEF e
    <3>3. Gains(p, p2, TnIn, m) => Exchange(n, f, NoAgreement, p2, q2)
      <4> HIDE DEF p2
      <4> QED BY <1>1, <1>2, <1>4, <1>8, <3>1, TnAnswered
    <3> HIDE DEF m
    <3> QED BY <1>6, <1>8, <3>2, <3>3
  <2> QED BY <2>3, <2>4
<1>9. ASSUME InTn3270eNegotiation, n, t = <<"FUNCTIONS_IS", f>>
      PROVE  HInv'
  <2>1. t[1] = "FUNCTIONS_IS" /\ t[2] = f
    BY <1>9
  <2>2. host' = [host EXCEPT !.funcs = f] /\ toTerminal' = toTerminal
    BY <1>9, <2>1, Hearing
  <2>3. Exchange(n, f, f, p, q2)
    BY <1>1, <1>2, <1>4, <1>9, TnAnswered
  <2>4. /\ "TN3270E" \in h3270.my /\ host.yours["TN3270E"] = "YES" /\ f \in (SUBSET Function) \cup {NoAgreement}
        /\ toTerminal' \in Seq(Told)
    BY <1>1, <1>2, <1>4, <1>9, <2>2 DEF my, hs, p
  <2>5. Exchange(h3270.negotiated, h3270.funcs, f, toTerminal', toHost')
    BY <2>2, <2>3 DEF n, f, p, q2
  <2> QED BY <1>1, <2>2, <2>4, <2>5, AnswerMoves
<1> QED BY <1>2, <1>4, <1>5, <1>7, <1>8, <1>9 DEF Answerable

(* HostReceives. *)
LEMMA ReceivesStep == HInv /\ HostReceives => HInv'
<1> SUFFICES ASSUME HInv, HostReceives
             PROVE  HInv'
  OBVIOUS
<1> DEFINE m == Head(toHost)
<1>1. toHost # <<>> /\ toHost' = Tail(toHost) /\ UNCHANGED <<h3270, record>> /\ toHost \in Seq(Sent)
  BY DEF HostReceives, HInv
<1>2. m \in Sent /\ toHost' \in Seq(Sent) /\ Takes(toHost, toHost', m) /\ m = Head(toHost)
  BY <1>1, TakingHead
<1> HIDE DEF m
<1>3. CASE m \in OutTokens
  BY <1>2, <1>3, TokenHeard
<1>4. CASE m \in Extra
  <2>1. m[1] \notin OptionCommand \cup {"DEVICE_TYPE_REQUEST", "FUNCTIONS_REQUEST", "FUNCTIONS_IS"}
    BY <1>4 DEF Extra, OptionCommand
  <2>2. UNCHANGED <<host, toTerminal>>
    BY <1>2, <2>1, Hearing
  <2>3. /\ h3270.my \in SUBSET Option /\ h3270.his \in SUBSET Option /\ h3270.negotiated \in BOOLEAN
        /\ h3270.funcs \in SUBSET Function
        /\ Joined(h3270.my, h3270.his, h3270.negotiated, h3270.funcs, host, toTerminal, toHost)
    BY SessionFacts DEF HInv
  <2>4. Joined(h3270.my, h3270.his, h3270.negotiated, h3270.funcs, host, toTerminal, toHost')
    BY <1>2, <1>4, <2>3, ExtraSent
  <2>5. host' \in HostState /\ toTerminal' \in Seq(Told)
    BY <2>2 DEF HInv
  <2>6. Joined(h3270.my, h3270.his, h3270.negotiated, h3270.funcs, host', toTerminal', toHost')
    BY <2>2, <2>4
  <2> QED BY <1>1, <1>2, <2>5, <2>6, HostMoves
<1>5. ASSUME NEW c \in OptionCommand, NEW o \in Option, m = <<c, o>>
      PROVE  HInv'
  <2>1. m[1] = c /\ m[2] = o /\ Takes(toHost, toHost', <<c, o>>)
    BY <1>2, <1>5
  <2>2. ASSUME NEW d \in Sides, NEW b \in BOOLEAN, c = IF b THEN Agrees(d) ELSE Refuses(d),
               HostOption(d, o, b, Asks(d), Denies(d))
        PROVE  HInv'
    BY <1>1, <1>2, <2>1, <2>2, OptionHeard
  <2>3. CASE c = "WILL"
    <3> DEFINE d == "yours"
               b == TRUE
    <3>1. d \in Sides /\ b \in BOOLEAN /\ c = IF b THEN Agrees(d) ELSE Refuses(d)
      BY <2>3 DEF Sides, Agrees, Refuses
    <3>2. HostOption("yours", o, TRUE, "DO", "DONT")
      BY <1>2, <2>1, <2>3, Hearing
    <3>3. HostOption(d, o, b, Asks(d), Denies(d))
      BY <3>2 DEF Asks, Denies
    <3> HIDE DEF d, b
    <3> QED BY <2>2, <3>1, <3>3
  <2>4. CASE c = "WONT"
    <3> DEFINE d == "yours"
               b == FALSE
    <3>1. d \in Sides /\ b \in BOOLEAN /\ c = IF b THEN Agrees(d) ELSE Refuses(d)
      BY <2>4 DEF Sides, Agrees, Refuses
    <3>2. HostOption("yours", o, FALSE, "DO", "DONT")
      BY <1>2, <2>1, <2>4, Hearing
    <3>3. HostOption(d, o, b, Asks(d), Denies(d))
      BY <3>2 DEF Asks, Denies
    <3> HIDE DEF d, b
    <3> QED BY <2>2, <3>1, <3>3
  <2>5. CASE c = "DO"
    <3> DEFINE d == "mine"
               b == TRUE
    <3>1. d \in Sides /\ b \in BOOLEAN /\ c = IF b THEN Agrees(d) ELSE Refuses(d)
      BY <2>5 DEF Sides, Agrees, Refuses
    <3>2. HostOption("mine", o, TRUE, "WILL", "WONT")
      BY <1>2, <2>1, <2>5, Hearing
    <3>3. HostOption(d, o, b, Asks(d), Denies(d))
      BY <3>2 DEF Asks, Denies
    <3> HIDE DEF d, b
    <3> QED BY <2>2, <3>1, <3>3
  <2>6. CASE c = "DONT"
    <3> DEFINE d == "mine"
               b == FALSE
    <3>1. d \in Sides /\ b \in BOOLEAN /\ c = IF b THEN Agrees(d) ELSE Refuses(d)
      BY <2>6 DEF Sides, Agrees, Refuses
    <3>2. HostOption("mine", o, FALSE, "WILL", "WONT")
      BY <1>2, <2>1, <2>6, Hearing
    <3>3. HostOption(d, o, b, Asks(d), Denies(d))
      BY <3>2 DEF Asks, Denies
    <3> HIDE DEF d, b
    <3> QED BY <2>2, <3>1, <3>3
  <2> QED BY <2>3, <2>4, <2>5, <2>6 DEF OptionCommand
<1>6. m \in OutTokens \/ m \in Extra \/ \E c \in OptionCommand, o \in Option : m = <<c, o>>
  BY <1>2 DEF Sent, Extra
<1> QED BY <1>3, <1>4, <1>5, <1>6

(* net_connected: nothing is agreed to and nothing is on its way. *)
LEMMA FirstState == HostInit => HInv
<1> SUFFICES ASSUME HostInit
             PROVE  HInv
  OBVIOUS
<1> DEFINE first == IF Lus > 0 THEN 1 ELSE 0
           h == h3270
<1>1. h3270 = [cstate |-> "CONNECTED_INITIAL", sock |-> TRUE, rest |-> FALSE,
               my |-> {}, his |-> {}, linemode |-> TRUE, tls |-> FALSE,
               negotiated |-> FALSE, submode |-> "E_NONE", bound |-> FALSE,
               funcs |-> OurFunctions, curr_lu |-> first, try_lu |-> first,
               syncing |-> FALSE, excepting |-> TRUE,
               response |-> "NO_RESPONSE", out |-> <<>>]
  BY DEF HostInit, NetConnected, SetupLus
<1>2. first \in 0 .. Lus
  BY LusAssumption
<1>3. OurFunctions \in SUBSET Function /\ <<>> \in Seq(Sent) /\ {} \in SUBSET Option
  BY DEF OurFunctions, Function
<1> HIDE DEF first
<1>4. h3270 \in Talking
  BY <1>1, <1>2, <1>3 DEF Talking, CState, ResponseFlag
<1>5. /\ h3270.my = {} /\ h3270.his = {} /\ h3270.negotiated = FALSE /\ h3270.out = <<>>
      /\ h3270.cstate = "CONNECTED_INITIAL"
  BY <1>1
<1>6. Decided(h3270)
  BY <1>5 DEF Decided
<1>7. /\ host = [yours |-> [o \in Option |-> "NO"], mine |-> [o \in Option |-> "NO"],
                 funcs |-> NoAgreement, starts |-> 0]
      /\ toHost = <<>> /\ toTerminal = <<>> /\ record = NoRecord
  BY DEF HostInit
<1>8. host \in HostState
  BY <1>7, HostAssumption DEF HostState, OptionState
<1>9. /\ host.funcs = NoAgreement
      /\ \A d \in Sides, o \in Option : host[d][o] = "NO"
  BY <1>7 DEF Sides
<1>10. \A K : None(<<>>, K)
  BY DEF None
<1>11. AllFit(h3270.my, h3270.his, host, toTerminal, toHost)
  <2> SUFFICES ASSUME NEW d \in Sides, NEW o \in Option
               PROVE  Line(d, o, host[d][o], o \in Table(h3270.my, h3270.his, d), toTerminal, toHost)
    BY DEF AllFit
  <2> DEFINE b == o \in Table(h3270.my, h3270.his, d)
  <2>1. b = FALSE /\ host[d][o] = "NO"
    BY <1>5, <1>9 DEF Table
  <2> HIDE DEF b
  <2>2. Line(d, o, host[d][o], b, toTerminal, toHost)
    BY <1>7, <1>10, <2>1 DEF Line, Fits, Turns
  <2> QED BY <2>2 DEF b
<1>12. TnFits(h3270.my, h3270.negotiated, h3270.funcs, host, toTerminal, toHost)
  <2> DEFINE b == "TN3270E" \in h3270.my
             y == TnState(host)
  <2>1. b = FALSE /\ y = "NO"
    BY <1>5, <1>9 DEF TnState, Sides
  <2> HIDE DEF b, y
  <2>2. FitsTn(y, b, h3270.negotiated, h3270.funcs, host.funcs, toTerminal, toHost)
    BY <1>7, <1>9, <1>10, <2>1 DEF FitsTn
  <2> QED BY <2>2 DEF TnFits, b, y
<1>13. toHost \in Seq(Sent) /\ toTerminal \in Seq(Told)
  BY <1>7
<1> QED BY <1>4, <1>5, <1>6, <1>7, <1>8, <1>11, <1>12, <1>13 DEF HInv, Joined

-----------------------------------------------------------------------------
(* When nothing is on its way. *)

(* Nothing is in an empty queue. *)
LEMMA QuietQueues ==
    \A K : /\ None(<<>>, K)
           /\ \A a, b, c : ~One(<<>>, K, a) /\ ~Two(<<>>, K, a, b) /\ ~Three(<<>>, K, a, b, c)
BY DEF None, One, Two, Three

(* With nothing on its way an option fits only if both ends know the same. *)
LEMMA QuietLine ==
    ASSUME NEW d \in Sides, NEW o \in Option, NEW y, NEW b \in BOOLEAN, Line(d, o, y, b, <<>>, <<>>)
    PROVE  y = Known(b)
<1> DEFINE yes == <<Asks(d), o>>
           no == <<Denies(d), o>>
           will == <<Agrees(d), o>>
           wont == <<Refuses(d), o>>
           q == <<>>
           w == Wanted(d, o)
           a == o \in Accepted
<1>1. Fits(y, b, w, a, q, q, yes, no, will, wont)
  BY DEF Line
<1>2. \A K : None(q, K) /\ \A x, z, t : ~One(q, K, x) /\ ~Two(q, K, x, z) /\ ~Three(q, K, x, z, t)
  BY QuietQueues
<1> HIDE DEF yes, no, will, wont, q, w, a
<1>3. ~Crossed(y, b, q, q, yes, no, will, wont) /\ ~Declined(y, b, q, q, yes, no, will, wont)
  <2>1. \A K, x, z, t : ~One(q, K, x) /\ ~Two(q, K, x, z) /\ ~Three(q, K, x, z, t)
    BY <1>2
  <2>2. ~Crossed(y, b, q, q, yes, no, will, wont)
    BY <2>1 DEF Crossed
  <2>3. ~Declined(y, b, q, q, yes, no, will, wont)
    BY <2>1 DEF Declined
  <2> QED BY <2>2, <2>3
<1>4. Turns(y, b, q, q, yes, no, will, wont)
  BY <1>1, <1>2, <1>3, Zenon DEF Fits
<1>5. (y = "NO" /\ ~b) \/ (y = "YES" /\ b)
  BY <1>2, <1>4, Zenon DEF Turns
<1> QED BY <1>5 DEF Known

(* With nothing on its way TN3270E fits only if both ends know the same, *)
(* also of the functions.                                                *)
LEMMA QuietTn ==
    ASSUME NEW y, NEW b \in BOOLEAN, NEW n \in BOOLEAN, NEW f, NEW g, FitsTn(y, b, n, f, g, <<>>, <<>>)
    PROVE  y = Known(b) /\ g = IF b /\ n THEN f ELSE NoAgreement
BY QuietQueues DEF FitsTn, Exchange, Known

(* The invariant implies Agreement. *)
LEMMA InvariantAgrees == HInv => Agreement
<1> SUFFICES ASSUME HInv
             PROVE  Agreement
  OBVIOUS
<1>1. h3270 \in Session
  <2>1. h3270 \in Talking /\ h3270.out = <<>>
    BY DEF HInv
  <2> QED BY <2>1 DEF Talking, Session, Submode
<1>2. HostTypeOK
  BY <1>1 DEF HInv, HostTypeOK, TypeOK, Record, NoRecord, ResponseFlag
<1>3. ASSUME Quiescent, NEW d \in Sides, NEW o \in Option, Covered(d, o)
      PROVE  host[d][o] = Known(o \in Table(h3270.my, h3270.his, d))
  <2> DEFINE b == o \in Table(h3270.my, h3270.his, d)
  <2>1. Line(d, o, host[d][o], b, toTerminal, toHost) /\ b \in BOOLEAN
    BY <1>3 DEF HInv, Joined, AllFit
  <2> HIDE DEF b
  <2>2. Line(d, o, host[d][o], b, <<>>, <<>>)
    BY <1>3, <2>1 DEF Quiescent
  <2>3. host[d][o] = Known(b)
    BY <2>1, <2>2, QuietLine
  <2> QED BY <2>3 DEF b
<1>4. ASSUME Quiescent
      PROVE  /\ "TN3270E" \in Option => host.yours["TN3270E"] = Known("TN3270E" \in h3270.my)
             /\ host.funcs = IF "TN3270E" \in h3270.my /\ h3270.negotiated THEN h3270.funcs ELSE NoAgreement
  <2> DEFINE b == "TN3270E" \in h3270.my
             y == TnState(host)
  <2>1. /\ FitsTn(y, b, h3270.negotiated, h3270.funcs, host.funcs, toTerminal, toHost)
        /\ b \in BOOLEAN /\ h3270.negotiated \in BOOLEAN
    BY SessionFacts DEF HInv, Joined, TnFits
  <2>2. "TN3270E" \in Option => y = host.yours["TN3270E"]
    BY DEF TnState
  <2> HIDE DEF b, y
  <2>3. FitsTn(y, b, h3270.negotiated, h3270.funcs, host.funcs, <<>>, <<>>)
    BY <1>4, <2>1 DEF Quiescent
  <2>4. y = Known(b) /\ host.funcs = IF b /\ h3270.negotiated THEN h3270.funcs ELSE NoAgreement
    BY <2>1, <2>3, QuietTn
  <2> QED BY <2>2, <2>4 DEF b
<1>5. OptionsAgree
  <2> SUFFICES ASSUME Quiescent
               PROVE  /\ \A o \in Option \ {"TM"} : host.yours[o] = Known(o \in h3270.my)
                      /\ \A o \in Option : host.mine[o] = Known(o \in h3270.his)
    BY DEF OptionsAgree
  <2>1. ASSUME NEW o \in Option \ {"TM"}
        PROVE  host.yours[o] = Known(o \in h3270.my)
    <3>1. CASE o = "TN3270E"
      BY <1>4, <3>1
    <3>2. CASE o # "TN3270E"
      <4>1. "yours" \in Sides /\ Covered("yours", o) /\ Table(h3270.my, h3270.his, "yours") = h3270.my
        BY <3>2 DEF Sides, Covered, Table
      <4> QED BY <1>3, <4>1
    <3> QED BY <3>1, <3>2
  <2>2. ASSUME NEW o \in Option
        PROVE  host.mine[o] = Known(o \in h3270.his)
    <3>1. "mine" \in Sides /\ Covered("mine", o) /\ Table(h3270.my, h3270.his, "mine") = h3270.his
      BY DEF Sides, Covered, Table
    <3> QED BY <1>3, <3>1
  <2> QED BY <2>1, <2>2
<1>6. FunctionsAgree
  BY <1>4 DEF FunctionsAgree
<1> QED BY <1>2, <1>5, <1>6 DEF Agreement

(* The two ends of a quiet connection know the same: every option and the  *)
(* functions of TN3270E, whoever asked, volunteered, refused or backed off *)
(* and however the messages crossed (telnet_fsm, tn3270e_negotiate,        *)
(* backoff_tn3270e).                                                       *)
THEOREM EndsAgree == HostSpec => []Agreement
<1>1. HInv /\ [HostNext]_hostVars => HInv'
  <2>1. HInv /\ UNCHANGED hostVars => HInv'
    BY DEF hostVars, HInv
  <2> QED BY <2>1, StartsStep, ReceivesStep, HandledStep DEF HostNext
<1> QED BY <1>1, FirstState, InvariantAgrees, PTL DEF HostSpec
=============================================================================
