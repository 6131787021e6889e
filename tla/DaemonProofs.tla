---------------------------- MODULE DaemonProofs ----------------------------
(***************************************************************************)
(* Theorems about Daemon, for every configuration, number of clients,      *)
(* reload and fault: what the limiter admits, what a reload keeps, and     *)
(* what a shutdown leaves behind.                                          *)
(***************************************************************************)
EXTENDS Daemon, SequenceTheorems, TLAPS

----------------------------------------------------------------------------
(* The limiter: its deques and the history of what was admitted.           *)
(* LimiterInv is inductive over the limiter's operations and implies       *)
(* WindowHolds.                                                            *)

\* Times in the order of the clock.
Ordered(A, now) ==
    /\ \A i, j \in 1 .. Len(A) : i <= j => A[i] <= A[j]
    /\ \A i \in 1 .. Len(A) : A[i] <= now

\* The deque T ends as the history A does, and what A has before that is not after since.
Follows(T, A, since) ==
    /\ \A j \in 0 .. Len(T) - 1 : j < Len(A) => T[Len(T) - j] = A[Len(A) - j]
    /\ Len(T) < Len(A) => A[Len(A) - Len(T)] <= since

\* Any limit + 1 consecutive entries span a window.
Spaced(A, limit, window) ==
    \A i \in DOMAIN A : i > limit => A[i] - A[i - limit] >= window

DequeInv(kind, c) ==
    /\ Ordered(admitted[kind][c], clock)
    /\ Follows(counters[kind][c], admitted[kind][c], clock - Window)

LimiterInv ==
    /\ LimiterTypeOK
    /\ \A kind \in Kinds : \A c \in Clients : DequeInv(kind, c)
    /\ WindowHolds

LimiterStep ==
    \/ \E kind \in Kinds, c \in Clients : Admit(kind, c) \/ Refuse(kind, c)
    \/ \E new \in Configs : Reconfigure(new)
    \/ Tick
    \/ UNCHANGED limiterVars

----------------------------------------------------------------------------
(* Sequences *)

\* What popping from the left leaves.
LEMMA WithoutFacts ==
  ASSUME NEW T \in Seq(Nat), NEW n \in 0 .. Len(T)
  PROVE  /\ Without(T, n) \in Seq(Nat)
         /\ Len(Without(T, n)) = Len(T) - n
         /\ \A i \in 1 .. Len(T) - n : Without(T, n)[i] = T[n + i]
<1>1. \A i \in n + 1 .. Len(T) : T[i] \in Nat
  OBVIOUS
<1>2. /\ SubSeq(T, n + 1, Len(T)) \in Seq(Nat)
      /\ Len(SubSeq(T, n + 1, Len(T))) = IF n + 1 <= Len(T) THEN Len(T) - (n + 1) + 1 ELSE 0
      /\ \A i \in 1 .. Len(T) - (n + 1) + 1 : SubSeq(T, n + 1, Len(T))[i] = T[n + 1 + i - 1]
  BY <1>1, SubSeqProperties
<1>3. QED
  BY <1>2 DEF Without

\* Popping entries older than since keeps the deque with its history.
LEMMA PopFollows ==
  ASSUME NEW T \in Seq(Nat), NEW A \in Seq(Nat), NEW since \in Int, Follows(T, A, since),
         NEW n \in 0 .. Len(T), \A i \in 1 .. n : T[i] < since
  PROVE  Follows(Without(T, n), A, since)
<1> DEFINE P == Without(T, n)
<1>1. P \in Seq(Nat) /\ Len(P) = Len(T) - n /\ \A i \in 1 .. Len(T) - n : P[i] = T[n + i]
  BY WithoutFacts
<1> HIDE DEF P
<1>2. ASSUME NEW j \in 0 .. Len(P) - 1, j < Len(A)
      PROVE  P[Len(P) - j] = A[Len(A) - j]
  <2>1. Len(P) - j \in 1 .. Len(T) - n /\ j \in 0 .. Len(T) - 1
    BY <1>1, <1>2
  <2>2. P[Len(P) - j] = T[n + (Len(P) - j)]
    BY <1>1, <2>1
  <2>3. n + (Len(P) - j) = Len(T) - j
    BY <1>1, <1>2
  <2>4. QED
    BY <1>2, <2>1, <2>2, <2>3 DEF Follows
<1>3. ASSUME Len(P) < Len(A)
      PROVE  A[Len(A) - Len(P)] <= since
  <2>1. CASE n = 0
    BY <1>1, <1>3, <2>1 DEF Follows
  <2>2. CASE n > 0
    <3>1. Len(P) \in 0 .. Len(T) - 1 /\ Len(T) - Len(P) = n
      BY <1>1, <2>2
    <3>2. T[n] = A[Len(A) - Len(P)]
      BY <1>3, <3>1 DEF Follows
    <3>3. T[n] < since /\ T[n] \in Nat
      BY <2>2
    <3>4. QED
      BY <3>2, <3>3
  <2>3. QED
    BY <2>1, <2>2
<1>4. QED
  BY <1>2, <1>3 DEF Follows, P

\* Forgetting a deque whose last entry is not after since does, too.
LEMMA ForgetFollows ==
  ASSUME NEW T \in Seq(Nat), NEW A \in Seq(Nat), NEW since \in Int, Follows(T, A, since),
         T # << >> => T[Len(T)] <= since
  PROVE  Follows(<< >>, A, since)
<1>1. CASE T = << >>
  BY <1>1
<1>2. CASE T # << >> /\ Len(A) > 0
  <2>1. 0 \in 0 .. Len(T) - 1
    BY <1>2
  <2>2. T[Len(T) - 0] = A[Len(A) - 0]
    BY <1>2, <2>1 DEF Follows
  <2>3. A[Len(A) - 0] <= since
    BY <1>2, <2>2
  <2>4. QED
    BY <2>3 DEF Follows
<1>3. CASE Len(A) = 0
  BY <1>3 DEF Follows
<1>4. QED
  BY <1>1, <1>2, <1>3

\* So does recording a request in both.
LEMMA AppendFollows ==
  ASSUME NEW T \in Seq(Nat), NEW A \in Seq(Nat), NEW since \in Int, Follows(T, A, since),
         NEW now \in Nat
  PROVE  Follows(Append(T, now), Append(A, now), since)
<1> DEFINE U == Append(T, now)
<1> DEFINE B == Append(A, now)
<1>1. Len(U) = Len(T) + 1 /\ U[Len(T) + 1] = now /\ \A i \in 1 .. Len(T) : U[i] = T[i]
  OBVIOUS
<1>2. Len(B) = Len(A) + 1 /\ B[Len(A) + 1] = now /\ \A i \in 1 .. Len(A) : B[i] = A[i]
  OBVIOUS
<1> HIDE DEF U, B
<1>3. ASSUME NEW j \in 0 .. Len(U) - 1, j < Len(B)
      PROVE  U[Len(U) - j] = B[Len(B) - j]
  <2>1. CASE j = 0
    BY <1>1, <1>2, <2>1
  <2>2. CASE j > 0
    <3>1. j - 1 \in 0 .. Len(T) - 1 /\ j - 1 < Len(A)
      BY <1>1, <1>2, <1>3, <2>2
    <3>2. T[Len(T) - (j - 1)] = A[Len(A) - (j - 1)]
      BY <3>1 DEF Follows
    <3>3. Len(T) - (j - 1) = Len(U) - j /\ Len(A) - (j - 1) = Len(B) - j
      BY <1>1, <1>2
    <3>4. Len(U) - j \in 1 .. Len(T) /\ Len(B) - j \in 1 .. Len(A)
      BY <1>1, <1>2, <1>3, <2>2
    <3>5. QED
      BY <1>1, <1>2, <3>2, <3>3, <3>4
  <2>3. QED
    BY <2>1, <2>2
<1>4. ASSUME Len(U) < Len(B)
      PROVE  B[Len(B) - Len(U)] <= since
  <2>1. Len(B) - Len(U) = Len(A) - Len(T) /\ Len(A) - Len(T) \in 1 .. Len(A)
    BY <1>1, <1>2, <1>4
  <2>2. A[Len(A) - Len(T)] <= since
    BY <2>1 DEF Follows
  <2>3. B[Len(A) - Len(T)] = A[Len(A) - Len(T)]
    BY <1>2, <2>1
  <2>4. QED
    BY <2>1, <2>2, <2>3
<1>5. QED
  BY <1>3, <1>4 DEF Follows, U, B

\* A history stays in order when the present time is added.
LEMMA AppendOrdered ==
  ASSUME NEW A \in Seq(Nat), NEW now \in Nat, Ordered(A, now)
  PROVE  Ordered(Append(A, now), now)
<1> DEFINE B == Append(A, now)
<1>1. Len(B) = Len(A) + 1 /\ B[Len(A) + 1] = now /\ \A i \in 1 .. Len(A) : B[i] = A[i]
  OBVIOUS
<1> HIDE DEF B
<1>2. QED
  BY <1>1 DEF Ordered, B

\* With less than the limit in the deque, one more keeps the history spaced.
LEMMA AppendSpaced ==
  ASSUME NEW T \in Seq(Nat), NEW A \in Seq(Nat), NEW now \in Nat,
         NEW limit \in Nat \ {0}, NEW window \in Nat,
         Ordered(A, now), Spaced(A, limit, window), Follows(T, A, now - window),
         Len(T) < limit
  PROVE  Spaced(Append(A, now), limit, window)
<1> DEFINE B == Append(A, now)
<1>1. /\ DOMAIN B = 1 .. Len(A) + 1 /\ DOMAIN A = 1 .. Len(A)
      /\ B[Len(A) + 1] = now /\ \A i \in 1 .. Len(A) : B[i] = A[i]
  OBVIOUS
<1> HIDE DEF B
<1>2. ASSUME NEW i \in DOMAIN B, i > limit
      PROVE  B[i] - B[i - limit] >= window
  <2>1. CASE i \in 1 .. Len(A)
    <3>1. i - limit \in 1 .. Len(A)
      BY <1>2, <2>1
    <3>2. QED
      BY <1>1, <1>2, <2>1, <3>1 DEF Spaced
  <2>2. CASE i = Len(A) + 1
    <3>1. /\ i - limit \in 1 .. Len(A) /\ Len(A) - Len(T) \in 1 .. Len(A)
          /\ i - limit <= Len(A) - Len(T)
      BY <1>2, <2>2
    <3>2. A[i - limit] <= A[Len(A) - Len(T)]
      BY <3>1 DEF Ordered
    <3>3. A[Len(A) - Len(T)] <= now - window
      BY <3>1 DEF Follows
    <3>4. A[i - limit] \in Nat /\ A[Len(A) - Len(T)] \in Nat
      <4>1. \A j \in 1 .. Len(A) : A[j] \in Nat
        OBVIOUS
      <4>2. QED
        BY <3>1, <4>1
    <3>5. B[i] = now /\ B[i - limit] = A[i - limit]
      BY <1>1, <2>2, <3>1
    <3>6. QED
      BY <3>2, <3>3, <3>4, <3>5
  <2>3. QED
    BY <1>1, <2>1, <2>2
<1>3. QED
  BY <1>2 DEF Spaced, B

----------------------------------------------------------------------------
(* The operations *)

LEMMA LimitFacts ==
  ASSUME LimiterTypeOK
  PROVE  /\ \A kind \in Kinds : Limit(kind) \in Nat \ {0}
         /\ Window \in Nat
BY LimiterAssumption DEF LimiterTypeOK, Limit, Window, Kinds

\* Retry-After is a number of seconds, whatever is in the deque.
LEMMA WholeSeconds ==
  ASSUME NEW T, T[1] \in Nat, clock \in Nat, Window \in Nat
  PROVE  RetryAfter(T) \in Nat
<1> DEFINE wait == Window - (clock - T[1])
<1> DEFINE secs == (wait + Second - 1) \div Second
<1>1. Second \in Nat \ {0}
  BY LimiterAssumption
<1>2. wait \in Int
  OBVIOUS
<1> HIDE DEF wait
<1>3. secs \in Int
  BY <1>1, <1>2
<1> HIDE DEF secs
<1>4. secs >= 1 => secs * Second \in Nat
  BY <1>1, <1>3
<1>5. RetryAfter(T) = IF secs < 1 THEN Second ELSE secs * Second
  BY DEF RetryAfter, secs, wait
<1>6. QED
  BY <1>1, <1>3, <1>4, <1>5

\* A deque is one of those of its client and kind.
LEMMA DequeFacts ==
  ASSUME LimiterTypeOK, NEW kind \in Kinds, NEW c \in Clients
  PROVE  /\ counters[kind][c] \in Seq(Nat) /\ admitted[kind][c] \in Seq(Nat)
         /\ Cleaned[kind][c] \in {<< >>, counters[kind][c]}
         /\ Cleaned \in PerClient(Seq(Nat))
<1>1. << >> \in Seq(Nat)
  OBVIOUS
<1>2. QED
  BY <1>1 DEF LimiterTypeOK, PerClient, Cleaned

\* A clean-up keeps every deque with its history.
LEMMA CleanupFollows ==
  ASSUME LimiterInv, NEW kind \in Kinds, NEW c \in Clients
  PROVE  Follows(Cleaned[kind][c], admitted[kind][c], clock - Window)
<1> DEFINE T == counters[kind][c]
<1> DEFINE A == admitted[kind][c]
<1>1. T \in Seq(Nat) /\ A \in Seq(Nat)
  BY DequeFacts DEF LimiterInv
<1>2. clock \in Nat /\ Window \in Nat
  BY LimitFacts DEF LimiterInv, LimiterTypeOK
<1>3. Follows(T, A, clock - Window)
  BY DEF LimiterInv, DequeInv
<1>4. CASE ~(CleanupDue /\ Stale(T))
  <2>1. Cleaned[kind][c] = T
    BY <1>4 DEF Cleaned, LimiterInv, LimiterTypeOK, PerClient
  <2>2. QED
    BY <1>3, <2>1
<1>5. CASE CleanupDue /\ Stale(T)
  <2>1. Cleaned[kind][c] = << >>
    BY <1>5 DEF Cleaned
  <2>2. T # << >> => T[Len(T)] <= clock - Window
    <3>1. T # << >> => T[Len(T)] \in Nat
      BY <1>1
    <3>2. T # << >> => clock - T[Len(T)] >= Window
      BY <1>5 DEF Stale
    <3>3. QED
      BY <1>2, <3>1, <3>2
  <2>3. Follows(<< >>, A, clock - Window)
    BY <1>1, <1>2, <1>3, <2>2, ForgetFollows
  <2>4. QED
    BY <2>1, <2>3
<1>6. QED
  BY <1>4, <1>5

\* What a check pops then, too.
LEMMA PoppedFollows ==
  ASSUME LimiterInv, NEW kind \in Kinds, NEW c \in Clients,
         NEW n \in Popped(Cleaned[kind][c])
  PROVE  /\ Without(Cleaned[kind][c], n) \in Seq(Nat)
         /\ Follows(Without(Cleaned[kind][c], n), admitted[kind][c], clock - Window)
<1> DEFINE T == Cleaned[kind][c]
<1>1. T \in Seq(Nat) /\ admitted[kind][c] \in Seq(Nat)
  <2>1. << >> \in Seq(Nat)
    OBVIOUS
  <2>2. QED
    BY <2>1, DequeFacts DEF LimiterInv
<1>2. n \in 0 .. Len(T) /\ \A i \in 1 .. n : T[i] < clock - Window
  BY DEF Popped
<1>3. clock - Window \in Int
  BY LimitFacts DEF LimiterInv, LimiterTypeOK
<1>4. Follows(T, admitted[kind][c], clock - Window)
  BY CleanupFollows
<1> HIDE DEF T
<1>5. QED
  BY <1>1, <1>2, <1>3, <1>4, WithoutFacts, PopFollows DEF T

\* An admitted request keeps the invariant: the window still holds every admission of the last
\* window length, and with fewer than the limit of them the new one fits.
LEMMA AdmitKeeps ==
  ASSUME LimiterInv, NEW kind \in Kinds, NEW c \in Clients, Admit(kind, c)
  PROVE  LimiterInv'
<1>1. PICK n \in Popped(Cleaned[kind][c]) :
        /\ Len(Without(Cleaned[kind][c], n)) < Limit(kind)
        /\ counters' = [Cleaned EXCEPT ![kind][c] = Append(Without(Cleaned[kind][c], n), clock)]
  BY DEF Admit
<1> DEFINE T == Without(Cleaned[kind][c], n)
<1> DEFINE A == admitted[kind][c]
<1>2. T \in Seq(Nat) /\ Follows(T, A, clock - Window) /\ Len(T) < Limit(kind)
  BY <1>1, PoppedFollows
<1>3. /\ A \in Seq(Nat) /\ Cleaned \in PerClient(Seq(Nat))
      /\ clock \in Nat /\ Window \in Nat /\ Limit(kind) \in Nat \ {0}
  BY DequeFacts, LimitFacts DEF LimiterInv, LimiterTypeOK
<1>4. Ordered(A, clock) /\ Spaced(A, Limit(kind), Window)
  BY DEF LimiterInv, DequeInv, WindowHolds, Spaced
<1> HIDE DEF T, A
<1>5. /\ counters' = [Cleaned EXCEPT ![kind][c] = Append(T, clock)]
      /\ admitted' = [admitted EXCEPT ![kind][c] = Append(A, clock)]
  BY <1>1 DEF Admit, T, A
<1>6. clock' = clock /\ config' = config /\ changed' = changed
  BY DEF Admit
<1>7. Window' = Window /\ \A k \in Kinds : Limit(k)' = Limit(k)
  BY <1>6 DEF Window, Limit
<1>8. LimiterTypeOK'
  <2>1. Append(T, clock) \in Seq(Nat) /\ Append(A, clock) \in Seq(Nat)
    BY <1>2, <1>3
  <2>2. counters' \in PerClient(Seq(Nat)) /\ admitted' \in PerClient(Seq(Nat))
    BY <1>3, <1>5, <2>1 DEF PerClient, LimiterInv, LimiterTypeOK
  <2>3. told' \in PerClient(Nat \cup {None})
    BY DEF Admit, PerClient, LimiterInv, LimiterTypeOK
  <2>4. lastCleanup' \in Nat /\ lastCleanup' <= clock'
    BY <1>6 DEF Admit, Cleanup, LimiterInv, LimiterTypeOK
  <2>5. QED
    BY <1>6, <2>2, <2>3, <2>4 DEF LimiterInv, LimiterTypeOK
<1>9. ASSUME NEW k \in Kinds, NEW d \in Clients
      PROVE  DequeInv(k, d)' /\ Spaced(admitted'[k][d], Limit(k), Window)
  <2>1. CASE k = kind /\ d = c
    <3>1. counters'[k][d] = Append(T, clock) /\ admitted'[k][d] = Append(A, clock)
      BY <1>3, <1>5, <2>1 DEF PerClient, LimiterInv, LimiterTypeOK
    <3>2. Follows(Append(T, clock), Append(A, clock), clock - Window)
      BY <1>2, <1>3, AppendFollows
    <3>3. Ordered(Append(A, clock), clock)
      BY <1>3, <1>4, AppendOrdered
    <3>4. Spaced(Append(A, clock), Limit(kind), Window)
      BY <1>2, <1>3, <1>4, AppendSpaced
    <3>5. QED
      BY <1>6, <1>7, <2>1, <3>1, <3>2, <3>3, <3>4 DEF DequeInv
  <2>2. CASE ~(k = kind /\ d = c)
    <3>1. counters'[k][d] = Cleaned[k][d] /\ admitted'[k][d] = admitted[k][d]
      BY <1>3, <1>5, <2>2 DEF PerClient, LimiterInv, LimiterTypeOK
    <3>2. Follows(Cleaned[k][d], admitted[k][d], clock - Window)
      BY CleanupFollows
    <3>3. Ordered(admitted[k][d], clock) /\ Spaced(admitted[k][d], Limit(k), Window)
      BY DEF LimiterInv, DequeInv, WindowHolds, Spaced
    <3>4. QED
      BY <1>6, <1>7, <3>1, <3>2, <3>3 DEF DequeInv
  <2>3. QED
    BY <2>1, <2>2
<1>10. WindowHolds'
  BY <1>7, <1>9 DEF WindowHolds, Spaced
<1>11. QED
  BY <1>8, <1>9, <1>10 DEF LimiterInv

\* A refused request records nothing but may free what is too old.
LEMMA RefuseKeeps ==
  ASSUME LimiterInv, NEW kind \in Kinds, NEW c \in Clients, Refuse(kind, c)
  PROVE  LimiterInv'
<1>1. PICK n \in Popped(Cleaned[kind][c]) :
        /\ Len(Without(Cleaned[kind][c], n)) >= Limit(kind)
        /\ counters' = [Cleaned EXCEPT ![kind][c] = Without(Cleaned[kind][c], n)]
        /\ told' = IF told[kind][c] = None /\ Steady
                     THEN [told EXCEPT ![kind][c] =
                             clock + RetryAfter(Without(Cleaned[kind][c], n))]
                     ELSE told
  BY DEF Refuse
<1> DEFINE T == Without(Cleaned[kind][c], n)
<1>2. T \in Seq(Nat) /\ Follows(T, admitted[kind][c], clock - Window) /\ Len(T) >= Limit(kind)
  BY <1>1, PoppedFollows
<1>3. Cleaned \in PerClient(Seq(Nat)) /\ clock \in Nat /\ Window \in Nat
  BY DequeFacts, LimitFacts DEF LimiterInv, LimiterTypeOK
<1> HIDE DEF T
<1>4. counters' = [Cleaned EXCEPT ![kind][c] = T]
  BY <1>1 DEF T
<1>5. clock' = clock /\ config' = config /\ changed' = changed /\ admitted' = admitted
  BY DEF Refuse
<1>6. Window' = Window /\ \A k \in Kinds : Limit(k)' = Limit(k)
  BY <1>5 DEF Window, Limit
<1>7. LimiterTypeOK'
  <2>1. counters' \in PerClient(Seq(Nat))
    BY <1>2, <1>3, <1>4 DEF PerClient
  <2>2. told' \in PerClient(Nat \cup {None})
    <3>1. T # << >>
      BY <1>2, LimitFacts DEF LimiterInv
    <3>2. T[1] \in Nat
      BY <1>2, <3>1
    <3>3. RetryAfter(T) \in Nat
      BY <1>3, <3>2, WholeSeconds
    <3>4. told \in PerClient(Nat \cup {None})
      BY DEF LimiterInv, LimiterTypeOK
    <3>5. clock + RetryAfter(T) \in Nat
      BY <1>3, <3>3
    <3>6. QED
      BY <1>1, <3>4, <3>5 DEF PerClient, T
  <2>3. lastCleanup' \in Nat /\ lastCleanup' <= clock'
    BY <1>5 DEF Refuse, Cleanup, LimiterInv, LimiterTypeOK
  <2>4. QED
    BY <1>5, <2>1, <2>2, <2>3 DEF LimiterInv, LimiterTypeOK
<1>8. ASSUME NEW k \in Kinds, NEW d \in Clients
      PROVE  DequeInv(k, d)'
  <2>1. Follows(counters'[k][d], admitted[k][d], clock - Window)
    <3>1. CASE k = kind /\ d = c
      <4>1. counters'[k][d] = T
        BY <1>3, <1>4, <3>1 DEF PerClient
      <4>2. QED
        BY <1>2, <3>1, <4>1
    <3>2. CASE ~(k = kind /\ d = c)
      <4>1. counters'[k][d] = Cleaned[k][d]
        BY <1>3, <1>4, <3>2 DEF PerClient
      <4>2. QED
        BY <4>1, CleanupFollows
    <3>3. QED
      BY <3>1, <3>2
  <2>2. QED
    BY <1>5, <1>6, <2>1 DEF DequeInv, LimiterInv
<1>9. WindowHolds'
  BY <1>5, <1>6 DEF WindowHolds, LimiterInv
<1>10. QED
  BY <1>7, <1>8, <1>9 DEF LimiterInv

\* A new configuration begins a new history.
LEMMA ReconfigureKeeps ==
  ASSUME LimiterInv, NEW new \in Configs, Reconfigure(new)
  PROVE  LimiterInv'
<1>1. /\ << >> \in Seq(Nat) /\ clock \in Nat
      /\ \A k \in Kinds, d \in Clients :
            /\ admitted'[k][d] = << >> /\ counters[k][d] \in Seq(Nat)
            /\ Len(counters[k][d]) \in Nat
  BY DequeFacts DEF Reconfigure, Everywhere, LimiterInv, LimiterTypeOK
<1>2. LimiterTypeOK'
  BY <1>1 DEF Reconfigure, Everywhere, PerClient, LimiterInv, LimiterTypeOK
<1>3. ASSUME NEW k \in Kinds, NEW d \in Clients
      PROVE  DequeInv(k, d)'
  <2>1. Ordered(<< >>, clock')
    BY DEF Ordered
  <2>2. Len(<< >>) = 0 /\ ~(Len(counters[k][d]) < 0)
    BY <1>1
  <2>3. Follows(counters[k][d], << >>, (clock - Window)')
    BY <1>1, <2>2 DEF Follows
  <2>4. QED
    BY <1>1, <2>1, <2>3 DEF DequeInv, Reconfigure
<1>4. WindowHolds'
  BY <1>1 DEF WindowHolds
<1>5. QED
  BY <1>2, <1>3, <1>4 DEF LimiterInv

\* Time only makes what was let go older.
LEMMA TickKeeps ==
  ASSUME LimiterInv, Tick
  PROVE  LimiterInv'
<1>1. /\ clock' = clock + 1 /\ clock \in Nat
      /\ config' = config /\ counters' = counters /\ admitted' = admitted
      /\ changed' = changed /\ told' = told /\ lastCleanup' = lastCleanup
  BY DEF Tick, deques, LimiterInv, LimiterTypeOK
<1>2. Window' = Window /\ Window \in Nat /\ \A k \in Kinds : Limit(k)' = Limit(k)
  BY <1>1, LimitFacts DEF Window, Limit, LimiterInv
<1>3. LimiterTypeOK'
  BY <1>1 DEF LimiterInv, LimiterTypeOK
<1>4. ASSUME NEW k \in Kinds, NEW d \in Clients
      PROVE  DequeInv(k, d)'
  <2> DEFINE A == admitted[k][d]
  <2> DEFINE T == counters[k][d]
  <2>1. A \in Seq(Nat) /\ T \in Seq(Nat)
    BY DequeFacts DEF LimiterInv
  <2>2. Ordered(A, clock) /\ Follows(T, A, clock - Window)
    BY DEF LimiterInv, DequeInv
  <2> HIDE DEF A, T
  <2>3. Ordered(A, clock + 1)
    BY <1>1, <2>1, <2>2 DEF Ordered
  <2>4. Follows(T, A, clock + 1 - Window)
    <3>1. Len(T) \in Nat /\ Len(A) \in Nat
      BY <2>1
    <3>2. ASSUME Len(T) < Len(A)
          PROVE  A[Len(A) - Len(T)] <= clock + 1 - Window
      <4>1. Len(A) - Len(T) \in 1 .. Len(A)
        BY <3>1, <3>2
      <4>2. A[Len(A) - Len(T)] \in Nat
        BY <2>1, <4>1
      <4>3. A[Len(A) - Len(T)] <= clock - Window
        BY <2>2, <3>2 DEF Follows
      <4>4. QED
        BY <1>1, <1>2, <4>2, <4>3
    <3>3. QED
      BY <2>2, <3>2 DEF Follows
  <2>5. QED
    BY <1>1, <1>2, <2>3, <2>4 DEF DequeInv, A, T
<1>5. WindowHolds'
  BY <1>1, <1>2 DEF WindowHolds, LimiterInv
<1>6. QED
  BY <1>3, <1>4, <1>5 DEF LimiterInv

\* A step that leaves the limiter alone keeps its invariant.
LEMMA UnchangedKeeps ==
  ASSUME LimiterInv, UNCHANGED limiterVars
  PROVE  LimiterInv'
<1>1. /\ clock' = clock /\ config' = config /\ counters' = counters
      /\ lastCleanup' = lastCleanup /\ admitted' = admitted /\ changed' = changed
      /\ told' = told
  BY DEF limiterVars
<1>2. Window' = Window /\ \A k \in Kinds : Limit(k)' = Limit(k)
  BY <1>1 DEF Window, Limit
<1>3. QED
  BY <1>1, <1>2 DEF LimiterInv, LimiterTypeOK, DequeInv, WindowHolds

\* No operation of the limiter breaks the invariant.
LEMMA LimiterStepKeeps == LimiterInv /\ LimiterStep => LimiterInv'
BY AdmitKeeps, RefuseKeeps, ReconfigureKeeps, TickKeeps, UnchangedKeeps DEF LimiterStep

\* A limiter without a request satisfies it.
LEMMA LimiterInitInv == LimiterInit => LimiterInv
<1> SUFFICES ASSUME LimiterInit PROVE LimiterInv
  OBVIOUS
<1>1. << >> \in Seq(Nat) /\ Len(<< >>) = 0 /\ DOMAIN << >> = {}
  OBVIOUS
<1>2. LimiterTypeOK
  BY <1>1 DEF LimiterInit, LimiterTypeOK, PerClient, Everywhere
<1>3. \A k \in Kinds, d \in Clients : counters[k][d] = << >> /\ admitted[k][d] = << >>
  BY DEF LimiterInit, Everywhere
<1>4. \A k \in Kinds, d \in Clients : DequeInv(k, d)
  BY <1>3 DEF DequeInv, Ordered, Follows
<1>5. WindowHolds
  BY <1>1, <1>3 DEF WindowHolds
<1>6. QED
  BY <1>2, <1>4, <1>5 DEF LimiterInv

----------------------------------------------------------------------------
(* Retry-After *)

\* Of a deque T at time now: what it holds beyond the limit is not after the last change of
\* the limit (since), and a client told to return at until has a deque within the limit,
\* the oldest entry of which, if it is full, is out of the window by then.
Awaits(T, now, limit, window, since, until) ==
    /\ Ordered(T, now)
    /\ Len(T) > limit => since # None /\ T[Len(T) - limit] <= since
    /\ until # None =>
         /\ Len(T) <= limit
         /\ Len(T) = limit => T[1] + window <= until

RetryInv ==
    /\ changed # None => changed <= clock
    /\ \A kind \in Kinds : \A c \in Clients :
         Awaits(counters[kind][c], clock, Limit(kind), Window, changed, told[kind][c])

\* Rounding up to whole seconds never promises too much.
LEMMA RoundsUp ==
  ASSUME NEW T, T[1] \in Nat, clock \in Nat, Window \in Nat
  PROVE  clock + RetryAfter(T) >= T[1] + Window
<1> DEFINE wait == Window - (clock - T[1])
<1> DEFINE secs == (wait + Second - 1) \div Second
<1>1. Second \in Nat \ {0}
  BY LimiterAssumption
<1>2. wait \in Int /\ clock + wait = T[1] + Window
  OBVIOUS
<1> HIDE DEF wait
<1>3. secs \in Int /\ secs * Second >= wait
  BY <1>1, <1>2
<1>4. RetryAfter(T) = IF secs < 1 THEN Second ELSE secs * Second
  BY DEF RetryAfter, secs, wait
<1> HIDE DEF secs
<1>5. CASE secs < 1
  <2>1. secs * Second <= 0
    BY <1>1, <1>3, <1>5
  <2>2. QED
    BY <1>1, <1>2, <1>3, <1>4, <1>5, <2>1
<1>6. CASE ~(secs < 1)
  BY <1>1, <1>2, <1>3, <1>4, <1>6
<1>7. QED
  BY <1>5, <1>6

\* An empty deque promises nothing.
LEMMA EmptyAwaits ==
  ASSUME NEW now, NEW limit \in Nat \ {0}, NEW window, NEW since, NEW until
  PROVE  Awaits(<< >>, now, limit, window, since, until)
<1>1. Len(<< >>) = 0
  OBVIOUS
<1>2. QED
  BY <1>1 DEF Awaits, Ordered

\* A deque from which n entries are popped is still in order.
LEMMA PopOrdered ==
  ASSUME NEW T \in Seq(Nat), NEW now \in Nat, Ordered(T, now), NEW n \in 0 .. Len(T)
  PROVE  Ordered(Without(T, n), now)
<1> DEFINE P == Without(T, n)
<1>1. P \in Seq(Nat) /\ Len(P) = Len(T) - n /\ \A i \in 1 .. Len(T) - n : P[i] = T[n + i]
  BY WithoutFacts
<1> HIDE DEF P
<1>2. ASSUME NEW i \in 1 .. Len(P), NEW j \in 1 .. Len(P), i <= j
      PROVE  P[i] <= P[j]
  <2>1. n + i \in 1 .. Len(T) /\ n + j \in 1 .. Len(T) /\ n + i <= n + j
    BY <1>1, <1>2
  <2>2. T[n + i] <= T[n + j]
    BY <2>1 DEF Ordered
  <2>3. QED
    BY <1>1, <2>2
<1>3. ASSUME NEW i \in 1 .. Len(P)
      PROVE  P[i] <= now
  <2>1. n + i \in 1 .. Len(T)
    BY <1>1
  <2>2. QED
    BY <1>1, <2>1 DEF Ordered
<1>4. QED
  BY <1>2, <1>3 DEF Ordered, P

\* Nor does popping make it promise more.
LEMMA PopAwaits ==
  ASSUME NEW T \in Seq(Nat), NEW now \in Nat, NEW limit \in Nat \ {0}, NEW window,
         NEW since, NEW until, Awaits(T, now, limit, window, since, until),
         NEW n \in 0 .. Len(T)
  PROVE  Awaits(Without(T, n), now, limit, window, since, until)
<1> DEFINE P == Without(T, n)
<1>1. P \in Seq(Nat) /\ Len(P) = Len(T) - n /\ \A i \in 1 .. Len(T) - n : P[i] = T[n + i]
  BY WithoutFacts
<1>2. Ordered(P, now)
  BY PopOrdered DEF Awaits
<1> HIDE DEF P
<1>3. ASSUME Len(P) > limit
      PROVE  since # None /\ P[Len(P) - limit] <= since
  <2>1. Len(T) > limit /\ Len(P) - limit \in 1 .. Len(T) - n
    BY <1>1, <1>3
  <2>2. n + (Len(P) - limit) = Len(T) - limit
    BY <1>1
  <2>3. P[Len(P) - limit] = T[Len(T) - limit]
    BY <1>1, <2>1, <2>2
  <2>4. QED
    BY <2>1, <2>3 DEF Awaits
<1>4. ASSUME until # None
      PROVE  Len(P) <= limit /\ (Len(P) = limit => P[1] + window <= until)
  <2>1. Len(T) <= limit /\ (Len(T) = limit => T[1] + window <= until)
    BY <1>4 DEF Awaits
  <2>2. Len(P) <= limit
    BY <1>1, <2>1
  <2>3. ASSUME Len(P) = limit
        PROVE  P[1] + window <= until
    <3>1. n = 0 /\ Len(T) = limit /\ 1 \in 1 .. Len(T) - n
      BY <1>1, <2>1, <2>3
    <3>2. P[1] = T[1]
      BY <1>1, <3>1
    <3>3. QED
      BY <2>1, <3>1, <3>2
  <2>4. QED
    BY <2>2, <2>3
<1>5. QED
  BY <1>2, <1>3, <1>4 DEF Awaits, P

\* Once the limit is in force for a window no deque has more than it.
LEMMA PoppedWithin ==
  ASSUME NEW T \in Seq(Nat), NEW now \in Nat, NEW limit \in Nat \ {0}, NEW window \in Nat,
         NEW since \in Nat \cup {None}, NEW until, Awaits(T, now, limit, window, since, until),
         since = None \/ since < now - window,
         Len(T) > 0 => T[1] >= now - window
  PROVE  Len(T) <= limit
<1> SUFFICES ASSUME Len(T) > limit PROVE FALSE
  OBVIOUS
<1>1. since # None /\ T[Len(T) - limit] <= since /\ Ordered(T, now)
  BY DEF Awaits
<1>2. since \in Nat /\ since < now - window
  BY <1>1
<1>3. Len(T) - limit \in 1 .. Len(T) /\ 1 \in 1 .. Len(T)
  OBVIOUS
<1>4. T[1] <= T[Len(T) - limit]
  BY <1>1, <1>3 DEF Ordered
<1>5. T[1] \in Nat /\ T[Len(T) - limit] \in Nat /\ T[1] >= now - window
  BY <1>3
<1>6. QED
  BY <1>1, <1>2, <1>4, <1>5

\* A clean-up forgets a deque or leaves it.
LEMMA CleanedAwaits ==
  ASSUME LimiterInv, RetryInv, NEW kind \in Kinds, NEW c \in Clients
  PROVE  /\ Cleaned[kind][c] \in Seq(Nat)
         /\ Awaits(Cleaned[kind][c], clock, Limit(kind), Window, changed, told[kind][c])
<1>1. Limit(kind) \in Nat \ {0} /\ << >> \in Seq(Nat)
  BY LimitFacts DEF LimiterInv
<1>2. Awaits(<< >>, clock, Limit(kind), Window, changed, told[kind][c])
  BY <1>1, EmptyAwaits
<1>3. Awaits(counters[kind][c], clock, Limit(kind), Window, changed, told[kind][c])
  BY DEF RetryInv
<1>4. /\ counters[kind][c] \in Seq(Nat)
      /\ Cleaned[kind][c] = << >> \/ Cleaned[kind][c] = counters[kind][c]
  BY DequeFacts DEF LimiterInv
<1>5. CASE Cleaned[kind][c] = << >>
  BY <1>1, <1>2, <1>5
<1>6. CASE Cleaned[kind][c] = counters[kind][c]
  BY <1>3, <1>4, <1>6
<1>7. QED
  BY <1>4, <1>5, <1>6

\* What a check finds in the deque of its client.
LEMMA PoppedAwaits ==
  ASSUME LimiterInv, RetryInv, NEW kind \in Kinds, NEW c \in Clients,
         NEW n \in Popped(Cleaned[kind][c])
  PROVE  LET T == Without(Cleaned[kind][c], n)
         IN  /\ T \in Seq(Nat)
             /\ Awaits(T, clock, Limit(kind), Window, changed, told[kind][c])
             /\ Len(T) > 0 => T[1] >= clock - Window
<1> DEFINE C == Cleaned[kind][c]
<1> DEFINE T == Without(C, n)
<1>1. /\ C \in Seq(Nat)
      /\ Awaits(C, clock, Limit(kind), Window, changed, told[kind][c])
  BY CleanedAwaits
<1>2. n \in 0 .. Len(C) /\ (n < Len(C) => C[n + 1] >= clock - Window)
  BY DEF Popped
<1>3. clock \in Nat /\ Limit(kind) \in Nat \ {0}
  BY LimitFacts DEF LimiterInv, LimiterTypeOK
<1> HIDE DEF C
<1>4. /\ T \in Seq(Nat) /\ Len(T) = Len(C) - n
      /\ \A i \in 1 .. Len(C) - n : T[i] = C[n + i]
  BY <1>1, <1>2, WithoutFacts
<1>5. Awaits(T, clock, Limit(kind), Window, changed, told[kind][c])
  BY <1>1, <1>2, <1>3, PopAwaits
<1> HIDE DEF T
<1>6. Len(T) > 0 => T[1] >= clock - Window
  BY <1>1, <1>2, <1>4
<1>7. QED
  BY <1>4, <1>5, <1>6 DEF T, C

\* An admission is the first event a later refusal may have to wait for: what the last refusal
\* promised stays true.
LEMMA AdmitRetry ==
  ASSUME LimiterInv, RetryInv, NEW kind \in Kinds, NEW c \in Clients, Admit(kind, c)
  PROVE  RetryInv'
<1>1. PICK n \in Popped(Cleaned[kind][c]) :
        /\ Len(Without(Cleaned[kind][c], n)) < Limit(kind)
        /\ counters' = [Cleaned EXCEPT ![kind][c] = Append(Without(Cleaned[kind][c], n), clock)]
  BY DEF Admit
<1> DEFINE T == Without(Cleaned[kind][c], n)
<1> DEFINE B == Append(T, clock)
<1>2. /\ T \in Seq(Nat) /\ Len(T) < Limit(kind)
      /\ Awaits(T, clock, Limit(kind), Window, changed, told[kind][c])
  BY <1>1, PoppedAwaits
<1>3. /\ Cleaned \in PerClient(Seq(Nat)) /\ told \in PerClient(Nat \cup {None})
      /\ clock \in Nat /\ Window \in Nat /\ Limit(kind) \in Nat \ {0}
  BY DequeFacts, LimitFacts DEF LimiterInv, LimiterTypeOK
<1>4. /\ clock' = clock /\ config' = config /\ changed' = changed
      /\ told' = [told EXCEPT ![kind][c] = None]
  BY DEF Admit
<1>5. Window' = Window /\ \A k \in Kinds : Limit(k)' = Limit(k)
  BY <1>4 DEF Window, Limit
<1> HIDE DEF T
<1>6. counters' = [Cleaned EXCEPT ![kind][c] = B]
  BY <1>1 DEF T
<1>7. Awaits(B, clock, Limit(kind), Window, changed, None)
  <2>1. Len(B) = Len(T) + 1
    BY <1>2, <1>3
  <2>2. Ordered(B, clock)
    BY <1>2, <1>3, AppendOrdered DEF Awaits
  <2>3. ~(Len(B) > Limit(kind))
    BY <1>2, <1>3, <2>1
  <2>4. QED
    BY <2>2, <2>3 DEF Awaits
<1> HIDE DEF B
<1>8. ASSUME NEW k \in Kinds, NEW d \in Clients
      PROVE  Awaits(counters'[k][d], clock, Limit(k), Window, changed, told'[k][d])
  <2>1. CASE k = kind /\ d = c
    <3>1. counters'[k][d] = B /\ told'[k][d] = None
      BY <1>3, <1>4, <1>6, <2>1 DEF PerClient
    <3>2. QED
      BY <1>7, <2>1, <3>1
  <2>2. CASE ~(k = kind /\ d = c)
    <3>1. counters'[k][d] = Cleaned[k][d] /\ told'[k][d] = told[k][d]
      BY <1>3, <1>4, <1>6, <2>2 DEF PerClient
    <3>2. QED
      BY <3>1, CleanedAwaits
  <2>3. QED
    BY <2>1, <2>2
<1>9. QED
  BY <1>4, <1>5, <1>8 DEF RetryInv

\* The wait a refusal tells the client is the time to the expiry of the oldest request it holds.
LEMMA RefuseRetry ==
  ASSUME LimiterInv, RetryInv, NEW kind \in Kinds, NEW c \in Clients, Refuse(kind, c)
  PROVE  RetryInv'
<1>1. PICK n \in Popped(Cleaned[kind][c]) :
        /\ Len(Without(Cleaned[kind][c], n)) >= Limit(kind)
        /\ counters' = [Cleaned EXCEPT ![kind][c] = Without(Cleaned[kind][c], n)]
        /\ told' = IF told[kind][c] = None /\ Steady
                     THEN [told EXCEPT ![kind][c] =
                             clock + RetryAfter(Without(Cleaned[kind][c], n))]
                     ELSE told
  BY DEF Refuse
<1> DEFINE T == Without(Cleaned[kind][c], n)
<1>2. /\ T \in Seq(Nat) /\ Len(T) >= Limit(kind)
      /\ Awaits(T, clock, Limit(kind), Window, changed, told[kind][c])
      /\ Len(T) > 0 => T[1] >= clock - Window
  BY <1>1, PoppedAwaits
<1>3. /\ Cleaned \in PerClient(Seq(Nat)) /\ told \in PerClient(Nat \cup {None})
      /\ clock \in Nat /\ Window \in Nat /\ Limit(kind) \in Nat \ {0}
      /\ changed \in Nat \cup {None}
  BY DequeFacts, LimitFacts DEF LimiterInv, LimiterTypeOK
<1>4. clock' = clock /\ config' = config /\ changed' = changed
  BY DEF Refuse
<1>5. Window' = Window /\ \A k \in Kinds : Limit(k)' = Limit(k)
  BY <1>4 DEF Window, Limit
<1> HIDE DEF T
<1>6. /\ counters' = [Cleaned EXCEPT ![kind][c] = T]
      /\ told' = IF told[kind][c] = None /\ Steady
                   THEN [told EXCEPT ![kind][c] = clock + RetryAfter(T)] ELSE told
  BY <1>1 DEF T
<1>7. Awaits(T, clock, Limit(kind), Window, changed, told'[kind][c])
  <2>1. CASE ~(told[kind][c] = None /\ Steady)
    <3>1. told' = told
      BY <1>6, <2>1
    <3>2. QED
      BY <1>2, <3>1
  <2>2. CASE told[kind][c] = None /\ Steady
    <3>1. told'[kind][c] = clock + RetryAfter(T)
      BY <1>3, <1>6, <2>2 DEF PerClient
    <3>2. Len(T) <= Limit(kind)
      BY <1>2, <1>3, <2>2, PoppedWithin DEF Steady
    <3>3. T[1] \in Nat
      BY <1>2, <1>3
    <3>4. T[1] + Window <= clock + RetryAfter(T)
      <4>1. RetryAfter(T) \in Nat
        BY <1>3, <3>3, WholeSeconds
      <4>2. QED
        BY <1>3, <3>3, <4>1, RoundsUp
    <3>5. QED
      BY <1>2, <3>1, <3>2, <3>4 DEF Awaits
  <2>3. QED
    BY <2>1, <2>2
<1>8. ASSUME NEW k \in Kinds, NEW d \in Clients
      PROVE  Awaits(counters'[k][d], clock, Limit(k), Window, changed, told'[k][d])
  <2>1. CASE k = kind /\ d = c
    <3>1. counters'[k][d] = T
      BY <1>3, <1>6, <2>1 DEF PerClient
    <3>2. QED
      BY <1>7, <2>1, <3>1
  <2>2. CASE ~(k = kind /\ d = c)
    <3>1. counters'[k][d] = Cleaned[k][d] /\ told'[k][d] = told[k][d]
      BY <1>3, <1>6, <2>2 DEF PerClient
    <3>2. QED
      BY <3>1, CleanedAwaits
  <2>3. QED
    BY <2>1, <2>2
<1>9. QED
  BY <1>4, <1>5, <1>8 DEF RetryInv

\* A reload of the configuration lets nobody wait.
LEMMA ReconfigureRetry ==
  ASSUME LimiterInv, RetryInv, NEW new \in Configs, Reconfigure(new)
  PROVE  RetryInv'
<1>1. /\ clock' = clock /\ changed' = clock /\ counters' = counters
      /\ clock \in Nat /\ None \notin Nat
  BY LimiterAssumption DEF Reconfigure, LimiterInv, LimiterTypeOK
<1>2. ASSUME NEW k \in Kinds, NEW d \in Clients
      PROVE  Awaits(counters[k][d], clock, Limit(k)', Window', clock, told'[k][d])
  <2> DEFINE T == counters[k][d]
  <2>1. T \in Seq(Nat) /\ Ordered(T, clock)
    BY DequeFacts DEF LimiterInv, RetryInv, Awaits
  <2>2. told'[k][d] = None
    BY DEF Reconfigure, Everywhere
  <2>3. Limit(k)' \in Nat \ {0}
    <3>1. LimiterTypeOK'
      BY ReconfigureKeeps DEF LimiterInv
    <3>2. QED
      BY <3>1, LimiterAssumption DEF LimiterTypeOK, Limit, Kinds
  <2> HIDE DEF T
  <2>4. ASSUME NEW limit \in Nat \ {0}, Len(T) > limit
        PROVE  T[Len(T) - limit] <= clock
    <3>1. Len(T) - limit \in 1 .. Len(T)
      BY <2>1, <2>4
    <3>2. QED
      BY <2>1, <3>1 DEF Ordered
  <2>5. QED
    BY <1>1, <2>1, <2>2, <2>3, <2>4 DEF Awaits, T
<1>3. QED
  BY <1>1, <1>2 DEF RetryInv

\* The passing of time brings the promised moment nearer and changes nothing else.
LEMMA TickRetry ==
  ASSUME LimiterInv, RetryInv, Tick
  PROVE  RetryInv'
<1>1. /\ clock' = clock + 1 /\ clock \in Nat
      /\ config' = config /\ counters' = counters /\ changed' = changed /\ told' = told
      /\ changed \in Nat \cup {None}
  BY DEF Tick, deques, LimiterInv, LimiterTypeOK
<1>2. Window' = Window /\ \A k \in Kinds : Limit(k)' = Limit(k)
  BY <1>1 DEF Window, Limit
<1>3. ASSUME NEW k \in Kinds, NEW d \in Clients
      PROVE  Awaits(counters[k][d], clock + 1, Limit(k), Window, changed, told[k][d])
  <2> DEFINE T == counters[k][d]
  <2>1. T \in Seq(Nat) /\ Awaits(T, clock, Limit(k), Window, changed, told[k][d])
    BY DequeFacts DEF LimiterInv, RetryInv
  <2> HIDE DEF T
  <2>2. Ordered(T, clock + 1)
    BY <1>1, <2>1 DEF Ordered, Awaits
  <2>3. QED
    BY <2>1, <2>2 DEF Awaits, T
<1>4. QED
  BY <1>1, <1>2, <1>3 DEF RetryInv

\* No operation of the limiter breaks a promise it made.
LEMMA LimiterStepRetry == LimiterInv /\ RetryInv /\ LimiterStep => RetryInv'
<1>1. LimiterInv /\ RetryInv /\ UNCHANGED limiterVars => RetryInv'
  BY DEF limiterVars, RetryInv, Window, Limit
<1>2. QED
  BY <1>1, AdmitRetry, RefuseRetry, ReconfigureRetry, TickRetry DEF LimiterStep

\* A limiter without a request has made none.
LEMMA LimiterInitRetry == LimiterInit => RetryInv
<1> SUFFICES ASSUME LimiterInit PROVE RetryInv
  OBVIOUS
<1>1. /\ changed = None
      /\ \A k \in Kinds, d \in Clients : counters[k][d] = << >>
  BY DEF LimiterInit, Everywhere
<1>2. \A k \in Kinds : Limit(k) \in Nat \ {0}
  BY LimiterInitInv, LimitFacts DEF LimiterInv
<1>3. QED
  BY <1>1, <1>2, EmptyAwaits DEF RetryInv

\* Who was told to return and waited finds room.
LEMMA RetryFromInv == LimiterInv /\ RetryInv => RetryTells
<1> SUFFICES ASSUME LimiterInv, RetryInv,
                    NEW kind \in Kinds, NEW c \in Clients,
                    told[kind][c] # None, clock > told[kind][c],
                    NEW n \in Popped(counters[kind][c])
             PROVE  Len(counters[kind][c]) - n < Limit(kind)
  BY DEF RetryTells
<1> DEFINE T == counters[kind][c]
<1>1. /\ T \in Seq(Nat) /\ clock \in Nat /\ Window \in Nat /\ Limit(kind) \in Nat \ {0}
      /\ told[kind][c] \in Nat
  BY DequeFacts, LimitFacts DEF LimiterInv, LimiterTypeOK, PerClient
<1>2. Len(T) <= Limit(kind) /\ (Len(T) = Limit(kind) => T[1] + Window <= told[kind][c])
  BY DEF RetryInv, Awaits
<1>3. n \in 0 .. Len(T) /\ (n < Len(T) => T[n + 1] >= clock - Window)
  BY DEF Popped
<1> HIDE DEF T
<1>4. ASSUME n = 0, Len(T) = Limit(kind)
      PROVE  FALSE
  <2>1. T[1] \in Nat /\ T[1] >= clock - Window
    BY <1>1, <1>3, <1>4
  <2>2. T[1] + Window <= told[kind][c]
    BY <1>2, <1>4
  <2>3. QED
    BY <1>1, <2>1, <2>2
<1>5. Len(T) - n < Limit(kind)
  BY <1>1, <1>2, <1>3, <1>4
<1>6. QED
  BY <1>5 DEF T

----------------------------------------------------------------------------
(* The life cycle of the daemon.                                           *)

\* What the life cycle's variables range over.
DaemonTypeOK ==
    /\ current \in Setting /\ started \in Starts
    /\ error \in BOOLEAN /\ applied \in BOOLEAN /\ reloads \in 0..MaxReloads
    /\ stage \in {"up", "signalled", "draining", "stopping", "closing", "joining",
                  "exited", "killed"}
    /\ stream \in BOOLEAN /\ cut \in BOOLEAN /\ pool \in BOOLEAN /\ left \in BOOLEAN
    /\ write \in {"none", "waiting", "locked", "done", "refused"}
    /\ task \in {"waiting", "pruning", "ended"}
    /\ prune \in {"none", "create", "select", "begin", "delete", "commit", "complete"}
    /\ failed \in BOOLEAN /\ faults \in 0..MaxFaults
    /\ rows \in {"none", "missing", "deleting", "deleted"}
    /\ job \in {"none", "running", "completed", "failed"}

\* Who can still use the pool, by the stage of the shutdown.
StageInv ==
    /\ ~pool => stage \in {"joining", "exited", "killed"}
    /\ stage \in {"joining", "exited"} => ~pool
    /\ stage \in {"stopping", "closing", "joining", "exited"} =>
         (write \in {"waiting", "locked"} => cut)
    /\ ~pool => write # "locked"
    /\ write = "refused" => cut
    /\ task # "pruning" /\ ~left => prune = "none"
    /\ left => task = "ended"
    /\ stage \in {"closing", "joining", "exited"} /\ prune # "none" => left
    /\ ~pool /\ prune # "none" => left

\* The statement the prune's thread is at tells what is in the database.
PruneInv ==
    /\ job = "none" => prune \in {"none", "create"}
    /\ prune = "create" => job = "none"
    /\ prune \notin {"none", "create"} => job = "running"
    /\ prune \in {"create", "select"} \/ job = "none" => rows \in {"none", "missing"}
    /\ prune \in {"create", "select", "begin", "delete", "commit"} => ~failed
    /\ prune \in {"begin", "delete"} => rows = "missing"
    /\ prune = "commit" => rows \in {"deleting", "missing"}
    /\ prune = "commit" /\ pool /\ ~Over => rows = "deleting"
    /\ prune = "complete" /\ failed => rows \in {"none", "missing"}
    /\ prune = "complete" /\ ~failed => rows \in {"none", "deleted"}
    /\ job = "completed" => rows \in {"none", "deleted"}
    /\ job = "failed" => rows # "deleted"
    /\ job = "running" /\ prune = "none" => left \/ faults > 0

IInv ==
    /\ LimiterInv
    /\ RetryInv
    /\ DaemonTypeOK
    /\ SnapshotInForce
    /\ StageInv
    /\ PruneInv

LimiterStays == UNCHANGED limiterVars
LoopStays == UNCHANGED loopVars
PruneStays == UNCHANGED pruneVars

----------------------------------------------------------------------------
\* What is loaded are settings.
LEMMA LoadedFacts ==
  ASSUME NEW s \in Starts, NEW file \in Settings
  PROVE  /\ Loaded(file, s.env) \in Setting
         /\ s.file \in Settings /\ s.home \in Settings
BY DaemonAssumption DEF Loaded, Setting

LEMMA InitIInv == DaemonInit => IInv
<1> SUFFICES ASSUME DaemonInit PROVE IInv
  OBVIOUS
<1>1. LimiterInv /\ RetryInv
  BY LimiterInitInv, LimiterInitRetry DEF DaemonInit
<1> PICK s \in Starts : started = s /\ current = Loaded(s.file, s.env)
                               /\ config = Loaded(s.home, s.env).limit
  BY DEF DaemonInit
<1>2. DaemonTypeOK
  <2>1. current \in Setting /\ 0 \in 0..MaxReloads /\ 0 \in 0..MaxFaults
    BY LoadedFacts, DaemonAssumption
  <2>2. task \in {"waiting", "pruning", "ended"} /\ rows \in {"none", "missing", "deleting", "deleted"}
    BY DEF DaemonInit
  <2>3. /\ error = FALSE /\ reloads = 0 /\ applied = FALSE /\ stage = "up"
        /\ stream = FALSE /\ cut = FALSE /\ pool = TRUE /\ left = FALSE /\ write = "none"
        /\ prune = "none" /\ failed = FALSE /\ job = "none" /\ faults = 0
    BY DEF DaemonInit
  <2>4. QED
    BY <2>1, <2>2, <2>3 DEF DaemonTypeOK
<1>3. SnapshotInForce
  <2>1. ~applied
    BY DEF DaemonInit
  <2>2. ASSUME s.home.limit = s.file.limit
        PROVE  Loaded(s.home, s.env).limit = Loaded(s.file, s.env).limit
    BY <2>2 DEF Loaded
  <2>3. QED
    BY <2>1, <2>2 DEF SnapshotInForce
<1>4. StageInv /\ PruneInv
  BY DEF DaemonInit, StageInv, PruneInv
<1>5. QED
  BY <1>1, <1>2, <1>3, <1>4 DEF IInv

\* What every step of the daemon does to the limiter is a step of the limiter.
LEMMA NextIsLimiterStep ==
  ASSUME IInv, [Next]_vars
  PROVE  LimiterStep
<1> USE DEF LimiterStep
<1>1. CASE PassTime
  BY <1>1 DEF PassTime
<1>2. ASSUME NEW c \in Clients, Accept(c) \/ \E kind \in Kinds : Answer(kind, c)
      PROVE  LimiterStep
  BY <1>2 DEF Accept, Answer, Pass, Kinds
<1>3. CASE BeginWrite \/ EndWrite \/ OpenStream \/ ClientLeaves \/ ReloadFails
  BY <1>3 DEF BeginWrite, EndWrite, OpenStream, ClientLeaves, ReloadFails
<1>4. ASSUME NEW file \in Settings, Reload(file)
      PROVE  LimiterStep
  <2>1. Loaded(file, started.env).limit \in Configs
    BY LoadedFacts DEF IInv, DaemonTypeOK, Setting
  <2>2. QED
    BY <1>4, <2>1 DEF Reload, Apply
<1>5. CASE StartPrune \/ PruneThread \/ PruneReturns \/ PruneStops
  BY <1>5 DEF StartPrune, PruneThread, CreateJob, SelectMissing, BeginDelete, DeleteRows,
              CommitDelete, CompleteJob, Statement, Raises, PruneReturns, PruneStops
<1>6. CASE Signal \/ Loop \/ Kill
  BY <1>6 DEF Signal, Loop, Drain, Drained, DrainTimeout, StopPrune, StopPruneTimeout,
              ClosePool, Exit, Kill, GoOn
<1>7. CASE Finished \/ UNCHANGED vars
  BY <1>7 DEF Finished, vars
<1>8. QED
  BY <1>1, <1>2, <1>3, <1>4, <1>5, <1>6, <1>7 DEF Next

\* The settings a reload compares with change together with the limits, or not at all.
LEMMA SnapshotStep ==
  ASSUME IInv, [Next]_vars
  PROVE  /\ SnapshotInForce'
         /\ current' \in Setting /\ error' \in BOOLEAN /\ applied' \in BOOLEAN
         /\ reloads' \in 0..MaxReloads /\ started' = started
<1> USE DEF IInv, DaemonTypeOK, SnapshotInForce
<1>1. CASE UNCHANGED <<config, current, applied, error, reloads, started>>
  BY <1>1
<1>2. CASE PassTime
  BY <1>2 DEF PassTime, Tick, reloadVars
<1>3. ASSUME NEW c \in Clients, Accept(c) \/ \E kind \in Kinds : Answer(kind, c)
      PROVE  UNCHANGED <<config, current, applied, error, reloads, started>>
  BY <1>3 DEF Accept, Answer, Admit, Refuse, Pass, limiterVars, reloadVars
<1>4. CASE ReloadFails
  BY <1>4, DaemonAssumption DEF ReloadFails, Reloadable, limiterVars
<1>5. ASSUME NEW file \in Settings, Reload(file)
      PROVE  /\ SnapshotInForce'
             /\ current' \in Setting /\ error' \in BOOLEAN /\ applied' \in BOOLEAN
             /\ reloads' \in 0..MaxReloads /\ started' = started
  <2> DEFINE new == Loaded(file, started.env)
  <2>1. /\ reloads' \in 0..MaxReloads /\ started' = started
        /\ current' = new /\ new \in Setting
    BY <1>5, LoadedFacts, DaemonAssumption DEF Reload, Reloadable
  <2>2. error' \in BOOLEAN /\ applied' \in BOOLEAN
    BY <1>5 DEF Reload
  <2>3. CASE new.limit # current.limit
    <3>1. config' = new.limit
      BY <1>5, <2>3 DEF Reload, Apply, Reconfigure
    <3>2. QED
      BY <2>1, <2>2, <3>1
  <2>4. CASE new.limit = current.limit
    <3>1. config' = config /\ applied' = applied
      BY <1>5, <2>4 DEF Reload, Apply, limiterVars
    <3>2. QED
      BY <2>1, <2>2, <2>4, <3>1
  <2>5. QED
    BY <2>3, <2>4
<1>6. CASE BeginWrite \/ EndWrite \/ OpenStream \/ ClientLeaves
  BY <1>6 DEF BeginWrite, EndWrite, OpenStream, ClientLeaves, limiterVars, reloadVars
<1>7. CASE StartPrune \/ PruneThread \/ PruneReturns \/ PruneStops
  BY <1>7 DEF StartPrune, PruneThread, CreateJob, SelectMissing, BeginDelete, DeleteRows,
              CommitDelete, CompleteJob, Statement, Raises, PruneReturns, PruneStops,
              limiterVars, reloadVars
<1>8. CASE Signal \/ Loop \/ Kill
  BY <1>8 DEF Signal, Loop, Drain, Drained, DrainTimeout, StopPrune, StopPruneTimeout,
              ClosePool, Exit, Kill, GoOn, limiterVars, reloadVars
<1>9. CASE Finished \/ UNCHANGED vars
  BY <1>9 DEF Finished, vars, limiterVars, reloadVars
<1>10. QED
  BY <1>1, <1>2, <1>3, <1>4, <1>5, <1>6, <1>7, <1>8, <1>9 DEF Next

\* The stages, the streams and the requests, with the prune's task but not its thread.
LEMMA StageStep ==
  ASSUME IInv, [Next]_vars
  PROVE  /\ StageInv'
         /\ stage' \in {"up", "signalled", "draining", "stopping", "closing", "joining",
                        "exited", "killed"}
         /\ stream' \in BOOLEAN /\ cut' \in BOOLEAN /\ pool' \in BOOLEAN /\ left' \in BOOLEAN
         /\ write' \in {"none", "waiting", "locked", "done", "refused"}
         /\ task' \in {"waiting", "pruning", "ended"}
<1> USE DEF IInv, DaemonTypeOK, StageInv, Over
<1>1. CASE UNCHANGED <<loopVars, write, prune>>
  BY <1>1 DEF loopVars
<1>2. CASE PassTime \/ \E c \in Clients, kind \in Kinds : Answer(kind, c)
  BY <1>1, <1>2 DEF PassTime, Answer, pruneVars
<1>3. ASSUME NEW c \in Clients, Accept(c)
      PROVE  UNCHANGED <<loopVars, prune>> /\ write' = "waiting" /\ stage = "up"
  BY <1>3 DEF Accept, pruneVars
<1>4. CASE BeginWrite
  BY <1>4 DEF BeginWrite, loopVars, pruneVars
<1>5. CASE EndWrite
  BY <1>5 DEF EndWrite, loopVars, pruneVars
<1>6. CASE OpenStream \/ ClientLeaves
  <2>1. UNCHANGED <<stage, cut, pool, task, left, write, prune>> /\ stream' \in BOOLEAN
    BY <1>6 DEF OpenStream, ClientLeaves, pruneVars
  <2>2. QED
    BY <2>1
<1>7. CASE ReloadFails \/ \E file \in Settings : Reload(file)
  BY <1>1, <1>7 DEF ReloadFails, Reload, pruneVars
<1>8. CASE StartPrune
  BY <1>8 DEF StartPrune, StopSet, Serving
<1>9. CASE PruneThread
  <2>1. UNCHANGED <<loopVars, write>> /\ (prune = "none" => prune' = "none")
    BY <1>9 DEF PruneThread, CreateJob, SelectMissing, BeginDelete, DeleteRows,
                CommitDelete, CompleteJob, Statement, Raises
  <2>2. prune # "none"
    BY <1>9 DEF PruneThread, CreateJob, SelectMissing, BeginDelete, DeleteRows,
                CommitDelete, CompleteJob, Statement, Raises
  <2>3. QED
    BY <2>1, <2>2 DEF loopVars
<1>10. CASE PruneReturns \/ PruneStops
  BY <1>10 DEF PruneReturns, PruneStops, pruneVars, StopSet, Serving
<1>11. CASE Signal \/ Drain \/ Drained \/ DrainTimeout
  <2>1. UNCHANGED <<pool, task, left, write, prune>>
    BY <1>11 DEF Signal, Drain, Drained, DrainTimeout, GoOn, pruneVars
  <2>2. CASE Signal \/ Drain
    BY <2>1, <2>2 DEF Signal, Drain, GoOn
  <2>3. CASE Drained
    BY <2>1, <2>3 DEF Drained, Handling, GoOn
  <2>4. CASE DrainTimeout
    <3>1. stage' = "draining" /\ stage = "draining" /\ cut' /\ cut' \in BOOLEAN
          /\ stream' \in BOOLEAN
      BY <2>4 DEF DrainTimeout
    <3>2. pool /\ pool'
      BY <2>1, <3>1
    <3>3. QED
      BY <2>1, <3>1, <3>2
  <2>5. QED
    BY <1>11, <2>2, <2>3, <2>4
<1>12. CASE StopPrune \/ StopPruneTimeout
  BY <1>12 DEF StopPrune, StopPruneTimeout, GoOn, pruneVars
<1>13. CASE ClosePool \/ Exit \/ Kill
  <2>1. UNCHANGED <<stream, cut, task, left, write, prune>>
    BY <1>13 DEF ClosePool, Exit, Kill, GoOn, pruneVars
  <2>2. CASE ClosePool
    <3>1. stage = "closing" /\ stage' = "joining" /\ write # "locked"
          /\ ~pool' /\ pool' \in BOOLEAN
      BY <2>2 DEF ClosePool, GoOn
    <3>2. QED
      BY <2>1, <3>1
  <2>3. CASE Exit
    BY <2>1, <2>3 DEF Exit, GoOn
  <2>4. CASE Kill
    BY <2>1, <2>4 DEF Kill
  <2>5. QED
    BY <1>13, <2>2, <2>3, <2>4
<1>14. CASE Finished \/ UNCHANGED vars
  BY <1>1, <1>14 DEF Finished, vars, pruneVars
<1>15. CASE \E c \in Clients : Accept(c)
  BY <1>3, <1>15 DEF loopVars
<1>16. QED
  BY <1>2, <1>4, <1>5, <1>6, <1>7, <1>8, <1>9, <1>10, <1>11, <1>12, <1>13, <1>14, <1>15
     DEF Next, Loop

\* The prune's thread and what it has done to the database.
LEMMA PruneStep ==
  ASSUME IInv, [Next]_vars
  PROVE  /\ PruneInv'
         /\ prune' \in {"none", "create", "select", "begin", "delete", "commit", "complete"}
         /\ failed' \in BOOLEAN /\ faults' \in 0..MaxFaults
         /\ rows' \in {"none", "missing", "deleting", "deleted"}
         /\ job' \in {"none", "running", "completed", "failed"}
<1> USE DEF IInv, DaemonTypeOK, PruneInv, Over
<1>1. CASE UNCHANGED <<pruneVars, loopVars>>
  BY <1>1 DEF pruneVars, loopVars
<1>2. CASE PassTime \/ \E c \in Clients : Accept(c) \/ \E kind \in Kinds : Answer(kind, c)
  BY <1>1, <1>2 DEF PassTime, Accept, Answer
<1>3. CASE BeginWrite \/ EndWrite \/ ReloadFails \/ \E file \in Settings : Reload(file)
  BY <1>1, <1>3 DEF BeginWrite, EndWrite, ReloadFails, Reload
<1>4. CASE OpenStream \/ ClientLeaves \/ PruneReturns \/ PruneStops \/ DrainTimeout
  BY <1>4 DEF OpenStream, ClientLeaves, PruneReturns, PruneStops, DrainTimeout, pruneVars
<1>5. CASE StartPrune
  BY <1>5 DEF StartPrune, StageInv
<1>6. CASE CreateJob
  BY <1>6, DaemonAssumption DEF CreateJob, Statement, Raises, loopVars, StageInv
<1>7. CASE SelectMissing
  <2>1. /\ prune = "select" /\ ~Over /\ UNCHANGED <<stage, pool, left, job>>
        /\ faults' \in 0..MaxFaults
    BY <1>7, DaemonAssumption DEF SelectMissing, Statement, Raises, loopVars
  <2>2. CASE Statement("select", IF rows = "missing" THEN "begin" ELSE "complete")
    BY <1>7, <2>1, <2>2 DEF SelectMissing, Statement, Raises, loopVars
  <2>3. CASE Raises("select", "complete")
    BY <1>7, <2>1, <2>3 DEF SelectMissing, Statement, Raises, loopVars
  <2>4. QED
    BY <1>7, <2>2, <2>3 DEF SelectMissing
<1>8. CASE BeginDelete
  <2>1. /\ prune = "begin" /\ ~Over /\ UNCHANGED <<stage, pool, left, job>>
        /\ faults' \in 0..MaxFaults
    BY <1>8, DaemonAssumption DEF BeginDelete, Statement, Raises, loopVars
  <2>2. CASE Statement("begin", "delete")
    BY <1>8, <2>1, <2>2 DEF BeginDelete, Statement, Raises, loopVars
  <2>3. CASE Raises("begin", "complete")
    BY <1>8, <2>1, <2>3 DEF BeginDelete, Statement, Raises, loopVars
  <2>4. QED
    BY <1>8, <2>2, <2>3 DEF BeginDelete
<1>9. CASE DeleteRows
  <2>1. /\ prune = "delete" /\ ~Over /\ UNCHANGED <<stage, pool, left, job>>
        /\ faults' \in 0..MaxFaults
    BY <1>9, DaemonAssumption DEF DeleteRows, Statement, Raises, loopVars
  <2>2. CASE Statement("delete", "commit")
    BY <1>9, <2>1, <2>2 DEF DeleteRows, Statement, Raises, loopVars
  <2>3. CASE Raises("delete", "complete")
    BY <1>9, <2>1, <2>3 DEF DeleteRows, Statement, Raises, loopVars
  <2>4. QED
    BY <1>9, <2>2, <2>3 DEF DeleteRows
<1>10. CASE CommitDelete
  <2>1. /\ prune = "commit" /\ ~Over /\ UNCHANGED <<stage, pool, left, job>>
        /\ faults' \in 0..MaxFaults
    BY <1>10, DaemonAssumption DEF CommitDelete, Statement, Raises, loopVars
  <2>2. CASE Statement("commit", "complete")
    BY <1>10, <2>1, <2>2 DEF CommitDelete, Statement, Raises, loopVars
  <2>3. CASE Raises("commit", "complete") /\ failed' = TRUE /\ rows' = "missing"
    <3>1. /\ prune' = "complete" /\ rows' = "missing" /\ failed' /\ failed' \in BOOLEAN
          /\ job' = "running"
      BY <2>1, <2>3 DEF Raises
    <3>2. QED
      BY <2>1, <3>1
  <2>4. QED
    BY <1>10, <2>2, <2>3 DEF CommitDelete
<1>11. CASE CompleteJob
  BY <1>11, DaemonAssumption DEF CompleteJob, Statement, Raises, loopVars, StageInv
<1>12. CASE Signal \/ Drain \/ Drained \/ StopPrune \/ Exit
  BY <1>12 DEF Signal, Drain, Drained, StopPrune, Exit, GoOn, pruneVars
<1>13. CASE StopPruneTimeout
  BY <1>13 DEF StopPruneTimeout, GoOn, pruneVars
<1>14. CASE ClosePool \/ Kill
  BY <1>14 DEF ClosePool, Kill, GoOn
<1>15. CASE Finished \/ UNCHANGED vars
  BY <1>1, <1>15 DEF Finished, vars
<1>16. QED
  BY <1>2, <1>3, <1>4, <1>5, <1>6, <1>7, <1>8, <1>9, <1>10, <1>11, <1>12, <1>13, <1>14, <1>15
     DEF Next, Loop, PruneThread

\* IInv is inductive.
LEMMA NextIInv == IInv /\ [Next]_vars => IInv'
<1> SUFFICES ASSUME IInv, [Next]_vars PROVE IInv'
  OBVIOUS
<1>1. LimiterInv' /\ RetryInv'
  BY NextIsLimiterStep, LimiterStepKeeps, LimiterStepRetry DEF IInv
<1>2. DaemonTypeOK'
  BY SnapshotStep, StageStep, PruneStep DEF DaemonTypeOK, IInv
<1>3. QED
  BY <1>1, <1>2, SnapshotStep, StageStep, PruneStep DEF IInv

THEOREM InvariantHolds == Spec => []IInv
BY InitIInv, NextIInv, PTL DEF Spec

----------------------------------------------------------------------------
(* The properties *)

\* Every variable keeps its type.
THEOREM TypeCorrect == Spec => []TypeOK
<1>1. IInv => TypeOK
  BY DEF IInv, LimiterInv, DaemonTypeOK, TypeOK
<1>2. QED
  BY <1>1, InvariantHolds, PTL

\* No window holds more admitted requests than the limit in force, however many clients
\* there are and however clean-ups and reloads fall.
THEOREM RateIsLimited == Spec => []WindowHolds
<1>1. IInv => WindowHolds
  BY DEF IInv, LimiterInv
<1>2. QED
  BY <1>1, InvariantHolds, PTL

\* A refused client that waits for as long as it was told finds room.
THEOREM RetryIsKept == Spec => []RetryTells
<1>1. IInv => RetryTells
  BY RetryFromInv DEF IInv
<1>2. QED
  BY <1>1, InvariantHolds, PTL

\* A reload never leaves the limiter with other limits than the snapshot it compares with.
THEOREM ReloadKeepsSnapshot == Spec => []SnapshotInForce
<1>1. IInv => SnapshotInForce
  BY DEF IInv
<1>2. QED
  BY <1>1, InvariantHolds, PTL

\* The shutdown cuts no request's transaction, and a prune's job tells the truth.
THEOREM ShutdownIsClean == Spec => []ExitIsClean
<1>1. IInv => ExitIsClean
  BY DEF IInv, DaemonTypeOK, StageInv, PruneInv, ExitIsClean
<1>2. QED
  BY <1>1, InvariantHolds, PTL
=============================================================================
