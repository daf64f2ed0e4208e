--------------------------- MODULE CountingLemmas ---------------------------
(* How many messages of a kind a channel holds, and how a write and a read       *)
(* change it; how many threads are at a place, and how a step of one changes it; *)
(* of what types the messages of a channel are, and for whom.                    *)
(* At the end: sums over a range and over a finite set, and how they change when *)
(* one term does.                                                                *)
EXTENDS Integers, Sequences, FiniteSets, FiniteSetTheorems, FunctionTheorems,
        SequenceTheorems, WellFoundedInduction, TLAPS

Positions(queue, kind) == {k \in 1 .. Len(queue) : queue[k] \in kind}

HowMany(queue, kind) == Cardinality(Positions(queue, kind))

LEMMA PositionsFinite ==
    ASSUME NEW M, NEW queue \in Seq(M), NEW kind
    PROVE  /\ IsFiniteSet(Positions(queue, kind))
           /\ HowMany(queue, kind) \in Nat
  <1>1. IsFiniteSet(1 .. Len(queue))
    BY FS_Interval
  <1>2. Positions(queue, kind) \in SUBSET (1 .. Len(queue))
    BY DEF Positions
  <1> QED
    BY <1>1, <1>2, FS_Subset, FS_CardinalityType DEF HowMany

LEMMA NoneInEmpty ==
    ASSUME NEW kind
    PROVE  HowMany(<<>>, kind) = 0
  <1>1. Positions(<<>>, kind) = {}
    BY DEF Positions
  <1> QED
    BY <1>1, FS_EmptySet DEF HowMany

LEMMA SomeWhenPresent ==
    ASSUME NEW M, NEW queue \in Seq(M), NEW kind, NEW k \in 1 .. Len(queue),
           queue[k] \in kind
    PROVE  HowMany(queue, kind) > 0
  <1>1. IsFiniteSet(Positions(queue, kind)) /\ HowMany(queue, kind) \in Nat
    BY PositionsFinite
  <1>2. Positions(queue, kind) # {}
    BY DEF Positions
  <1> QED
    BY <1>1, <1>2, FS_EmptySet DEF HowMany

LEMMA NoneWhenAbsent ==
    ASSUME NEW queue, NEW kind, \A k \in 1 .. Len(queue) : queue[k] \notin kind
    PROVE  HowMany(queue, kind) = 0
  <1>1. Positions(queue, kind) = {}
    BY DEF Positions
  <1> QED
    BY <1>1, FS_EmptySet DEF HowMany

LEMMA OneWritten ==
    ASSUME NEW M, NEW queue \in Seq(M), NEW m \in M, NEW kind
    PROVE  HowMany(Append(queue, m), kind)
              = HowMany(queue, kind) + (IF m \in kind THEN 1 ELSE 0)
  <1> DEFINE more == Append(queue, m)
             last == Len(queue) + 1
  <1>1. /\ Len(more) = last /\ Len(queue) \in Nat
        /\ \A k \in 1 .. Len(queue) : more[k] = queue[k]
        /\ more[last] = m
    BY AppendProperties
  <1>2. IsFiniteSet(Positions(queue, kind)) /\ HowMany(queue, kind) \in Nat
    BY PositionsFinite
  <1>3. last \notin Positions(queue, kind)
    BY <1>1, SMT DEF Positions
  <1>4. CASE m \in kind
    <2>1. Positions(more, kind) = Positions(queue, kind) \cup {last}
      BY <1>1, <1>4, SMT DEF Positions
    <2> QED
      BY <2>1, <1>2, <1>3, <1>4, FS_AddElement DEF HowMany
  <1>5. CASE m \notin kind
    <2>1. Positions(more, kind) = Positions(queue, kind)
      BY <1>1, <1>5, SMT DEF Positions
    <2> QED
      BY <2>1, <1>2, <1>5 DEF HowMany
  <1> QED
    BY <1>4, <1>5

LEMMA OneRead ==
    ASSUME NEW M, NEW queue \in Seq(M), queue # <<>>, NEW kind
    PROVE  HowMany(queue, kind)
              = HowMany(Tail(queue), kind) + (IF Head(queue) \in kind THEN 1 ELSE 0)
  <1> DEFINE rest == Tail(queue)
             from == Positions(rest, kind)
             to   == Positions(queue, kind) \ {1}
  <1>1. /\ Len(rest) = Len(queue) - 1 /\ Len(queue) \in Nat \ {0} /\ rest \in Seq(M)
        /\ \A k \in 1 .. Len(rest) : rest[k] = queue[k + 1]
    BY HeadTailProperties
  <1>2. Head(queue) = queue[1]
    OBVIOUS
  <1>3. IsFiniteSet(from) /\ IsFiniteSet(Positions(queue, kind))
    BY <1>1, PositionsFinite
  <1>4. ExistsBijection(from, to)
    <2> DEFINE up == [k \in from |-> k + 1]
    <2>1. \A k \in from : k \in Nat /\ k + 1 \in to
      BY <1>1, SMT DEF Positions
    <2>2. \A n \in to : n - 1 \in from /\ up[n - 1] = n
      <3>1. \A n \in to : n - 1 \in from
        BY <1>1, SMT DEF Positions
      <3>2. \A n \in to : (n - 1) + 1 = n
        BY SMT DEF Positions
      <3> QED
        BY <3>1, <3>2
    <2>3. up \in [from -> to]
      BY <2>1
    <2>4. \A a, b \in from : up[a] = up[b] => a = b
      BY <2>1, SMT
    <2> HIDE DEF up
    <2>5. up \in Bijection(from, to)
      BY <2>2, <2>3, <2>4, Fun_IsBij
    <2> QED
      BY <2>5 DEF ExistsBijection
  <1>5. Cardinality(to) = HowMany(rest, kind) /\ HowMany(rest, kind) \in Nat
    BY <1>1, <1>3, <1>4, FS_Bijection, PositionsFinite DEF HowMany
  <1>6. Cardinality(to) = IF 1 \in Positions(queue, kind) THEN HowMany(queue, kind) - 1
                                                          ELSE HowMany(queue, kind)
    BY <1>3, FS_RemoveElement DEF HowMany
  <1>7. 1 \in Positions(queue, kind) <=> Head(queue) \in kind
    BY <1>1, <1>2, SMT DEF Positions
  <1>8. HowMany(queue, kind) \in Nat
    BY PositionsFinite
  <1> QED
    BY <1>5, <1>6, <1>7, <1>8
-----------------------------------------------------------------------------
(* A thread more, a thread less, or some threads out of all. *)
LEMMA OneMore ==
    ASSUME NEW S, IsFiniteSet(S), NEW x, x \notin S
    PROVE  Cardinality(S \cup {x}) = Cardinality(S) + 1
  BY FS_AddElement

LEMMA OneLess ==
    ASSUME NEW S, IsFiniteSet(S), NEW x \in S
    PROVE  Cardinality(S \ {x}) = Cardinality(S) - 1
  BY FS_RemoveElement

LEMMA NoFewer ==
    ASSUME NEW T, IsFiniteSet(T), NEW S \in SUBSET T
    PROVE  /\ IsFiniteSet(S)
           /\ Cardinality(S) \in Nat /\ Cardinality(T) \in Nat
           /\ Cardinality(S) <= Cardinality(T)
  BY FS_Subset, FS_CardinalityType

(* Two members make two. *)
LEMMA AtMostOne ==
    ASSUME NEW S, IsFiniteSet(S), Cardinality(S) <= 1, NEW x \in S, NEW y \in S
    PROVE  x = y
  <1> SUFFICES ASSUME x # y PROVE FALSE
    OBVIOUS
  <1>1. IsFiniteSet({x}) /\ Cardinality({x}) = 1
    BY FS_Singleton
  <1>2. Cardinality({x} \cup {y}) = 2
    BY <1>1, OneMore
  <1>3. Cardinality({x} \cup {y}) <= Cardinality(S) /\ Cardinality(S) \in Nat
    BY FS_Subset, FS_CardinalityType
  <1> QED
    BY <1>2, <1>3

(* The members of a set of threads that are at one of some places, when at tells *)
(* where each thread is; and what one thread's step changes about their number.  *)
Among(at, threads, places) == {t \in threads : at[t] \in places}

OneMoves(at, next, threads, t, there) ==
    next[t] = there /\ \A u \in threads : u # t => next[u] = at[u]

LEMMA AmongFinite ==
    ASSUME NEW threads, IsFiniteSet(threads), NEW at, NEW places
    PROVE  /\ IsFiniteSet(Among(at, threads, places))
           /\ Cardinality(Among(at, threads, places)) \in Nat
  <1>1. Among(at, threads, places) \in SUBSET threads
    BY DEF Among
  <1> QED
    BY <1>1, FS_Subset, FS_CardinalityType

LEMMA OneStep ==
    ASSUME NEW threads, IsFiniteSet(threads), NEW places, NEW at, NEW next, NEW t, NEW there,
           OneMoves(at, next, threads, t, there)
    PROVE  LET before == Cardinality(Among(at, threads, places))
               after  == Cardinality(Among(next, threads, places))
           IN  /\ before \in Nat /\ after \in Nat
               /\ t \in threads /\ at[t] \notin places /\ there \in places
                     => after = before + 1
               /\ t \in threads /\ at[t] \in places /\ there \notin places
                     => after = before - 1
               /\ t \notin threads \/ (at[t] \in places <=> there \in places)
                     => after = before
  <1> DEFINE from == Among(at, threads, places)
             to   == Among(next, threads, places)
  <1>1. IsFiniteSet(from) /\ Cardinality(from) \in Nat /\ Cardinality(to) \in Nat
    BY AmongFinite
  <1>2. ASSUME t \in threads, at[t] \notin places, there \in places
        PROVE  Cardinality(to) = Cardinality(from) + 1
    <2>1. to = from \cup {t} /\ t \notin from
      BY <1>2 DEF Among, OneMoves
    <2> QED
      BY <1>1, <2>1, OneMore
  <1>3. ASSUME t \in threads, at[t] \in places, there \notin places
        PROVE  Cardinality(to) = Cardinality(from) - 1
    <2>1. to = from \ {t} /\ t \in from
      BY <1>3 DEF Among, OneMoves
    <2> QED
      BY <1>1, <2>1, OneLess
  <1>4. ASSUME t \notin threads \/ (at[t] \in places <=> there \in places)
        PROVE  Cardinality(to) = Cardinality(from)
    <2>1. to = from
      BY <1>4 DEF Among, OneMoves
    <2> QED
      BY <2>1
  <1> QED
    BY <1>1, <1>2, <1>3, <1>4

-----------------------------------------------------------------------------
(* What a channel holds, by the types of its messages. *)
IsSeq(s)        == s \in Seq({s[k] : k \in 1 .. Len(s)})
OnlyOf(s, types) == \A k \in 1 .. Len(s) : s[k].type \in types
Holds(s, types)  == \E k \in 1 .. Len(s) : s[k].type \in types
Single(s, types) == \A j, k \in 1 .. Len(s) :
                       s[j].type \in types /\ s[k].type \in types => j = k

(* The requests or answers in a channel are all of planes that wait for one.     *)
Carries(s, types, waiting) ==
    \A k \in 1 .. Len(s) : s[k].type \in types =>
        /\ <<s[k].plane, s[k].type>> \in waiting
        /\ \A j \in 1 .. Len(s) : s[j].type \in types /\ s[j].plane = s[k].plane => j = k

(* What a write and a read change about what a channel holds. *)

LEMMA Written ==
    ASSUME NEW s, IsSeq(s), NEW m
    PROVE  LET t == Append(s, m)
           IN  /\ IsSeq(t) /\ Len(s) \in Nat /\ Len(t) = Len(s) + 1
               /\ \A k \in 1 .. Len(s) : t[k] = s[k]
               /\ t[Len(s) + 1] = m
  <1> DEFINE S == {s[k] : k \in 1 .. Len(s)}
             T == S \cup {m}
             t == Append(s, m)
  <1>1. s \in Seq(T) /\ m \in T
    <2>1. s \in Seq(S) /\ S \in SUBSET T
      BY DEF IsSeq
    <2> HIDE DEF S, T
    <2>2. s \in Seq(T)
      BY <2>1
    <2> QED
      BY <2>2 DEF T
  <1>2. /\ t \in Seq(T) /\ Len(s) \in Nat /\ Len(t) = Len(s) + 1
        /\ \A k \in 1 .. Len(s) : t[k] = s[k]
        /\ t[Len(s) + 1] = m
    BY <1>1, AppendProperties
  <1>3. t \in Seq({t[k] : k \in 1 .. Len(t)})
    <2> HIDE DEF t, T
    <2>1. t \in [1 .. Len(t) -> T] /\ Len(t) \in Nat
      BY <1>2
    <2>2. t \in [1 .. Len(t) -> {t[k] : k \in 1 .. Len(t)}]
      BY <2>1
    <2> QED
      BY <2>1, <2>2
  <1> QED
    BY <1>2, <1>3 DEF IsSeq

LEMMA Read ==
    ASSUME NEW s, IsSeq(s), s # <<>>
    PROVE  LET t == Tail(s)
           IN  /\ IsSeq(t) /\ Len(s) \in Nat \ {0} /\ Len(t) = Len(s) - 1
               /\ \A k \in 1 .. Len(t) : t[k] = s[k + 1]
               /\ s[1] = Head(s)
  <1> DEFINE S == {s[k] : k \in 1 .. Len(s)}
             t == Tail(s)
  <1>1. s \in Seq(S)
    BY DEF IsSeq
  <1> HIDE DEF S
  <1>2. /\ t \in Seq(S) /\ Len(s) \in Nat \ {0} /\ Len(t) = Len(s) - 1
        /\ \A k \in 1 .. Len(t) : t[k] = s[k + 1]
        /\ s[1] = Head(s)
    BY <1>1, HeadTailProperties
  <1>3. t \in Seq({t[k] : k \in 1 .. Len(t)})
    <2> HIDE DEF t
    <2>1. t \in [1 .. Len(t) -> S] /\ Len(t) \in Nat
      BY <1>2
    <2>2. t \in [1 .. Len(t) -> {t[k] : k \in 1 .. Len(t)}]
      BY <2>1
    <2> QED
      BY <2>1, <2>2
  <1> QED
    BY <1>2, <1>3 DEF IsSeq

LEMMA WriteHolds ==
    ASSUME NEW s, IsSeq(s), NEW m, NEW types
    PROVE  LET t == Append(s, m)
           IN  /\ Holds(t, types) <=> Holds(s, types) \/ m.type \in types
               /\ OnlyOf(t, types) <=> OnlyOf(s, types) /\ m.type \in types
               /\ Single(s, types) /\ ~(Holds(s, types) /\ m.type \in types)
                     => Single(t, types)
  <1> DEFINE t == Append(s, m)
             n == Len(s)
  <1>1. /\ n \in Nat /\ Len(t) = n + 1
        /\ \A k \in 1 .. n : t[k] = s[k]
        /\ t[n + 1] = m
    BY Written
  <1>2. /\ 1 .. n + 1 = (1 .. n) \cup {n + 1} /\ n + 1 \notin 1 .. n
    BY <1>1
  <1> HIDE DEF t
  <1>3. Holds(t, types) <=> Holds(s, types) \/ m.type \in types
    BY <1>1, <1>2, Zenon DEF Holds
  <1>4. OnlyOf(t, types) <=> OnlyOf(s, types) /\ m.type \in types
    BY <1>1, <1>2 DEF OnlyOf
  <1>5. ASSUME Single(s, types), ~(Holds(s, types) /\ m.type \in types)
        PROVE  Single(t, types)
    <2> SUFFICES ASSUME NEW j \in 1 .. n + 1, NEW k \in 1 .. n + 1,
                        t[j].type \in types, t[k].type \in types
                 PROVE  j = k
      BY <1>1 DEF Single
    <2>1. CASE m.type \in types
      <3>1. \A h \in 1 .. n : t[h].type \notin types
        BY <1>1, <1>5, <2>1 DEF Holds
      <3> QED
        BY <1>2, <3>1
    <2>2. CASE m.type \notin types
      BY <1>1, <1>2, <1>5, <2>2 DEF Single
    <2> QED
      BY <2>1, <2>2
  <1> QED
    BY <1>3, <1>4, <1>5 DEF t

LEMMA ReadHolds ==
    ASSUME NEW s, IsSeq(s), s # <<>>, NEW types
    PROVE  LET t == Tail(s)
           IN  /\ Holds(s, types) <=> Holds(t, types) \/ Head(s).type \in types
               /\ OnlyOf(s, types) <=> OnlyOf(t, types) /\ Head(s).type \in types
               /\ Single(s, types) => Single(t, types)
               /\ Single(s, types) /\ Head(s).type \in types => ~Holds(t, types)
  <1> DEFINE t == Tail(s)
             n == Len(t)
  <1>1. /\ n \in Nat /\ Len(s) = n + 1
        /\ \A k \in 1 .. n : t[k] = s[k + 1]
        /\ s[1] = Head(s)
    BY Read
  <1>2. /\ \A k \in 1 .. n : k + 1 \in 1 .. n + 1 /\ k + 1 # 1
        /\ \A k \in 1 .. n + 1 : k = 1 \/ (k - 1 \in 1 .. n /\ (k - 1) + 1 = k)
        /\ \A j, k \in 1 .. n : j + 1 = k + 1 => j = k
        /\ 1 \in 1 .. n + 1
    BY <1>1
  <1>0. \A k \in 1 .. n + 1 : k = 1 \/ \E j \in 1 .. n : t[j] = s[k] /\ k = j + 1
    BY <1>1, <1>2
  <1> HIDE DEF t, n
  <1>3. Holds(s, types) <=> Holds(t, types) \/ Head(s).type \in types
    <2>1. ASSUME Holds(s, types) PROVE Holds(t, types) \/ Head(s).type \in types
      BY <2>1, <1>0, <1>1, Zenon DEF Holds, n
    <2>2. ASSUME Holds(t, types) \/ Head(s).type \in types PROVE Holds(s, types)
      <3>1. \A k \in 1 .. n : s[k + 1] = t[k] /\ k + 1 \in 1 .. Len(s)
        BY <1>1, <1>2
      <3>2. s[1] = Head(s) /\ 1 \in 1 .. Len(s)
        BY <1>1, <1>2
      <3> QED
        BY <2>2, <3>1, <3>2, Zenon DEF Holds, n
    <2> QED
      BY <2>1, <2>2
  <1>4. OnlyOf(s, types) <=> OnlyOf(t, types) /\ Head(s).type \in types
    <2>1. ASSUME OnlyOf(t, types), Head(s).type \in types PROVE OnlyOf(s, types)
      BY <2>1, <1>0, <1>1, Zenon DEF OnlyOf, n
    <2>2. ASSUME OnlyOf(s, types) PROVE OnlyOf(t, types) /\ Head(s).type \in types
      <3>1. \A k \in 1 .. n : s[k + 1] = t[k] /\ k + 1 \in 1 .. Len(s)
        BY <1>1, <1>2
      <3>2. s[1] = Head(s) /\ 1 \in 1 .. Len(s)
        BY <1>1, <1>2
      <3> QED
        BY <2>2, <3>1, <3>2, Zenon DEF OnlyOf, n
    <2> QED
      BY <2>1, <2>2
  <1>5. Single(s, types) => Single(t, types)
    <2> SUFFICES ASSUME Single(s, types), NEW j \in 1 .. n, NEW k \in 1 .. n,
                        t[j].type \in types, t[k].type \in types
                 PROVE  j = k
      BY DEF Single, n
    <2>1. /\ j + 1 \in 1 .. Len(s) /\ k + 1 \in 1 .. Len(s)
          /\ s[j + 1].type \in types /\ s[k + 1].type \in types
      BY <1>1, <1>2
    <2>2. j + 1 = k + 1
      BY <2>1, Zenon DEF Single
    <2> QED
      BY <1>2, <2>2
  <1>6. Single(s, types) /\ Head(s).type \in types => ~Holds(t, types)
    <2> SUFFICES ASSUME Single(s, types), Head(s).type \in types, NEW j \in 1 .. n,
                        t[j].type \in types
                 PROVE  FALSE
      BY DEF Holds, n
    <2>1. /\ j + 1 \in 1 .. Len(s) /\ 1 \in 1 .. Len(s)
          /\ s[j + 1].type \in types /\ s[1].type \in types
      BY <1>1, <1>2
    <2>2. j + 1 = 1
      BY <2>1, Zenon DEF Single
    <2> QED
      BY <1>2, <2>2
  <1> QED
    BY <1>3, <1>4, <1>5, <1>6 DEF t

LEMMA WriteCarries ==
    ASSUME NEW s, IsSeq(s), NEW m, NEW types, NEW before, NEW after,
           Carries(s, types, before),
           \A w \in before : (m.type \in types => w[1] # m.plane) => w \in after,
           m.type \in types => <<m.plane, m.type>> \in after
                               /\ \A type \in types : <<m.plane, type>> \notin before
    PROVE  Carries(Append(s, m), types, after)
  <1> DEFINE t == Append(s, m)
             n == Len(s)
  <1>1. /\ n \in Nat /\ Len(t) = n + 1
        /\ \A k \in 1 .. n : t[k] = s[k]
        /\ t[n + 1] = m
    BY Written
  <1>2. 1 .. n + 1 = (1 .. n) \cup {n + 1} /\ n + 1 \notin 1 .. n
    BY <1>1
  <1> HIDE DEF t
  <1>3. \A k \in 1 .. n : t[k].type \in types => (m.type \in types => t[k].plane # m.plane)
    BY <1>1 DEF Carries
  <1>4. SUFFICES ASSUME NEW k \in 1 .. n + 1, t[k].type \in types
                 PROVE  /\ <<t[k].plane, t[k].type>> \in after
                        /\ \A j \in 1 .. n + 1 : t[j].type \in types /\ t[j].plane = t[k].plane
                              => j = k
    BY <1>1 DEF Carries, t
  <1>5. CASE k = n + 1
    BY <1>1, <1>2, <1>3, <1>4, <1>5
  <1>6. CASE k \in 1 .. n
    <2>1. /\ <<t[k].plane, t[k].type>> \in before
          /\ \A j \in 1 .. n : t[j].type \in types /\ t[j].plane = t[k].plane => j = k
      BY <1>1, <1>4, <1>6 DEF Carries
    <2>2. <<t[k].plane, t[k].type>> \in after
      BY <1>3, <1>4, <1>6, <2>1
    <2> QED
      BY <1>1, <1>2, <1>3, <1>4, <1>6, <2>1, <2>2
  <1> QED
    BY <1>2, <1>4, <1>5, <1>6

LEMMA ReadCarries ==
    ASSUME NEW s, IsSeq(s), s # <<>>, NEW types, NEW before, NEW after,
           Carries(s, types, before),
           \A w \in before : (Head(s).type \in types => w[1] # Head(s).plane) => w \in after
    PROVE  /\ Carries(Tail(s), types, after)
           /\ Head(s).type \in types => <<Head(s).plane, Head(s).type>> \in before
  <1> DEFINE t == Tail(s)
             n == Len(t)
  <1>1. /\ n \in Nat /\ Len(s) = n + 1
        /\ \A k \in 1 .. n : t[k] = s[k + 1]
        /\ s[1] = Head(s)
    BY Read
  <1>2. /\ \A k \in 1 .. n : k + 1 \in 1 .. n + 1 /\ k + 1 # 1
        /\ \A j, k \in 1 .. n : j + 1 = k + 1 => j = k
        /\ 1 \in 1 .. n + 1
    BY <1>1
  <1> HIDE DEF t, n
  <1>3. Head(s).type \in types => <<Head(s).plane, Head(s).type>> \in before
    BY <1>1, <1>2 DEF Carries
  <1>4. SUFFICES ASSUME NEW k \in 1 .. n, t[k].type \in types
                 PROVE  /\ <<t[k].plane, t[k].type>> \in after
                        /\ \A j \in 1 .. n : t[j].type \in types /\ t[j].plane = t[k].plane
                              => j = k
    BY <1>3 DEF Carries, t, n
  <1>5. /\ k + 1 \in 1 .. Len(s) /\ s[k + 1] = t[k]
    BY <1>1, <1>2
  <1>6. /\ <<t[k].plane, t[k].type>> \in before
        /\ \A h \in 1 .. Len(s) : s[h].type \in types /\ s[h].plane = t[k].plane => h = k + 1
    BY <1>4, <1>5, Zenon DEF Carries
  <1>7. Head(s).type \in types => Head(s).plane # t[k].plane
    BY <1>1, <1>2, <1>6
  <1>8. <<t[k].plane, t[k].type>> \in after
    BY <1>6, <1>7
  <1>9. ASSUME NEW j \in 1 .. n, t[j].type \in types, t[j].plane = t[k].plane
        PROVE  j = k
    <2>1. j + 1 \in 1 .. Len(s) /\ s[j + 1] = t[j]
      BY <1>1, <1>2
    <2>2. j + 1 = k + 1
      BY <1>6, <1>9, <2>1, Zenon
    <2> QED
      BY <1>2, <2>2
  <1> QED
    BY <1>8, <1>9

LEMMA StillCarries ==
    ASSUME NEW s, NEW types, NEW before, NEW after,
           Carries(s, types, before),
           \A k \in 1 .. Len(s) : s[k].type \in types /\ <<s[k].plane, s[k].type>> \in before
                                     => <<s[k].plane, s[k].type>> \in after
    PROVE  Carries(s, types, after)
  BY DEF Carries

LEMMA NoneHeld ==
    ASSUME NEW types
    PROVE  /\ ~Holds(<<>>, types) /\ OnlyOf(<<>>, types) /\ Single(<<>>, types)
           /\ \A waiting : Carries(<<>>, types, waiting)
  BY DEF Holds, OnlyOf, Single, Carries

LEMMA Nothing ==
    ASSUME NEW s, IsSeq(s), NEW types, OnlyOf(s, types), ~Holds(s, types)
    PROVE  s = <<>>
  <1>1. s # <<>> => 1 \in 1 .. Len(s)
    BY Read
  <1> QED
    BY <1>1 DEF OnlyOf, Holds

-----------------------------------------------------------------------------
(* Induction, on a set instead of a predicate, and the sums it is needed for.    *)

LEMMA LeastExists ==
    ASSUME NEW S \in SUBSET Nat, S # {}
    PROVE  \E x \in S : \A y \in S : x <= y
  <1> DEFINE R == OpToRel(<, Nat)
  <1>1. IsWellFoundedOn(R, Nat)
    BY NatLessThanWellFounded
  <1>2. \A x, y \in Nat : <<y, x>> \in R <=> y < x
    BY DEF OpToRel
  <1> HIDE DEF R
  <1>3. PICK x \in S : \A y \in S : ~(<<y, x>> \in R)
    BY <1>1, WFMin
  <1>4. \A y \in S : x <= y
    <2> SUFFICES ASSUME NEW y \in S PROVE x <= y
      OBVIOUS
    <2>1. x \in Nat /\ y \in Nat /\ <<y, x>> \notin R
      BY <1>3
    <2>2. ~(y < x)
      BY <1>2, <2>1, Zenon
    <2> QED
      BY <2>1, <2>2, SMT
  <1> QED
    BY <1>4

(* Induction over the numbers up to a bound.                                     *)
LEMMA EachReached ==
    ASSUME NEW n \in Nat, NEW S, 0 \in S,
           \A k \in 0 .. n - 1 : k \in S => k + 1 \in S
    PROVE  \A k \in 0 .. n : k \in S
  <1> DEFINE T == (0 .. n) \ S
  <1> SUFFICES ASSUME T # {} PROVE FALSE
    OBVIOUS
  <1>1. T \in SUBSET Nat
    OBVIOUS
  <1>3. PICK m \in T : \A y \in T : m <= y
    BY <1>1, LeastExists
  <1>4. m # 0 /\ m \in 1 .. n
    BY <1>3
  <1>5. m - 1 \in 0 .. n - 1 /\ m - 1 \notin T
    BY <1>3, <1>4
  <1>6. m - 1 \in S /\ (m - 1) + 1 = m
    BY <1>4, <1>5
  <1> QED
    BY <1>3, <1>5, <1>6

(* Induction over the subsets of a finite set, each reached from the one that    *)
(* lacks the member ch picks.                                                    *)
LEMMA EachSubset ==
    ASSUME NEW S, IsFiniteSet(S), NEW ch, \A s \in SUBSET S : s # {} => ch[s] \in s,
           NEW T, {} \in T,
           \A s \in SUBSET S : s # {} /\ s \ {ch[s]} \in T => s \in T
    PROVE  \A s \in SUBSET S : s \in T
  <1> DEFINE Good == {m \in Nat : \A s \in SUBSET S : Cardinality(s) = m => s \in T}
  <1>1. \A s \in SUBSET S : /\ IsFiniteSet(s) /\ Cardinality(s) \in Nat
                            /\ Cardinality(s) <= Cardinality(S)
                            /\ Cardinality(s) = 0 => s = {}
    BY FS_Subset, FS_CardinalityType, FS_EmptySet
  <1>2. Cardinality(S) \in Nat
    BY FS_CardinalityType
  <1>3. 0 \in Good
    BY <1>1
  <1>4. ASSUME NEW k \in 0 .. Cardinality(S) - 1, k \in Good
        PROVE  k + 1 \in Good
    <2>1. SUFFICES ASSUME NEW s \in SUBSET S, Cardinality(s) = k + 1
                   PROVE  s \in T
      OBVIOUS
    <2>2. s # {} /\ ch[s] \in s
      BY <2>1, FS_EmptySet
    <2>3. Cardinality(s \ {ch[s]}) = Cardinality(s) - 1 /\ s \ {ch[s]} \in SUBSET S
      BY <1>1, <2>2, FS_RemoveElement
    <2>4. s \ {ch[s]} \in T
      BY <1>4, <2>1, <2>3
    <2> QED
      BY <2>2, <2>4
  <1> HIDE DEF Good
  <1>5. \A k \in 0 .. Cardinality(S) : k \in Good
    BY <1>2, <1>3, <1>4, EachReached
  <1>6. \A s \in SUBSET S : Cardinality(s) \in 0 .. Cardinality(S)
    BY <1>1, <1>2
  <1> QED
    BY <1>5, <1>6 DEF Good

(* A fold over a finite set, element by element in the order of ch, has a value. *)
Folds(g, base, step, ch, S) ==
    \A s \in SUBSET S :
        g[s] = IF s = {} THEN base ELSE step[<<g[s \ {ch[s]}], ch[s]>>]

LEMMA FoldExists ==
    ASSUME NEW S, IsFiniteSet(S), NEW ch, \A s \in SUBSET S : s # {} => ch[s] \in s,
           NEW V, NEW base \in V, NEW step \in [V \X S -> V]
    PROVE  \E g \in [SUBSET S -> V] : Folds(g, base, step, ch, S)
  <1> DEFINE Upto(g, m) ==
                \A s \in SUBSET S : Cardinality(s) <= m =>
                   g[s] = IF s = {} THEN base ELSE step[<<g[s \ {ch[s]}], ch[s]>>]
             Good == {m \in Nat : \E g \in [SUBSET S -> V] : Upto(g, m)}
  <1>1. \A s \in SUBSET S : /\ IsFiniteSet(s) /\ Cardinality(s) \in Nat
                            /\ Cardinality(s) <= Cardinality(S)
                            /\ Cardinality(s) = 0 => s = {}
    BY FS_Subset, FS_CardinalityType, FS_EmptySet
  <1>2. Cardinality(S) \in Nat
    BY FS_CardinalityType
  <1>3. 0 \in Good
    <2>1. [s \in SUBSET S |-> base] \in [SUBSET S -> V]
      OBVIOUS
    <2>2. Upto([s \in SUBSET S |-> base], 0)
      BY <1>1
    <2> QED
      BY <2>1, <2>2
  <1>4. ASSUME NEW k \in 0 .. Cardinality(S) - 1, k \in Good
        PROVE  k + 1 \in Good
    <2>1. PICK g \in [SUBSET S -> V] : Upto(g, k)
      BY <1>4
    <2>2. PICK h : h = [s \in SUBSET S |-> IF Cardinality(s) <= k THEN g[s]
                                           ELSE step[<<g[s \ {ch[s]}], ch[s]>>]]
      OBVIOUS
    <2>3. \A s \in SUBSET S : s # {} => /\ ch[s] \in S /\ s \ {ch[s]} \in SUBSET S
                                        /\ Cardinality(s \ {ch[s]}) = Cardinality(s) - 1
      BY <1>1, FS_RemoveElement
    <2>4. \A s \in SUBSET S : s # {} => step[<<g[s \ {ch[s]}], ch[s]>>] \in V
      BY <2>1, <2>3
    <2>5. \A s \in SUBSET S : Cardinality(s) <= k \/ s # {}
      <3>1. Cardinality({}) <= k
        BY <1>2, FS_EmptySet
      <3> QED
        BY <3>1
    <2>6. h \in [SUBSET S -> V]
      BY <2>1, <2>2, <2>4, <2>5
    <2>7. ASSUME NEW s \in SUBSET S, Cardinality(s) <= k + 1
          PROVE  h[s] = IF s = {} THEN base ELSE step[<<h[s \ {ch[s]}], ch[s]>>]
      <3>1. s # {} => h[s \ {ch[s]}] = g[s \ {ch[s]}]
        <4>1. s # {} => Cardinality(s \ {ch[s]}) <= k
          BY <1>1, <2>3, <2>7
        <4> QED
          BY <2>2, <2>3, <4>1
      <3>2. Cardinality(s) <= k =>
               g[s] = IF s = {} THEN base ELSE step[<<g[s \ {ch[s]}], ch[s]>>]
        BY <2>1
      <3> QED
        BY <2>2, <2>5, <3>1, <3>2
    <2>8. Upto(h, k + 1)
      BY <2>7
    <2>9. k + 1 \in Nat
      BY <1>2
    <2> HIDE DEF Upto
    <2> QED
      BY <2>6, <2>8, <2>9
  <1>5. \A k \in 0 .. Cardinality(S) : k \in Good
    <2> HIDE DEF Good
    <2> QED
      BY <1>2, <1>3, <1>4, EachReached
  <1>6. Cardinality(S) \in 0 .. Cardinality(S)
    BY <1>2
  <1>7. PICK g \in [SUBSET S -> V] : Upto(g, Cardinality(S))
    BY <1>5, <1>6
  <1> QED
    BY <1>1, <1>7 DEF Folds

(* a holds the sums of the first k terms of f, for every k up to n.              *)
Adds(a, f, n) == /\ a \in [0 .. n -> Int] /\ a[0] = 0
                 /\ \A k \in 1 .. n : a[k] = a[k - 1] + f[k]

LEMMA AddsAgree ==
    ASSUME NEW m \in Nat, NEW n \in Nat, NEW f, NEW h, NEW a, NEW b,
           Adds(a, f, m), Adds(b, h, n), NEW j \in Nat, j <= m, j <= n,
           \A k \in 1 .. j : h[k] = f[k]
    PROVE  b[j] = a[j]
  <1> DEFINE T == {k \in 0 .. j : b[k] = a[k]}
  <1>1. 0 \in T
    BY DEF Adds
  <1>2. ASSUME NEW k \in 0 .. j - 1, k \in T PROVE k + 1 \in T
    <2>1. k + 1 \in 1 .. m /\ k + 1 \in 1 .. n /\ k + 1 \in 1 .. j /\ (k + 1) - 1 = k
      OBVIOUS
    <2>2. a[k + 1] = a[k] + f[k + 1] /\ b[k + 1] = b[k] + h[k + 1]
      <3>1. a[k + 1] = a[(k + 1) - 1] + f[k + 1] /\ b[k + 1] = b[(k + 1) - 1] + h[k + 1]
        BY <2>1, Zenon DEF Adds
      <3> QED
        BY <2>1, <3>1
    <2> QED
      BY <1>2, <2>1, <2>2
  <1>3. \A k \in 0 .. j : k \in T
    <2> HIDE DEF T
    <2> QED
      BY <1>1, <1>2, EachReached
  <1> QED
    BY <1>3

(* One term more. *)
LEMMA AddsOneMore ==
    ASSUME NEW n \in Nat, NEW f, NEW h, NEW a, NEW b,
           Adds(a, f, n), Adds(b, h, n + 1), \A k \in 1 .. n : h[k] = f[k]
    PROVE  b[n + 1] = a[n] + h[n + 1]
  <1>1. b[n] = a[n]
    BY AddsAgree
  <1>2. n + 1 \in 1 .. n + 1 /\ (n + 1) - 1 = n
    OBVIOUS
  <1> QED
    BY <1>1, <1>2 DEF Adds

(* One term changes. *)
DifferAt(f, h, p, n) == /\ f \in [1 .. n -> Int] /\ h \in [1 .. n -> Int]
                        /\ p \in 1 .. n /\ \A k \in 1 .. n : k # p => h[k] = f[k]

LEMMA AddsOneOther ==
    ASSUME NEW n \in Nat, NEW f, NEW h, NEW p, DifferAt(f, h, p, n),
           NEW a, NEW b, Adds(a, f, n), Adds(b, h, n)
    PROVE  b[n] - h[p] = a[n] - f[p] /\ a[n] \in Int /\ b[n] \in Int
  <1> USE DEF DifferAt
  <1> DEFINE T == {k \in 0 .. n : k >= p => b[k] - h[p] = a[k] - f[p]}
  <1>0. \A k \in 0 .. n : a[k] \in Int /\ b[k] \in Int
    BY DEF Adds
  <1>1. 0 \in T
    OBVIOUS
  <1>2. ASSUME NEW k \in 0 .. n - 1, k \in T PROVE k + 1 \in T
    <2>1. k + 1 \in 1 .. n /\ k \in 0 .. n /\ k + 1 \in 0 .. n /\ (k + 1) - 1 = k
      OBVIOUS
    <2>2. a[k + 1] = a[k] + f[k + 1] /\ b[k + 1] = b[k] + h[k + 1]
      <3>1. a[k + 1] = a[(k + 1) - 1] + f[k + 1] /\ b[k + 1] = b[(k + 1) - 1] + h[k + 1]
        BY <2>1, Zenon DEF Adds
      <3> QED
        BY <2>1, <3>1
    <2>3. a[k] \in Int /\ b[k] \in Int /\ a[k + 1] \in Int /\ b[k + 1] \in Int
      BY <1>0, <2>1
    <2>4. CASE k + 1 = p
      <3>1. b[k] = a[k]
        <4>1. \A j \in 1 .. k : h[j] = f[j]
          BY <2>4
        <4> QED
          BY <4>1, AddsAgree
      <3>2. b[k + 1] = a[k] + h[p] /\ a[k + 1] = a[k] + f[p]
        BY <2>2, <2>4, <3>1
      <3> QED
        BY <2>1, <2>3, <3>2
    <2>5. CASE k + 1 # p /\ k + 1 >= p
      <3>1. k >= p
        BY <2>5
      <3>2. b[k] - h[p] = a[k] - f[p] /\ h[k + 1] = f[k + 1]
        BY <1>2, <2>1, <2>5, <3>1
      <3>3. f[k + 1] \in Int /\ h[p] \in Int /\ f[p] \in Int
        BY <2>1
      <3>4. PICK u \in Int, v \in Int, x \in Int, y \in Int, z \in Int :
               u = a[k] /\ v = b[k] /\ x = f[k + 1] /\ y = h[p] /\ z = f[p]
        BY <2>3, <3>3, Zenon
      <3>5. v - y = u - z
        BY <3>2, <3>4, Zenon
      <3>6. (v + x) - y = (u + x) - z
        BY <3>5
      <3>7. b[k + 1] - h[p] = a[k + 1] - f[p]
        BY <2>2, <3>2, <3>4, <3>6, Zenon
      <3> QED
        BY <2>1, <3>7
    <2>6. CASE ~(k + 1 >= p)
      BY <2>1, <2>6
    <2> QED
      BY <2>4, <2>5, <2>6
  <1>3. \A k \in 0 .. n : k \in T
    <2> HIDE DEF T
    <2> QED
      BY <1>1, <1>2, EachReached
  <1>4. n \in T /\ n >= p /\ n \in 0 .. n
    BY <1>3
  <1> QED
    BY <1>0, <1>4

(* A sum of natural numbers is 0 when they all are. *)
LEMMA AddsNothing ==
    ASSUME NEW n \in Nat, NEW f \in [1 .. n -> Nat], NEW a, Adds(a, f, n)
    PROVE  /\ a[n] \in Nat
           /\ a[n] = 0 <=> \A k \in 1 .. n : f[k] = 0
  <1> DEFINE T == {j \in 0 .. n : a[j] \in Nat /\ (a[j] = 0 <=> \A k \in 1 .. j : f[k] = 0)}
  <1>1. 0 \in T
    BY DEF Adds
  <1>2. ASSUME NEW j \in 0 .. n - 1, j \in T PROVE j + 1 \in T
    <2>1. j + 1 \in 1 .. n /\ j + 1 \in 0 .. n /\ (j + 1) - 1 = j
      OBVIOUS
    <2>2. a[j + 1] = a[j] + f[j + 1]
      <3>1. a[j + 1] = a[(j + 1) - 1] + f[j + 1]
        BY <2>1, Zenon DEF Adds
      <3> QED
        BY <2>1, <3>1
    <2>3. a[j] \in Nat /\ f[j + 1] \in Nat
      BY <1>2, <2>1
    <2>4. 1 .. j + 1 = (1 .. j) \cup {j + 1}
      OBVIOUS
    <2>5. (\A k \in 1 .. j + 1 : f[k] = 0) <=> (\A k \in 1 .. j : f[k] = 0) /\ f[j + 1] = 0
      BY <2>4, Zenon
    <2>6. a[j + 1] \in Nat /\ (a[j + 1] = 0 <=> a[j] = 0 /\ f[j + 1] = 0)
      BY <2>2, <2>3
    <2>7. a[j] = 0 <=> \A k \in 1 .. j : f[k] = 0
      BY <1>2
    <2> QED
      BY <2>1, <2>5, <2>6, <2>7
  <1>3. \A j \in 0 .. n : j \in T
    <2> HIDE DEF T
    <2> QED
      BY <1>1, <1>2, EachReached
  <1>4. n \in T
    BY <1>3
  <1> QED
    BY <1>4

(* A sum over a finite set, in the order CHOOSE picks its members. *)
SumsOver(g, f, S) ==
    g = [s \in SUBSET S |-> IF s = {} THEN 0
                            ELSE f[CHOOSE x \in s : TRUE] + g[s \ {CHOOSE x \in s : TRUE}]]

SumOver(f, S) == (CHOOSE g : SumsOver(g, f, S))[S]

LEMMA SumsOverExists ==
    ASSUME NEW S, IsFiniteSet(S), NEW f, \A x \in S : f[x] \in Int
    PROVE  \E g : SumsOver(g, f, S)
  <1>0. PICK ch, step : /\ ch = [s \in SUBSET S |-> CHOOSE x \in s : TRUE]
                        /\ step = [w \in Int \X S |-> f[w[2]] + w[1]]
    OBVIOUS
  <1>1. \A s \in SUBSET S : s # {} => ch[s] \in s
    BY <1>0
  <1>2. step \in [Int \X S -> Int] /\ 0 \in Int
    BY <1>0
  <1>3. \A v \in Int, x \in S : step[<<v, x>>] = f[x] + v
    BY <1>0
  <1>4. \A s \in SUBSET S : ch[s] = CHOOSE x \in s : TRUE
    BY <1>0
  <1>5. PICK g \in [SUBSET S -> Int] : Folds(g, 0, step, ch, S)
    BY <1>1, <1>2, FoldExists
  <1>6. ASSUME NEW s \in SUBSET S
        PROVE  g[s] = IF s = {} THEN 0 ELSE f[ch[s]] + g[s \ {ch[s]}]
    <2>1. g[s] = IF s = {} THEN 0 ELSE step[<<g[s \ {ch[s]}], ch[s]>>]
      BY <1>5 DEF Folds
    <2>2. s # {} => ch[s] \in S /\ g[s \ {ch[s]}] \in Int
      BY <1>1, <1>5
    <2> QED
      BY <1>3, <2>1, <2>2, Zenon
  <1>7. ASSUME NEW s \in SUBSET S
        PROVE  g[s] = IF s = {} THEN 0
                      ELSE f[CHOOSE x \in s : TRUE] + g[s \ {CHOOSE x \in s : TRUE}]
    BY <1>4, <1>6, Zenon
  <1>8. g = [s \in SUBSET S |-> g[s]]
    BY <1>5
  <1> QED
    <2>1. [s \in SUBSET S |-> g[s]]
             = [s \in SUBSET S |->
                   IF s = {} THEN 0
                   ELSE f[CHOOSE x \in s : TRUE] + g[s \ {CHOOSE x \in s : TRUE}]]
      BY <1>7, Zenon
    <2>2. SumsOver(g, f, S)
      BY <1>8, <2>1 DEF SumsOver
    <2> QED
      BY <2>2

LEMMA SumOverOneOther ==
    ASSUME NEW S, IsFiniteSet(S), NEW f \in [S -> Int], NEW h \in [S -> Int], NEW p \in S,
           \A x \in S : x # p => h[x] = f[x]
    PROVE  /\ SumOver(h, S) - h[p] = SumOver(f, S) - f[p]
           /\ SumOver(h, S) \in Int /\ SumOver(f, S) \in Int
  <1> DEFINE ch == [s \in SUBSET S |-> CHOOSE x \in s : TRUE]
  <1>1. \A s \in SUBSET S : s # {} => ch[s] \in s
    OBVIOUS
  <1>2. \A s \in SUBSET S : ch[s] = CHOOSE x \in s : TRUE
    OBVIOUS
  <1> HIDE DEF ch
  <1>3. PICK a : a = CHOOSE g : SumsOver(g, f, S)
    OBVIOUS
  <1>4. PICK b : b = CHOOSE g : SumsOver(g, h, S)
    OBVIOUS
  <1>5. SumsOver(a, f, S) /\ SumsOver(b, h, S)
    <2>1. \A x \in S : f[x] \in Int /\ h[x] \in Int
      OBVIOUS
    <2>2. (\E g : SumsOver(g, f, S)) /\ \E g : SumsOver(g, h, S)
      BY <2>1, SumsOverExists, Zenon
    <2> QED
      BY <1>3, <1>4, <2>2, Zenon
  <1>6. \A s \in SUBSET S : /\ a[s] = IF s = {} THEN 0 ELSE f[ch[s]] + a[s \ {ch[s]}]
                            /\ b[s] = IF s = {} THEN 0 ELSE h[ch[s]] + b[s \ {ch[s]}]
    <2>1. ASSUME NEW s \in SUBSET S
          PROVE  a[s] = IF s = {} THEN 0 ELSE f[ch[s]] + a[s \ {ch[s]}]
      BY <1>2, <1>5, Zenon DEF SumsOver
    <2>2. ASSUME NEW s \in SUBSET S
          PROVE  b[s] = IF s = {} THEN 0 ELSE h[ch[s]] + b[s \ {ch[s]}]
      BY <1>2, <1>5, Zenon DEF SumsOver
    <2> QED
      BY <2>1, <2>2
  <1> DEFINE Agree(s, x, y) ==
                x \in Int /\ y \in Int /\ y = IF p \in s THEN x + (h[p] - f[p]) ELSE x
             T == {s \in SUBSET S : Agree(s, a[s], b[s])}
  <1>7. {} \in T
    <2>1. a[{}] = 0 /\ b[{}] = 0
      BY <1>6
    <2> QED
      BY <2>1
  <1>8. ASSUME NEW s \in SUBSET S, s # {}, s \ {ch[s]} \in T
        PROVE  s \in T
    <2>1. PICK x, y, c, u, v, rest : /\ c = ch[s] /\ rest = s \ {c} /\ x = a[rest] /\ y = b[rest]
                                     /\ u = f[c] /\ v = h[c]
      OBVIOUS
    <2>2. c \in s /\ c \in S /\ u \in Int /\ v \in Int /\ f[p] \in Int /\ h[p] \in Int
      BY <1>1, <1>8, <2>1
    <2>3. Agree(rest, x, y)
      BY <1>8, <2>1
    <2>4. a[s] = u + x /\ b[s] = v + y
      BY <1>6, <1>8, <2>1, Zenon
    <2>5. c # p => v = u
      BY <2>1, <2>2
    <2>6. PICK fp, hp : fp = f[p] /\ hp = h[p]
      OBVIOUS
    <2>7. x \in Int /\ y \in Int /\ fp \in Int /\ hp \in Int
      BY <2>2, <2>3, <2>6
    <2>8. CASE c = p
      <3>1. p \notin rest /\ p \in s /\ u = fp /\ v = hp
        BY <2>1, <2>2, <2>6, <2>8
      <3>2. y = x
        BY <2>3, <3>1
      <3>3. v + y = (u + x) + (hp - fp) /\ u + x \in Int /\ v + y \in Int
        BY <2>7, <3>1, <3>2
      <3>4. Agree(s, u + x, v + y)
        BY <2>6, <3>1, <3>3
      <3> QED
        BY <2>4, <3>4
    <2>9. CASE c # p
      <3>1. (p \in rest <=> p \in s) /\ v = u
        BY <2>1, <2>5, <2>9
      <3>2. y = IF p \in s THEN x + (hp - fp) ELSE x
        BY <2>3, <2>6, <3>1
      <3>3. /\ v + y = IF p \in s THEN (u + x) + (hp - fp) ELSE u + x
            /\ u + x \in Int /\ v + y \in Int
        BY <2>2, <2>7, <3>1, <3>2
      <3>4. Agree(s, u + x, v + y)
        BY <2>6, <3>3
      <3> QED
        BY <2>4, <3>4
    <2> QED
      BY <2>8, <2>9
  <1>9. S \in T
    <2> HIDE DEF T
    <2>1. \A s \in SUBSET S : s \in T
      BY <1>1, <1>7, <1>8, EachSubset
    <2> QED
      BY <2>1
  <1>10. Agree(S, a[S], b[S]) /\ SumOver(f, S) = a[S] /\ SumOver(h, S) = b[S]
    BY <1>3, <1>4, <1>9 DEF SumOver
  <1>11. PICK x, y, u, v : x = a[S] /\ y = b[S] /\ u = f[p] /\ v = h[p]
    OBVIOUS
  <1>12. x \in Int /\ y \in Int /\ u \in Int /\ v \in Int /\ y = x + (v - u)
    BY <1>10, <1>11
  <1>13. y - v = x - u
    BY <1>12
  <1> QED
    BY <1>10, <1>11, <1>12, <1>13
=============================================================================
