---------------------------- MODULE WindowsProofs ----------------------------
(***************************************************************************)
(* The two components that write to a Windows host, one after the other.   *)
(*                                                                         *)
(* Nrpt, for any sessions, instances, rules and number of faults: rules    *)
(* are guarded, a session that is down has left none, and a janitor that   *)
(* has swept leaves none.  No sweep takes a rule of another live session,  *)
(* but those of an instance whose name is nested in the one swept.         *)
(*                                                                         *)
(* RouteWindows, for any list of routes, any neighbours and any number of  *)
(* processes one after the other: what apply, rollback and revert leave.   *)
(***************************************************************************)
EXTENDS Nrpt, RouteWindows, Integers, SequenceTheorems, TLAPS

-----------------------------------------------------------------------------
(* ScopeNames. *)

\* IsPrefix compares element by element.
LEMMA PrefixIsPointwise ==
  ASSUME NEW S, NEW s \in Seq(S), NEW t \in Seq(S)
  PROVE  IsPrefix(s, t) <=> Len(s) <= Len(t) /\ \A j \in 1..Len(s) : s[j] = t[j]
<1>1. Len(s) \in Nat /\ Len(t) \in Nat
  OBVIOUS
<1>2. CASE Len(s) <= Len(t)
  <2> DEFINE u == SubSeq(s, 1, Len(s))
             v == SubSeq(t, 1, Len(s))
  <2>1. /\ u \in Seq(S) /\ Len(u) = Len(s)
        /\ \A j \in 1..Len(s) : u[j] = s[j]
    <3>1. \A j \in 1..Len(s) : s[j] \in S
      OBVIOUS
    <3> QED BY <1>1, <3>1, SubSeqProperties
  <2>2. /\ v \in Seq(S) /\ Len(v) = Len(s)
        /\ \A j \in 1..Len(s) : v[j] = t[j]
    <3>1. \A j \in 1..Len(s) : t[j] \in S
      BY <1>1, <1>2
    <3> QED BY <1>1, <3>1, SubSeqProperties
  <2> HIDE DEF u, v
  <2>3. u = v <=> \A j \in 1..Len(s) : u[j] = v[j]
    BY <2>1, <2>2, SeqEqual
  <2>4. IsPrefix(s, t) <=> u = v
    BY <1>2 DEF IsPrefix, u, v
  <2> QED BY <1>2, <2>1, <2>2, <2>3, <2>4
<1>3. CASE ~(Len(s) <= Len(t))
  BY <1>3 DEF IsPrefix
<1> QED BY <1>2, <1>3

\* Of two prefixes of one sequence, one is a prefix of the other.
LEMMA PrefixesNest ==
  ASSUME NEW S, NEW s \in Seq(S), NEW t \in Seq(S), NEW u \in Seq(S),
         IsPrefix(s, t \o u)
  PROVE  IsPrefix(s, t) \/ IsPrefix(t, s)
<1> DEFINE w == t \o u
<1>1. Len(s) \in Nat /\ Len(t) \in Nat /\ Len(u) \in Nat
  OBVIOUS
<1>2. /\ w \in Seq(S)
      /\ \A j \in 1..Len(t) : w[j] = t[j]
  BY <1>1, ConcatProperties
<1>3. IsPrefix(s, w)
  OBVIOUS
<1> HIDE DEF w
<1>4. \A j \in 1..Len(s) : s[j] = w[j]
  BY <1>2, <1>3, PrefixIsPointwise
<1>5. CASE Len(s) <= Len(t)
  <2>1. \A j \in 1..Len(s) : s[j] = t[j]
    BY <1>1, <1>2, <1>4, <1>5
  <2> QED BY <1>5, <2>1, PrefixIsPointwise
<1>6. CASE Len(t) <= Len(s)
  <2>1. \A j \in 1..Len(t) : t[j] = s[j]
    BY <1>1, <1>2, <1>4, <1>6
  <2> QED BY <1>6, <2>1, PrefixIsPointwise
<1> QED BY <1>1, <1>5, <1>6

\* A prefix that is not the whole is shorter.
LEMMA ProperPrefixIsShorter ==
  ASSUME NEW S, NEW s \in Seq(S), NEW t \in Seq(S), IsPrefix(s, t), s # t
  PROVE  Len(s) + 1 \in 1..Len(t)
<1>1. Len(s) \in Nat /\ Len(t) \in Nat
  OBVIOUS
<1>2. Len(s) <= Len(t) /\ \A j \in 1..Len(s) : s[j] = t[j]
  BY PrefixIsPointwise
<1>3. Len(s) # Len(t)
  BY <1>2, SeqEqual
<1> QED BY <1>1, <1>2, <1>3

Symbols == Segments \union Sessions \union Rands

\* Names and key names are sequences of segments, tokens and random parts.
LEMMA KeyNames ==
  ASSUME name \in [Sessions -> Names], NEW k \in Keys
  PROVE  /\ Owner(k) \in Sessions
         /\ Names \subseteq Seq(Symbols)
         /\ <<Owner(k), k[2]>> \in Seq(Symbols)
         /\ KeyName(k) \in Seq(Symbols)
<1>1. Owner(k) \in Sessions /\ k[2] \in Rands
  BY DEF Keys, Owner
<1>2. Names \subseteq Seq(Symbols)
  <2>1. Seq(Segments) \subseteq Seq(Symbols)
    BY SeqMonotonic DEF Symbols
  <2> QED BY <2>1, NamesAssumption
<1>3. <<Owner(k), k[2]>> \in Seq(Symbols)
  BY <1>1 DEF Symbols
<1>4. name[Owner(k)] \in Seq(Symbols)
  BY <1>1, <1>2
<1> QED BY <1>1, <1>2, <1>3, <1>4, ConcatProperties DEF KeyName

\* The janitor's scope takes every rule of its session.
LEMMA OwnScopeTakesOwn ==
  ASSUME name \in [Sessions -> Names], NEW k \in Keys
  PROVE  InScope(k, OwnerScope(Owner(k)))
<1> DEFINE n == name[Owner(k)]
           t == <<Owner(k), k[2]>>
           s == Append(n, Owner(k))
<1>1. /\ Owner(k) \in Symbols /\ n \in Seq(Symbols) /\ t \in Seq(Symbols)
      /\ Len(t) = 2 /\ t[1] = Owner(k)
  BY KeyNames DEF Symbols
<1>2. Len(n) \in Nat
  BY <1>1
<1>3. /\ s \in Seq(Symbols) /\ Len(s) = Len(n) + 1
      /\ \A j \in 1..Len(n) : s[j] = n[j]
      /\ s[Len(n) + 1] = Owner(k)
  BY <1>1, AppendProperties
<1> HIDE DEF n, t, s
<1>4. /\ n \o t \in Seq(Symbols) /\ Len(n \o t) = Len(n) + Len(t)
      /\ \A j \in 1..Len(n) + Len(t) :
           (n \o t)[j] = IF j <= Len(n) THEN n[j] ELSE t[j - Len(n)]
  BY <1>1, ConcatProperties
<1>5. \A j \in 1..Len(s) : s[j] = (n \o t)[j]
  BY <1>1, <1>2, <1>3, <1>4
<1>6. IsPrefix(s, n \o t)
  <2> DEFINE w == n \o t
  <2>1. w \in Seq(Symbols) /\ Len(s) <= Len(w) /\ \A j \in 1..Len(s) : s[j] = w[j]
    BY <1>1, <1>2, <1>3, <1>4, <1>5
  <2> HIDE DEF w
  <2>2. IsPrefix(s, w)
    BY <1>3, <2>1, PrefixIsPointwise
  <2> QED BY <2>2 DEF w
<1> QED BY <1>6 DEF InScope, OwnerScope, KeyName, n, t, s

\* A key has its name in front, then its token.
LEMMA KeyByParts ==
  ASSUME name \in [Sessions -> Names], NEW k \in Keys
  PROVE  LET m == name[Owner(k)] IN
           /\ m \in Names /\ m \in Seq(Symbols) /\ Len(m) \in Nat
           /\ Len(KeyName(k)) = Len(m) + 2
           /\ \A j \in 1..Len(m) : KeyName(k)[j] = m[j]
           /\ KeyName(k)[Len(m) + 1] = Owner(k)
<1> DEFINE m == name[Owner(k)]
           t == <<Owner(k), k[2]>>
<1>1. /\ m \in Names /\ m \in Seq(Symbols) /\ t \in Seq(Symbols)
      /\ Len(t) = 2 /\ t[1] = Owner(k)
  BY KeyNames
<1>2. KeyName(k) = m \o t
  BY DEF KeyName
<1> HIDE DEF m, t
<1>3. Len(m) \in Nat
  BY <1>1
<1>4. /\ Len(m \o t) = Len(m) + Len(t)
      /\ \A j \in 1..Len(m) + Len(t) :
           (m \o t)[j] = IF j <= Len(m) THEN m[j] ELSE t[j - Len(m)]
  BY <1>1, ConcatProperties
<1>5. \A j \in 1..Len(m) : (m \o t)[j] = m[j]
  BY <1>1, <1>3, <1>4
<1>6. (m \o t)[Len(m) + 1] = t[1]
  <2>1. Len(m) + 1 \in 1..Len(m) + Len(t) /\ ~(Len(m) + 1 <= Len(m))
        /\ (Len(m) + 1) - Len(m) = 1
    BY <1>1, <1>3
  <2> QED BY <1>4, <2>1
<1>7. /\ m \in Names /\ m \in Seq(Symbols) /\ Len(m) \in Nat
      /\ Len(KeyName(k)) = Len(m) + 2
      /\ \A j \in 1..Len(m) : KeyName(k)[j] = m[j]
      /\ KeyName(k)[Len(m) + 1] = Owner(k)
  BY <1>1, <1>2, <1>3, <1>4, <1>5, <1>6
<1> QED BY <1>7 DEF m

\* No segment of a name is a token.
LEMMA SegmentsAreNoTokens ==
  ASSUME NEW n \in Names, NEW j \in 1..Len(n)
  PROVE  n[j] \notin Sessions
<1>1. n \in Seq(Segments)
  BY NamesAssumption
<1>2. n[j] \in Segments
  BY <1>1
<1> QED BY <1>2, TokensAssumption

\* The scope of an instance takes the rules of that instance, and of those
\* whose names are nested in its own.
LEMMA InstanceScopeTakes ==
  ASSUME name \in [Sessions -> Names],
         NEW k \in Keys, NEW n \in Names, InScope(k, InstanceScope(n))
  PROVE  n = name[Owner(k)] \/ Nested(n, name[Owner(k)])
<1> DEFINE m == name[Owner(k)]
<1>1. m \in Names /\ m \in Seq(Symbols) /\ n \in Seq(Symbols) /\ KeyName(k) \in Seq(Symbols)
  BY KeyByParts, KeyNames
<1>2. IsPrefix(n, m) \/ IsPrefix(m, n)
  BY <1>1, KeyNames, PrefixesNest DEF InScope, InstanceScope, KeyName
<1>3. ASSUME IsPrefix(m, n), m # n PROVE FALSE
  <2>1. Len(m) + 1 \in 1..Len(n)
    BY <1>1, <1>3, ProperPrefixIsShorter
  <2>2. n[Len(m) + 1] = KeyName(k)[Len(m) + 1]
    BY <1>1, <2>1, PrefixIsPointwise DEF InScope, InstanceScope
  <2>3. n[Len(m) + 1] = Owner(k)
    BY <2>2, KeyByParts
  <2> QED BY <2>1, <2>3, KeyNames, SegmentsAreNoTokens
<1> QED BY <1>2, <1>3 DEF Nested

\* The janitor's scope takes the rules of its session only, nested or not.
LEMMA OwnerScopeIsExact ==
  ASSUME name \in [Sessions -> Names],
         NEW k \in Keys, NEW p \in Sessions, InScope(k, OwnerScope(p))
  PROVE  Owner(k) = p
<1> DEFINE n == name[p]
           m == name[Owner(k)]
           s == Append(n, p)
<1>1. /\ p \in Symbols /\ n \in Names /\ n \in Seq(Symbols)
      /\ m \in Names /\ m \in Seq(Symbols)
      /\ KeyName(k) \in Seq(Symbols)
  BY KeyNames, KeyByParts DEF Symbols
<1>2. Len(n) \in Nat /\ Len(KeyName(k)) \in Nat
  BY <1>1
<1>3. /\ s \in Seq(Symbols) /\ Len(s) = Len(n) + 1
      /\ \A j \in 1..Len(n) : s[j] = n[j]
      /\ s[Len(n) + 1] = p
  BY <1>1, AppendProperties
<1>a. IsPrefix(s, KeyName(k))
  BY DEF InScope, OwnerScope
<1> HIDE DEF s
<1>4. /\ Len(s) <= Len(KeyName(k))
      /\ \A j \in 1..Len(s) : s[j] = KeyName(k)[j]
  BY <1>1, <1>3, <1>a, PrefixIsPointwise
<1>5. InScope(k, InstanceScope(n))
  <2>1. /\ Len(n) <= Len(KeyName(k))
        /\ \A j \in 1..Len(n) : n[j] = KeyName(k)[j]
    BY <1>2, <1>3, <1>4
  <2>2. IsPrefix(n, KeyName(k))
    BY <1>1, <2>1, PrefixIsPointwise
  <2> QED BY <2>2 DEF InScope, InstanceScope
<1>6. n = m \/ Nested(n, m)
  BY <1>1, <1>5, InstanceScopeTakes
<1>7. KeyName(k)[Len(n) + 1] = p
  BY <1>2, <1>3, <1>4
<1>8. CASE n = m
  BY <1>7, <1>8, KeyByParts
<1>9. CASE Nested(n, m)
  <2>1. Len(n) + 1 \in 1..Len(m)
    BY <1>1, <1>9, ProperPrefixIsShorter DEF Nested
  <2>2. m[Len(n) + 1] = p
    BY <1>7, <2>1, KeyByParts
  <2> QED BY <1>1, <2>1, <2>2, SegmentsAreNoTokens
<1> QED BY <1>6, <1>8, <1>9

-----------------------------------------------------------------------------
(* Sweepers: who they are, and that they are different. *)

LEMMA SweeperFacts ==
  /\ \A p \in Sessions : Self(p) \in Sweepers /\ Crash(p) \in Sweepers
                           /\ Janitor(p) \in Sweepers
  /\ \A r \in Recoveries : Recover(r) \in Sweepers
  /\ \A p, q \in Sessions : /\ Self(p) # Crash(q) /\ Self(p) # Janitor(q)
                            /\ Crash(p) # Janitor(q)
                            /\ Self(p) = Self(q) => p = q
                            /\ Crash(p) = Crash(q) => p = q
                            /\ Janitor(p) = Janitor(q) => p = q
  /\ \A p \in Sessions, r \in Recoveries :
       Recover(r) # Self(p) /\ Recover(r) # Crash(p) /\ Recover(r) # Janitor(p)
  /\ \A a \in Sweepers : \/ \E p \in Sessions : a \in {Self(p), Crash(p), Janitor(p)}
                         \/ \E r \in Recoveries : a = Recover(r)
  /\ \A p \in Sessions : Self(p)[1] = p /\ Crash(p)[1] = p /\ Janitor(p)[1] = p
BY DEF Self, Crash, Janitor, Recover, Sweepers

-----------------------------------------------------------------------------
(* Typing. *)

ScopeNames == Seq(Segments \union Sessions)
SweepStates == [stage : {"idle", "listing", "deleting"}, scope : ScopeNames,
                todo : SUBSET Keys]
Phases == Bound \union {"off", "presweep", "ready", "leaving", "left", "killed"}

Ranges ==
  /\ pc \in [Sessions -> Phases]
  /\ name \in [Sessions -> Names]
  /\ keys \subseteq Keys /\ cache \subseteq Keys /\ denied \subseteq Keys
  /\ parked \in BOOLEAN /\ faults \in 0..MaxFaults
  /\ used \in [Sessions -> SUBSET Keys] /\ mine \in [Sessions -> SUBSET Keys]
  /\ armed \subseteq Sessions /\ ending \in [Sessions -> {"no", "closed", "wedged"}]
  /\ janitor \in [Sessions -> {"none", "failed", "waiting", "sweeping", "swept",
                               "untold", "gaveup", "killed"}]
  /\ sweep \in [Sweepers -> SweepStates]

\* A session, its sweeps and its guards move together.
LinkOf(p) ==
  /\ pc[p] \in {"presweep", "applysweep", "panicsweep", "recovering"}
       <=> sweep[Self(p)].stage # "idle"
  /\ janitor[p] = "sweeping" <=> sweep[Janitor(p)].stage # "idle"
  /\ ending[p] # "no" => sweep[Crash(p)].stage # "idle"
  /\ sweep[Crash(p)].stage # "idle" => pc[p] \in Bound \union {"leaving"}
  /\ p \in armed => pc[p] \in Bound \union {"leaving"}

Links == \A p \in Sessions : LinkOf(p)

Typed == Ranges /\ Links

LEMMA ScopesAreTyped ==
  ASSUME name \in [Sessions -> Names]
  PROVE  /\ All \in ScopeNames
         /\ \A n \in Names : InstanceScope(n) \in ScopeNames
         /\ \A p \in Sessions : InstanceScope(name[p]) \in ScopeNames
         /\ \A p \in Sessions : OwnerScope(p) \in ScopeNames
<1>1. Names \subseteq ScopeNames
  <2>1. Seq(Segments) \subseteq ScopeNames
    BY SeqMonotonic DEF ScopeNames
  <2> QED BY <2>1, NamesAssumption
<1>2. ASSUME NEW p \in Sessions PROVE OwnerScope(p) \in ScopeNames
  <2>1. name[p] \in Seq(Segments \union Sessions)
    BY <1>1 DEF ScopeNames
  <2> QED BY <2>1, AppendProperties DEF OwnerScope, ScopeNames
<1>3. All \in ScopeNames
  BY DEF All, ScopeNames
<1> QED BY <1>1, <1>2, <1>3 DEF InstanceScope

\* Beginning and ending a sweep.
LEMMA SweepUpdates ==
  ASSUME Ranges
  PROVE  /\ Idle \in SweepStates
         /\ \A c \in ScopeNames : Listing(c) \in SweepStates
         /\ \A c \in ScopeNames : Listing(c).stage = "listing" /\ Listing(c).scope = c
                                  /\ Listing(c).todo = {}
         /\ Idle.stage = "idle" /\ Idle.todo = {}
         /\ \A a \in Sweepers, T \in SUBSET Keys :
              /\ [Idle EXCEPT !.stage = "deleting", !.todo = T] \in SweepStates
              /\ [Idle EXCEPT !.stage = "deleting", !.todo = T].stage = "deleting"
              /\ [Idle EXCEPT !.stage = "deleting", !.todo = T].todo = T
         /\ \A a \in Sweepers : sweep[a].todo \subseteq Keys
<1>1. All \in ScopeNames
  BY DEF All, ScopeNames
<1> QED BY <1>1 DEF Idle, Listing, SweepStates, Ranges

-----------------------------------------------------------------------------
(* Typing: the steps. *)

\* One sweep changes, the others do not; said session by session.
OnlySelf(p) ==
  \A q \in Sessions : /\ q # p => sweep'[Self(q)] = sweep[Self(q)]
                      /\ sweep'[Crash(q)] = sweep[Crash(q)]
                      /\ sweep'[Janitor(q)] = sweep[Janitor(q)]
OnlyCrash(p) ==
  \A q \in Sessions : /\ q # p => sweep'[Crash(q)] = sweep[Crash(q)]
                      /\ sweep'[Self(q)] = sweep[Self(q)]
                      /\ sweep'[Janitor(q)] = sweep[Janitor(q)]
OnlyJanitor(p) ==
  \A q \in Sessions : /\ q # p => sweep'[Janitor(q)] = sweep[Janitor(q)]
                      /\ sweep'[Crash(q)] = sweep[Crash(q)]
                      /\ sweep'[Self(q)] = sweep[Self(q)]
NoSessions ==
  \A q \in Sessions : /\ sweep'[Janitor(q)] = sweep[Janitor(q)]
                      /\ sweep'[Crash(q)] = sweep[Crash(q)]
                      /\ sweep'[Self(q)] = sweep[Self(q)]
OnlyOf(a) ==
  /\ \A p \in Sessions : /\ a = Self(p) => OnlySelf(p)
                         /\ a = Crash(p) => OnlyCrash(p)
                         /\ a = Janitor(p) => OnlyJanitor(p)
  /\ \A r \in Recoveries : a = Recover(r) => NoSessions

LEMMA OneSweepChanges ==
  ASSUME Ranges, NEW a \in Sweepers, NEW s \in SweepStates,
         sweep' = [sweep EXCEPT ![a] = s]
  PROVE  /\ sweep' \in [Sweepers -> SweepStates]
         /\ sweep'[a] = s
         /\ \A b \in Sweepers : b # a => sweep'[b] = sweep[b]
         /\ OnlyOf(a)
<1>1. sweep \in [Sweepers -> SweepStates]
  BY DEF Ranges
<1>2. /\ sweep' \in [Sweepers -> SweepStates]
      /\ sweep'[a] = s
      /\ \A b \in Sweepers : b # a => sweep'[b] = sweep[b]
  BY <1>1
<1>3. OnlyOf(a)
  BY <1>2, SweeperFacts DEF OnlyOf, OnlySelf, OnlyCrash, OnlyJanitor, NoSessions
<1> QED BY <1>2, <1>3

LEMMA BeginFacts ==
  ASSUME Ranges, NEW a \in Sweepers, NEW c \in ScopeNames, Begin(a, c)
  PROVE  /\ sweep' \in [Sweepers -> SweepStates]
         /\ sweep'[a].stage = "listing" /\ sweep'[a].scope = c /\ sweep'[a].todo = {}
         /\ \A b \in Sweepers : b # a => sweep'[b] = sweep[b]
         /\ OnlyOf(a)
<1>1. /\ Listing(c) \in SweepStates /\ Listing(c).stage = "listing"
      /\ Listing(c).scope = c /\ Listing(c).todo = {}
  BY SweepUpdates
<1> QED BY <1>1, OneSweepChanges DEF Begin

LEMMA IdleFacts ==
  ASSUME Ranges, NEW a \in Sweepers, sweep' = [sweep EXCEPT ![a] = Idle]
  PROVE  /\ sweep' \in [Sweepers -> SweepStates]
         /\ sweep'[a].stage = "idle" /\ sweep'[a].todo = {}
         /\ \A b \in Sweepers : b # a => sweep'[b] = sweep[b]
         /\ OnlyOf(a)
<1>1. Idle \in SweepStates /\ Idle.stage = "idle" /\ Idle.todo = {}
  BY SweepUpdates
<1> QED BY <1>1, OneSweepChanges

LEMMA EndedFacts ==
  ASSUME Ranges, NEW p \in Sessions,
         sweep' = [sweep EXCEPT ![Self(p)] = Idle, ![Crash(p)] = Idle]
  PROVE  /\ sweep' \in [Sweepers -> SweepStates]
         /\ sweep'[Self(p)].stage = "idle" /\ sweep'[Self(p)].todo = {}
         /\ sweep'[Crash(p)].stage = "idle" /\ sweep'[Crash(p)].todo = {}
         /\ \A q \in Sessions : /\ sweep'[Janitor(q)] = sweep[Janitor(q)]
                                /\ q # p => sweep'[Self(q)] = sweep[Self(q)]
                                /\ q # p => sweep'[Crash(q)] = sweep[Crash(q)]
<1>1. Idle \in SweepStates /\ Idle.stage = "idle" /\ Idle.todo = {}
  BY SweepUpdates
<1>2. sweep \in [Sweepers -> SweepStates]
  BY DEF Ranges
<1>3. /\ sweep' \in [Sweepers -> SweepStates]
      /\ sweep'[Self(p)] = Idle /\ sweep'[Crash(p)] = Idle
      /\ \A b \in Sweepers : b # Self(p) /\ b # Crash(p) => sweep'[b] = sweep[b]
  BY <1>1, <1>2, SweeperFacts
<1> QED BY <1>1, <1>3, SweeperFacts

LEMMA ListsFacts ==
  ASSUME Ranges, NEW a \in Sweepers, SweepLists(a)
  PROVE  /\ sweep' \in [Sweepers -> SweepStates]
         /\ sweep'[a].stage = "deleting"
         /\ sweep'[a].todo = {k \in keys : InScope(k, sweep[a].scope)}
         /\ \A b \in Sweepers : b # a => sweep'[b] = sweep[b]
         /\ OnlyOf(a)
<1> DEFINE T == {k \in keys : InScope(k, sweep[a].scope)}
           s == [Idle EXCEPT !.stage = "deleting", !.todo = T]
<1>1. T \subseteq Keys
  BY DEF Ranges
<1> HIDE DEF T
<1>2. s \in SweepStates /\ s.stage = "deleting" /\ s.todo = T
  BY <1>1, SweepUpdates
<1>3. sweep' = [sweep EXCEPT ![a] = s]
  BY DEF SweepLists, T
<1> HIDE DEF s
<1> QED BY <1>2, <1>3, OneSweepChanges DEF T

LEMMA DeletesFacts ==
  ASSUME Ranges, NEW a \in Sweepers, NEW k,
         sweep' = [sweep EXCEPT ![a].todo = @ \ {k}]
  PROVE  /\ sweep' \in [Sweepers -> SweepStates]
         /\ sweep'[a].stage = sweep[a].stage /\ sweep'[a].scope = sweep[a].scope
         /\ sweep'[a].todo = sweep[a].todo \ {k}
         /\ \A b \in Sweepers : b # a => sweep'[b] = sweep[b]
         /\ OnlyOf(a)
<1> DEFINE s == [sweep[a] EXCEPT !.todo = @ \ {k}]
<1>1. sweep[a] \in SweepStates
  BY DEF Ranges
<1>2. /\ s \in SweepStates /\ s.stage = sweep[a].stage /\ s.scope = sweep[a].scope
      /\ s.todo = sweep[a].todo \ {k}
  BY <1>1 DEF SweepStates
<1>3. sweep' = [sweep EXCEPT ![a] = s]
  BY DEF Ranges
<1> HIDE DEF s
<1> QED BY <1>2, <1>3, OneSweepChanges

\* DnsCache is told, refuses or does not answer.
Told == /\ cache' \subseteq Keys /\ parked' \in BOOLEAN /\ faults' \in 0..MaxFaults

LEMMA NotifyFacts ==
  ASSUME Ranges, Delivered \/ Refused \/ Unconfirmed
  PROVE  Told
<1> USE FaultsAssumption DEF Ranges, Told
<1>1. CASE Delivered
  BY <1>1 DEF Delivered
<1>2. CASE Refused
  BY <1>2 DEF Refused, Fault
<1>3. CASE Unconfirmed
  BY <1>3 DEF Unconfirmed, Fault
<1> QED BY <1>1, <1>2, <1>3

LEMMA EndsFacts ==
  ASSUME Ranges, NEW a \in Sweepers, Ends(a)
  PROVE  Told
<1>1. CASE ListFails(a)
  BY <1>1, FaultsAssumption DEF ListFails, Fault, Ranges, Told
<1>2. CASE Notifies(a)
  BY <1>2, NotifyFacts DEF Notifies
<1> QED BY <1>1, <1>2 DEF Ends

LEMMA EndedIsLinked ==
  ASSUME Typed, NEW p \in Sessions, NEW how \in {"left", "killed"},
         Ended(p, how), UNCHANGED janitor
  PROVE  /\ sweep' \in [Sweepers -> SweepStates]
         /\ Links'
<1> USE DEF Typed
<1>1. /\ sweep' \in [Sweepers -> SweepStates]
      /\ sweep'[Self(p)].stage = "idle" /\ sweep'[Crash(p)].stage = "idle"
      /\ \A q \in Sessions : /\ sweep'[Janitor(q)] = sweep[Janitor(q)]
                             /\ q # p => sweep'[Self(q)] = sweep[Self(q)]
                             /\ q # p => sweep'[Crash(q)] = sweep[Crash(q)]
  BY EndedFacts DEF Ended
<1>2. /\ pc'[p] = how /\ ending'[p] = "no" /\ p \notin armed'
      /\ \A q \in Sessions : q # p => /\ pc'[q] = pc[q] /\ ending'[q] = ending[q]
                                      /\ q \in armed' <=> q \in armed
  BY DEF Ended, Ranges
<1>3. ASSUME NEW q \in Sessions PROVE LinkOf(q)'
  <2>1. LinkOf(q)
    BY DEF Links
  <2>2. CASE q = p
    BY <1>1, <1>2, <2>1, <2>2 DEF LinkOf
  <2>3. CASE q # p
    BY <1>1, <1>2, <2>1, <2>3 DEF LinkOf
  <2> QED BY <2>2, <2>3
<1> QED BY <1>1, <1>3 DEF Links

LEMMA TypedStep ==
  ASSUME Typed, [Next]_vars
  PROVE  Typed'
<1> USE FaultsAssumption
<1> USE DEF Typed, Ranges, Links, LinkOf, Phases, Bound, Tunnel
<1>1. ASSUME NEW p \in Sessions, PreconnectScan(p) PROVE Typed'
  <2>1. CASE UNCHANGED sweep /\ pc' = [pc EXCEPT ![p] = "ready"]
    BY <1>1, <2>1 DEF PreconnectScan
  <2>2. CASE /\ pc' = [pc EXCEPT ![p] = "presweep"]
             /\ \E c \in {All, InstanceScope(name[p])} : Begin(Self(p), c)
    <3>1. PICK c \in {All, InstanceScope(name[p])} : Begin(Self(p), c)
      BY <2>2
    <3>2. Self(p) \in Sweepers /\ c \in ScopeNames
      BY SweeperFacts, ScopesAreTyped
    <3>3. /\ sweep' \in [Sweepers -> SweepStates]
          /\ sweep'[Self(p)].stage = "listing" /\ OnlySelf(p)
      BY <3>1, <3>2, BeginFacts DEF OnlyOf
    <3> QED BY <1>1, <2>2, <3>3 DEF PreconnectScan, OnlySelf
  <2> QED BY <1>1, <2>1, <2>2 DEF PreconnectScan
<1>2. ASSUME NEW p \in Sessions, SelfSweepEnds(p) PROVE Typed'
  <2>1. Self(p) \in Sweepers
    BY SweeperFacts
  <2>2. /\ sweep' \in [Sweepers -> SweepStates]
        /\ sweep'[Self(p)].stage = "idle" /\ OnlySelf(p)
    BY <1>2, <2>1, IdleFacts DEF OnlyOf, SelfSweepEnds
  <2>3. Told
    BY <1>2, <2>1, EndsFacts DEF SelfSweepEnds
  <2>4. pc[p] \in {"presweep", "applysweep", "panicsweep", "recovering"}
    BY <1>2 DEF SelfSweepEnds, Ends, ListFails, Notifies, AllTried
  <2>5. \E next \in {"ready", "writing", "unwinding", "degraded"} :
          /\ pc' = [pc EXCEPT ![p] = next]
          /\ next = "ready" => pc[p] = "presweep"
    <3>1. pc' = [pc EXCEPT ![p] = Sweeping[pc[p]]]
      BY <1>2 DEF SelfSweepEnds
    <3>2. /\ Sweeping[pc[p]] \in {"ready", "writing", "unwinding", "degraded"}
          /\ Sweeping[pc[p]] = "ready" => pc[p] = "presweep"
      BY <2>4 DEF Sweeping
    <3> QED BY <3>1, <3>2
  <2> QED BY <1>2, <2>2, <2>3, <2>5 DEF OnlySelf, SelfSweepEnds, Told
<1>3. ASSUME NEW p \in Sessions, StartApply(p) PROVE Typed'
  <2>1. Self(p) \in Sweepers /\ InstanceScope(name[p]) \in ScopeNames
    BY SweeperFacts, ScopesAreTyped
  <2>2. /\ sweep' \in [Sweepers -> SweepStates]
        /\ sweep'[Self(p)].stage = "listing" /\ OnlySelf(p)
    BY <1>3, <2>1, BeginFacts DEF OnlyOf, StartApply
  <2> QED BY <1>3, <2>2 DEF OnlySelf, StartApply, SpawnOnce, FaultIf, Fault
<1>4. ASSUME NEW p \in Sessions, RevertEnds(p) PROVE Typed'
  <2>1. Told
    BY <1>4, NotifyFacts DEF RevertEnds
  <2>2. CASE UNCHANGED sweep /\ pc' = [pc EXCEPT ![p] = "bound"]
    BY <1>4, <2>1, <2>2 DEF RevertEnds, Told
  <2>3. CASE /\ pc' = [pc EXCEPT ![p] = "recovering"]
             /\ Begin(Self(p), InstanceScope(name[p]))
    <3>1. Self(p) \in Sweepers /\ InstanceScope(name[p]) \in ScopeNames
      BY SweeperFacts, ScopesAreTyped
    <3>2. /\ sweep' \in [Sweepers -> SweepStates]
          /\ sweep'[Self(p)].stage = "listing" /\ OnlySelf(p)
      BY <2>3, <3>1, BeginFacts DEF OnlyOf
    <3> QED BY <1>4, <2>1, <2>3, <3>2 DEF RevertEnds, Told, OnlySelf
  <2> QED BY <1>4, <2>2, <2>3 DEF RevertEnds
<1>5. ASSUME NEW p \in Sessions, TunnelPanics(p) PROVE Typed'
  <2>1. Self(p) \in Sweepers /\ InstanceScope(name[p]) \in ScopeNames
    BY SweeperFacts, ScopesAreTyped
  <2>2. /\ sweep' \in [Sweepers -> SweepStates]
        /\ sweep'[Self(p)].stage = "listing" /\ OnlySelf(p)
    BY <1>5, <2>1, BeginFacts DEF OnlyOf, TunnelPanics
  <2> QED BY <1>5, <2>2 DEF OnlySelf, TunnelPanics, Fault
<1>6. ASSUME NEW p \in Sessions, ConsoleCloses(p) PROVE Typed'
  <2>1. Crash(p) \in Sweepers /\ InstanceScope(name[p]) \in ScopeNames
    BY SweeperFacts, ScopesAreTyped
  <2>2. /\ sweep' \in [Sweepers -> SweepStates]
        /\ sweep'[Crash(p)].stage = "listing" /\ OnlyCrash(p)
    BY <1>6, <2>1, BeginFacts DEF OnlyOf, ConsoleCloses, CrashSweep
  <2> QED BY <1>6, <2>2 DEF OnlyCrash, ConsoleCloses, CrashSweep, Live, Fault
<1>7. ASSUME NEW p \in Sessions, Wedges(p) PROVE Typed'
  <2>1. Crash(p) \in Sweepers /\ InstanceScope(name[p]) \in ScopeNames
    BY SweeperFacts, ScopesAreTyped
  <2>2. /\ sweep' \in [Sweepers -> SweepStates]
        /\ sweep'[Crash(p)].stage = "listing" /\ OnlyCrash(p)
    BY <1>7, <2>1, BeginFacts DEF OnlyOf, Wedges, CrashSweep
  <2> QED BY <1>7, <2>2 DEF OnlyCrash, Wedges, CrashSweep, Fault
<1>8. ASSUME NEW p \in Sessions, TaskPanics(p) PROVE Typed'
  <2>1. Crash(p) \in Sweepers /\ InstanceScope(name[p]) \in ScopeNames
    BY SweeperFacts, ScopesAreTyped
  <2>2. /\ sweep' \in [Sweepers -> SweepStates]
        /\ sweep'[Crash(p)].stage = "listing" /\ OnlyCrash(p)
    BY <1>8, <2>1, BeginFacts DEF OnlyOf, TaskPanics, CrashSweep
  <2> QED BY <1>8, <2>2 DEF OnlyCrash, TaskPanics, CrashSweep, Live, Fault
<1>9. ASSUME NEW p \in Sessions, CrashSweepEnds(p) PROVE Typed'
  <2>1. Crash(p) \in Sweepers
    BY SweeperFacts
  <2>2. Told
    BY <1>9, <2>1, EndsFacts DEF CrashSweepEnds
  <2>3. CASE ending[p] # "no" /\ Ended(p, "killed")
    <3>1. sweep' \in [Sweepers -> SweepStates] /\ Links'
      BY <1>9, <2>3, EndedIsLinked DEF CrashSweepEnds
    <3>2. Ranges'
      BY <1>9, <2>2, <2>3, <3>1 DEF CrashSweepEnds, Ended, Told
    <3> QED BY <3>1, <3>2
  <2>4. CASE /\ ending[p] = "no" /\ sweep' = [sweep EXCEPT ![Crash(p)] = Idle]
             /\ UNCHANGED <<pc, ending, armed, mine, used>>
    <3>1. /\ sweep' \in [Sweepers -> SweepStates]
          /\ sweep'[Crash(p)].stage = "idle" /\ OnlyCrash(p)
      BY <2>1, <2>4, IdleFacts DEF OnlyOf
    <3> QED BY <1>9, <2>2, <2>4, <3>1 DEF CrashSweepEnds, OnlyCrash, Told
  <2> QED BY <1>9, <2>3, <2>4 DEF CrashSweepEnds
<1>10. ASSUME NEW p \in Sessions, Leave(p) PROVE Typed'
  <2>1. sweep' \in [Sweepers -> SweepStates] /\ Links'
    BY <1>10, EndedIsLinked DEF Leave
  <2>2. Ranges'
    BY <1>10, <2>1 DEF Leave, Ended
  <2> QED BY <2>1, <2>2
<1>11. ASSUME NEW p \in Sessions, Kill(p) PROVE Typed'
  <2>1. sweep' \in [Sweepers -> SweepStates] /\ Links'
    BY <1>11, EndedIsLinked DEF Kill
  <2>2. Ranges'
    BY <1>11, <2>1 DEF Kill, Live, Fault, Ended
  <2> QED BY <2>1, <2>2
<1>12. ASSUME NEW p \in Sessions, ParentExits(p) PROVE Typed'
  <2>1. Janitor(p) \in Sweepers /\ OwnerScope(p) \in ScopeNames
    BY SweeperFacts, ScopesAreTyped
  <2>2. /\ sweep' \in [Sweepers -> SweepStates]
        /\ sweep'[Janitor(p)].stage = "listing" /\ OnlyJanitor(p)
    BY <1>12, <2>1, BeginFacts DEF OnlyOf, ParentExits
  <2> QED BY <1>12, <2>2 DEF OnlyJanitor, ParentExits
<1>13. ASSUME NEW p \in Sessions, JanitorEnds(p) PROVE Typed'
  <2>1. Janitor(p) \in Sweepers
    BY SweeperFacts
  <2>2. /\ sweep' \in [Sweepers -> SweepStates]
        /\ sweep'[Janitor(p)].stage = "idle" /\ OnlyJanitor(p)
    BY <1>13, <2>1, IdleFacts DEF OnlyOf, JanitorEnds
  <2>3. Told
    <3>1. Ends(Janitor(p))
      BY <1>13 DEF JanitorEnds, Ends, Notifies
    <3> QED BY <2>1, <3>1, EndsFacts
  <2>4. \E j \in {"gaveup", "swept", "untold"} : janitor' = [janitor EXCEPT ![p] = j]
    BY <1>13 DEF JanitorEnds
  <2> QED BY <1>13, <2>2, <2>3, <2>4 DEF OnlyJanitor, JanitorEnds, Told
<1>14. ASSUME NEW p \in Sessions, JanitorKilled(p) PROVE Typed'
  <2>1. Janitor(p) \in Sweepers
    BY SweeperFacts
  <2>2. /\ sweep' \in [Sweepers -> SweepStates]
        /\ sweep'[Janitor(p)].stage = "idle" /\ OnlyJanitor(p)
    BY <1>14, <2>1, IdleFacts DEF OnlyOf, JanitorKilled
  <2> QED BY <1>14, <2>2 DEF OnlyJanitor, JanitorKilled, Fault
<1>15. ASSUME NEW p \in Sessions, ApplyNotifies(p) PROVE Typed'
  <2>1. Told
    BY <1>15, NotifyFacts DEF ApplyNotifies
  <2> QED BY <1>15, <2>1 DEF ApplyNotifies, Told
<1>16. ASSUME NEW p \in Sessions, UnwindEnds(p) PROVE Typed'
  <2>1. Told
    BY <1>16, NotifyFacts DEF UnwindEnds
  <2> QED BY <1>16, <2>1 DEF UnwindEnds, Told
<1>17. ASSUME NEW p \in Sessions, BindPipe(p) PROVE Typed'
  BY <1>17 DEF BindPipe
<1>18. ASSUME NEW p \in Sessions, AttemptStarts(p) PROVE Typed'
  BY <1>18 DEF AttemptStarts
<1>19. ASSUME NEW p \in Sessions, AttemptFails(p) PROVE Typed'
  BY <1>19 DEF AttemptFails
<1>20. ASSUME NEW p \in Sessions, ReleasePipe(p) PROVE Typed'
  BY <1>20 DEF ReleasePipe
<1>21. ASSUME NEW p \in Sessions, ApplyRefused(p) PROVE Typed'
  BY <1>21 DEF ApplyRefused
<1>22. ASSUME NEW p \in Sessions, WriteRule(p) PROVE Typed'
  BY <1>22 DEF WriteRule, Fault, OwnedBy
<1>23. ASSUME NEW p \in Sessions, TakesBack(p) PROVE Typed'
  BY <1>23 DEF TakesBack, Deletes, Fault
<1>24. ASSUME NEW p \in Sessions, RollbackEnds(p) PROVE Typed'
  BY <1>24 DEF RollbackEnds
<1>25. ASSUME NEW p \in Sessions, MainloopReturns(p) PROVE Typed'
  BY <1>25 DEF MainloopReturns
<1>26. ASSUME NEW r \in Recoveries, RecoverScans(r) PROVE Typed'
  <2>1. PICK c \in {All} \union {InstanceScope(n) : n \in Names} : Begin(Recover(r), c)
    BY <1>26 DEF RecoverScans
  <2>2. Recover(r) \in Sweepers /\ c \in ScopeNames
    BY SweeperFacts, ScopesAreTyped
  <2>3. sweep' \in [Sweepers -> SweepStates] /\ NoSessions
    BY <2>1, <2>2, BeginFacts DEF OnlyOf
  <2> QED BY <1>26, <2>3 DEF RecoverScans, NoSessions
<1>27. ASSUME NEW r \in Recoveries, RecoverEnds(r) PROVE Typed'
  <2>1. Recover(r) \in Sweepers
    BY SweeperFacts
  <2>2. sweep' \in [Sweepers -> SweepStates] /\ NoSessions
    BY <1>27, <2>1, IdleFacts DEF OnlyOf, RecoverEnds
  <2>3. Told
    BY <1>27, <2>1, EndsFacts DEF RecoverEnds
  <2> QED BY <1>27, <2>2, <2>3 DEF NoSessions, RecoverEnds, Told
<1>28. ASSUME NEW a \in Sweepers, SweepLists(a) PROVE Typed'
  <2>1. /\ sweep' \in [Sweepers -> SweepStates]
        /\ \A b \in Sweepers : sweep'[b].stage = "idle" <=> sweep[b].stage = "idle"
    BY <1>28, ListsFacts DEF SweepLists
  <2>2. \A q \in Sessions :
          /\ sweep'[Self(q)].stage = "idle" <=> sweep[Self(q)].stage = "idle"
          /\ sweep'[Crash(q)].stage = "idle" <=> sweep[Crash(q)].stage = "idle"
          /\ sweep'[Janitor(q)].stage = "idle" <=> sweep[Janitor(q)].stage = "idle"
    BY <2>1, SweeperFacts
  <2> QED BY <1>28, <2>1, <2>2 DEF SweepLists
<1>29. ASSUME NEW a \in Sweepers, SweepDeletes(a) PROVE Typed'
  <2>0. PICK k \in sweep[a].todo : sweep' = [sweep EXCEPT ![a].todo = @ \ {k}]
    BY <1>29 DEF SweepDeletes
  <2>1. /\ sweep' \in [Sweepers -> SweepStates]
        /\ \A b \in Sweepers : sweep'[b].stage = "idle" <=> sweep[b].stage = "idle"
    BY <1>29, <2>0, DeletesFacts
  <2>2. \A q \in Sessions :
          /\ sweep'[Self(q)].stage = "idle" <=> sweep[Self(q)].stage = "idle"
          /\ sweep'[Crash(q)].stage = "idle" <=> sweep[Crash(q)].stage = "idle"
          /\ sweep'[Janitor(q)].stage = "idle" <=> sweep[Janitor(q)].stage = "idle"
    BY <2>1, SweeperFacts
  <2> QED BY <1>29, <2>1, <2>2 DEF SweepDeletes, Deletes, Fault
<1>30. CASE LateNotice
  BY <1>30 DEF LateNotice
<1>31. CASE UNCHANGED vars
  BY <1>31 DEF vars
<1> HIDE DEF Typed, Ranges, Links, LinkOf, Phases, Bound, Tunnel
<1> QED
  BY SweeperFacts, <1>1, <1>2, <1>3, <1>4, <1>5, <1>6, <1>7, <1>8, <1>9,
     <1>10, <1>11, <1>12, <1>13, <1>14, <1>15, <1>16, <1>17, <1>18, <1>19,
     <1>20, <1>21, <1>22, <1>23, <1>24, <1>25, <1>26, <1>27, <1>28, <1>29,
     <1>30, <1>31
  DEF Next, SessionStep, JanitorStep

LEMMA AlwaysTyped == Spec => []Typed
<1>1. Init => Typed
  <2> SUFFICES ASSUME Init PROVE Typed
    OBVIOUS
  <2>1. sweep \in [Sweepers -> SweepStates] /\ \A a \in Sweepers : sweep[a].stage = "idle"
    <3>1. All \in ScopeNames
      BY DEF All, ScopeNames
    <3> QED BY <3>1 DEF Init, Idle, SweepStates
  <2>2. Ranges
    <3>1. parked \in BOOLEAN
      BY Zenon DEF Init
    <3>2. faults \in 0..MaxFaults
      BY FaultsAssumption DEF Init
    <3>3. mine \in [Sessions -> SUBSET Keys] /\ used \in [Sessions -> SUBSET Keys]
      BY DEF Init
    <3> QED BY <2>1, <3>1, <3>2, <3>3 DEF Init, Ranges, Phases
  <2>3. Links
    BY <2>1, SweeperFacts DEF Init, Links, LinkOf
  <2> QED BY <2>2, <2>3 DEF Typed
<1> QED BY <1>1, TypedStep, PTL DEF Spec

\* Every variable stays in its domain, and whoever waits for a sweep has one,
\* for any sessions, names, rules and number of faults.
THEOREM NrptTyping == Spec => []TypeOK
<1>1. Typed => TypeOK
  <2>1. DOMAIN Sweeping = {"presweep", "applysweep", "panicsweep", "recovering"}
    BY DEF Sweeping
  <2> QED BY <2>1 DEF Typed, Ranges, Links, LinkOf, TypeOK, Phases, SweepStates, ScopeNames
<1> QED BY <1>1, AlwaysTyped, PTL

-----------------------------------------------------------------------------
(* Guards and rules. *)

Holding == {"writing", "rollback", "up", "panicsweep", "unwinding", "reverting"}

\* From the first sweep of apply to the end of the revert the guards are up.
GuardsUp == \A p \in Sessions :
              pc[p] \in Holding \union {"applysweep"} => p \in armed /\ janitor[p] # "none"

\* Only there does a session hold rules.
HeldWhileUp == \A p \in Sessions : mine[p] # {} => pc[p] \in Holding

\* A rule is in the list of the session that wrote it, or was given up on.
RuleIsHeld(k) ==
  /\ janitor[Owner(k)] # "none"
  /\ pc[Owner(k)] # "killed" => k \in mine[Owner(k)] \union denied
  /\ Live(Owner(k)) => Owner(k) \in armed \/ k \in denied

RulesHeld == \A k \in keys : RuleIsHeld(k)

Guarded == GuardsUp /\ HeldWhileUp /\ RulesHeld

LEMMA GuardedStep ==
  ASSUME Typed, Guarded, [Next]_vars
  PROVE  Guarded'
<1>0. \A k \in Keys : Owner(k) \in Sessions
  BY DEF Keys, Owner
<1> USE <1>0 DEF Typed, Ranges, Links, LinkOf, Guarded, GuardsUp, HeldWhileUp, RulesHeld,
               RuleIsHeld, Holding, Live, Phases, Bound, Tunnel
<1>1. ASSUME NEW p \in Sessions, PreconnectScan(p) PROVE Guarded'
  BY <1>1 DEF PreconnectScan
<1>2. ASSUME NEW p \in Sessions, SelfSweepEnds(p) PROVE Guarded'
  <2>1. pc[p] \in {"presweep", "applysweep", "panicsweep", "recovering"}
    BY <1>2 DEF SelfSweepEnds, Ends, ListFails, Notifies, AllTried
  <2>2. pc' = [pc EXCEPT ![p] = Sweeping[pc[p]]]
    BY <1>2 DEF SelfSweepEnds
  <2>3. /\ pc[p] = "presweep" => pc'[p] = "ready"
        /\ pc[p] = "applysweep" => pc'[p] = "writing"
        /\ pc[p] = "panicsweep" => pc'[p] = "unwinding"
        /\ pc[p] = "recovering" => pc'[p] = "degraded"
    BY <2>2 DEF Sweeping
  <2> QED BY <1>2, <2>1, <2>2, <2>3 DEF SelfSweepEnds
<1>3. ASSUME NEW p \in Sessions, StartApply(p) PROVE Guarded'
  BY <1>3 DEF StartApply, SpawnOnce
<1>4. ASSUME NEW p \in Sessions, RevertEnds(p) PROVE Guarded'
  BY <1>4 DEF RevertEnds
<1>5. ASSUME NEW p \in Sessions, TunnelPanics(p) PROVE Guarded'
  BY <1>5 DEF TunnelPanics
<1>6. ASSUME NEW p \in Sessions, ConsoleCloses(p) PROVE Guarded'
  BY <1>6 DEF ConsoleCloses, CrashSweep
<1>7. ASSUME NEW p \in Sessions, Wedges(p) PROVE Guarded'
  BY <1>7 DEF Wedges, CrashSweep
<1>8. ASSUME NEW p \in Sessions, TaskPanics(p) PROVE Guarded'
  BY <1>8 DEF TaskPanics, CrashSweep
<1>9. ASSUME NEW p \in Sessions, CrashSweepEnds(p) PROVE Guarded'
  BY <1>9 DEF CrashSweepEnds, Ended
<1>10. ASSUME NEW p \in Sessions, Leave(p) PROVE Guarded'
  BY <1>10 DEF Leave, Ended
<1>11. ASSUME NEW p \in Sessions, Kill(p) PROVE Guarded'
  BY <1>11 DEF Kill, Ended
<1>12. ASSUME NEW p \in Sessions, ParentExits(p) PROVE Guarded'
  BY <1>12 DEF ParentExits
<1>13. ASSUME NEW p \in Sessions, JanitorEnds(p) PROVE Guarded'
  BY <1>13 DEF JanitorEnds
<1>14. ASSUME NEW p \in Sessions, JanitorKilled(p) PROVE Guarded'
  BY <1>14 DEF JanitorKilled
<1>15. ASSUME NEW p \in Sessions, ApplyNotifies(p) PROVE Guarded'
  BY <1>15 DEF ApplyNotifies
<1>16. ASSUME NEW p \in Sessions, UnwindEnds(p) PROVE Guarded'
  BY <1>16 DEF UnwindEnds
<1>17. ASSUME NEW p \in Sessions, BindPipe(p) PROVE Guarded'
  BY <1>17 DEF BindPipe
<1>18. ASSUME NEW p \in Sessions, AttemptStarts(p) PROVE Guarded'
  BY <1>18 DEF AttemptStarts
<1>19. ASSUME NEW p \in Sessions, AttemptFails(p) PROVE Guarded'
  BY <1>19 DEF AttemptFails
<1>20. ASSUME NEW p \in Sessions, ReleasePipe(p) PROVE Guarded'
  BY <1>20 DEF ReleasePipe
<1>21. ASSUME NEW p \in Sessions, ApplyRefused(p) PROVE Guarded'
  BY <1>21 DEF ApplyRefused
<1>22. ASSUME NEW p \in Sessions, WriteRule(p) PROVE Guarded'
  BY <1>22 DEF WriteRule, OwnedBy
<1>23. ASSUME NEW p \in Sessions, TakesBack(p) PROVE Guarded'
  BY <1>23 DEF TakesBack, Deletes
<1>24. ASSUME NEW p \in Sessions, RollbackEnds(p) PROVE Guarded'
  BY <1>24 DEF RollbackEnds
<1>25. ASSUME NEW p \in Sessions, MainloopReturns(p) PROVE Guarded'
  BY <1>25 DEF MainloopReturns
<1>26. ASSUME NEW r \in Recoveries, RecoverScans(r) PROVE Guarded'
  BY <1>26 DEF RecoverScans
<1>27. ASSUME NEW r \in Recoveries, RecoverEnds(r) PROVE Guarded'
  BY <1>27 DEF RecoverEnds
<1>28. ASSUME NEW a \in Sweepers, SweepLists(a) PROVE Guarded'
  BY <1>28 DEF SweepLists
<1>29. ASSUME NEW a \in Sweepers, SweepDeletes(a) PROVE Guarded'
  BY <1>29 DEF SweepDeletes, Deletes
<1>30. CASE LateNotice
  BY <1>30 DEF LateNotice
<1>31. CASE UNCHANGED vars
  BY <1>31 DEF vars
<1> HIDE DEF Typed, Ranges, Links, LinkOf, Guarded, GuardsUp, HeldWhileUp, RulesHeld,
             RuleIsHeld, Holding, Live, Phases, Bound, Tunnel
<1> QED
  BY SweeperFacts, <1>1, <1>2, <1>3, <1>4, <1>5, <1>6, <1>7, <1>8, <1>9,
     <1>10, <1>11, <1>12, <1>13, <1>14, <1>15, <1>16, <1>17, <1>18, <1>19,
     <1>20, <1>21, <1>22, <1>23, <1>24, <1>25, <1>26, <1>27, <1>28, <1>29,
     <1>30, <1>31
  DEF Next, SessionStep, JanitorStep

LEMMA AlwaysGuarded == Spec => []Guarded
<1>1. Init => Guarded
  BY DEF Init, Guarded, GuardsUp, HeldWhileUp, RulesHeld, Holding
<1> QED BY <1>1, AlwaysTyped, GuardedStep, PTL DEF Spec

\* main.rs:9408: a rule in the registry has had its janitor started or seen
\* the start fail, and its session is armed while it lives, unless the revert
\* was refused this rule; on every attempt, whatever panics or is killed.
THEOREM RulesHaveGuards == Spec => []RulesAreGuarded
<1>1. Guarded => RulesAreGuarded
  BY DEF Guarded, RulesHeld, RuleIsHeld, RulesAreGuarded
<1> QED BY <1>1, AlwaysGuarded, PTL

\* windows_nrpt.rs:291: what a session could not take back it was refused; a
\* session that ended by itself or waits for another attempt has no rule else.
THEOREM DownIsClean == Spec => []DownMeansNoRules
<1>1. Guarded => DownMeansNoRules
  <2> SUFFICES ASSUME Guarded, NEW p \in Sessions,
                      pc[p] \in {"bound", "setup", "degraded", "leaving", "left"},
                      NEW k \in OwnedBy(p) \intersect keys
               PROVE  k \in denied
    BY DEF DownMeansNoRules
  <2>1. Owner(k) = p
    BY DEF OwnedBy
  <2>2. mine[p] = {}
    BY DEF Guarded, HeldWhileUp, Holding
  <2> QED BY <2>1, <2>2 DEF Guarded, RulesHeld, RuleIsHeld
<1> QED BY <1>1, AlwaysGuarded, PTL

-----------------------------------------------------------------------------
(* Janitors. *)

LEMMA NamesStay ==
  ASSUME [Next]_vars
  PROVE  UNCHANGED name /\ \A p \in Sessions : OwnerScope(p)' = OwnerScope(p)
<1>1. UNCHANGED name
  <2>1. ASSUME NEW p \in Sessions, SessionStep(p) PROVE UNCHANGED name
    BY <2>1 DEF SessionStep, PreconnectScan, SelfSweepEnds, BindPipe, AttemptStarts,
       AttemptFails, ReleasePipe, StartApply, ApplyRefused, WriteRule, ApplyNotifies,
       TakesBack, RollbackEnds, MainloopReturns, RevertEnds, TunnelPanics, UnwindEnds,
       Leave, Kill, ConsoleCloses, Wedges, TaskPanics, CrashSweep, CrashSweepEnds
  <2>2. ASSUME NEW a, SweepLists(a) \/ SweepDeletes(a) PROVE UNCHANGED name
    BY <2>2 DEF SweepLists, SweepDeletes
  <2> QED
    BY <2>1, <2>2 DEF Next, vars, LateNotice, JanitorStep, ParentExits, JanitorEnds,
       JanitorKilled, RecoverScans, RecoverEnds
<1> QED BY <1>1 DEF OwnerScope

\* What a janitor has still to do, and what it leaves when it is done.
JanitorOnCourse(p) ==
  /\ janitor[p] \in {"sweeping", "swept", "untold", "gaveup"} => Gone(p)
  /\ sweep[Janitor(p)].stage = "listing" => sweep[Janitor(p)].scope = OwnerScope(p)
  /\ sweep[Janitor(p)].stage = "deleting" =>
       OwnedBy(p) \intersect keys \subseteq sweep[Janitor(p)].todo \union denied
  /\ janitor[p] \in {"swept", "untold"} => OwnedBy(p) \intersect keys \subseteq denied
  /\ janitor[p] = "swept" => OwnedBy(p) \intersect cache \subseteq denied

Swept == \A p \in Sessions : JanitorOnCourse(p)

LEMMA SweptStep ==
  ASSUME Typed, Swept, [Next]_vars
  PROVE  Swept'
<1>0. \A k \in Keys : Owner(k) \in Sessions
  BY DEF Keys, Owner
<1> USE <1>0, NamesStay
        DEF Typed, Ranges, Links, LinkOf, Swept, JanitorOnCourse, Gone, Phases, Bound,
               Tunnel
<1>1. ASSUME NEW p \in Sessions, PreconnectScan(p) PROVE Swept'
  <2>1. \A q \in Sessions : sweep'[Janitor(q)] = sweep[Janitor(q)]
    BY <1>1, SweeperFacts DEF PreconnectScan, Begin
  <2> QED BY <1>1, <2>1 DEF PreconnectScan
<1>2. ASSUME NEW p \in Sessions, SelfSweepEnds(p) PROVE Swept'
  <2>1. \A q \in Sessions : sweep'[Janitor(q)] = sweep[Janitor(q)]
    BY <1>2, SweeperFacts DEF SelfSweepEnds
  <2> QED BY <1>2, <2>1
    DEF SelfSweepEnds, Ends, ListFails, Notifies, AllTried, Delivered, Refused, Unconfirmed
<1>3. ASSUME NEW p \in Sessions, StartApply(p) PROVE Swept'
  <2>1. \A q \in Sessions : sweep'[Janitor(q)] = sweep[Janitor(q)]
    BY <1>3, SweeperFacts DEF StartApply, Begin
  <2> QED BY <1>3, <2>1 DEF StartApply, SpawnOnce
<1>4. ASSUME NEW p \in Sessions, RevertEnds(p) PROVE Swept'
  <2>1. \A q \in Sessions : sweep'[Janitor(q)] = sweep[Janitor(q)]
    BY <1>4, SweeperFacts DEF RevertEnds, Begin
  <2> QED BY <1>4, <2>1 DEF RevertEnds, Delivered, Refused, Unconfirmed
<1>5. ASSUME NEW p \in Sessions, TunnelPanics(p) PROVE Swept'
  <2>1. \A q \in Sessions : sweep'[Janitor(q)] = sweep[Janitor(q)]
    BY <1>5, SweeperFacts DEF TunnelPanics, Begin
  <2> QED BY <1>5, <2>1 DEF TunnelPanics
<1>6. ASSUME NEW p \in Sessions, ConsoleCloses(p) PROVE Swept'
  <2>1. \A q \in Sessions : sweep'[Janitor(q)] = sweep[Janitor(q)]
    BY <1>6, SweeperFacts DEF ConsoleCloses, CrashSweep, Begin
  <2> QED BY <1>6, <2>1 DEF ConsoleCloses, CrashSweep
<1>7. ASSUME NEW p \in Sessions, Wedges(p) PROVE Swept'
  <2>1. \A q \in Sessions : sweep'[Janitor(q)] = sweep[Janitor(q)]
    BY <1>7, SweeperFacts DEF Wedges, CrashSweep, Begin
  <2> QED BY <1>7, <2>1 DEF Wedges, CrashSweep
<1>8. ASSUME NEW p \in Sessions, TaskPanics(p) PROVE Swept'
  <2>1. \A q \in Sessions : sweep'[Janitor(q)] = sweep[Janitor(q)]
    BY <1>8, SweeperFacts DEF TaskPanics, CrashSweep, Begin
  <2> QED BY <1>8, <2>1 DEF TaskPanics, CrashSweep
<1>9. ASSUME NEW p \in Sessions, CrashSweepEnds(p) PROVE Swept'
  <2>1. \A q \in Sessions : sweep'[Janitor(q)] = sweep[Janitor(q)]
    BY <1>9, SweeperFacts DEF CrashSweepEnds, Ended
  <2> QED BY <1>9, <2>1
     DEF CrashSweepEnds, Ended, Ends, ListFails, Notifies, AllTried, Delivered, Refused,
         Unconfirmed
<1>10. ASSUME NEW p \in Sessions, Leave(p) PROVE Swept'
  <2>1. \A q \in Sessions : sweep'[Janitor(q)] = sweep[Janitor(q)]
    BY <1>10, SweeperFacts DEF Leave, Ended
  <2>2. pc'[p] = "left" /\ \A q \in Sessions : q # p => pc'[q] = pc[q]
    BY <1>10 DEF Leave, Ended
  <2> QED BY <1>10, <2>1, <2>2 DEF Leave
<1>11. ASSUME NEW p \in Sessions, Kill(p) PROVE Swept'
  <2>1. \A q \in Sessions : sweep'[Janitor(q)] = sweep[Janitor(q)]
    BY <1>11, SweeperFacts DEF Kill, Ended
  <2>2. pc'[p] = "killed" /\ \A q \in Sessions : q # p => pc'[q] = pc[q]
    BY <1>11 DEF Kill, Ended
  <2> QED BY <1>11, <2>1, <2>2 DEF Kill
<1>12. ASSUME NEW p \in Sessions, ParentExits(p) PROVE Swept'
  <2>1. Janitor(p) \in Sweepers /\ OwnerScope(p) \in ScopeNames
    BY SweeperFacts, ScopesAreTyped
  <2>2. /\ sweep'[Janitor(p)].stage = "listing"
        /\ sweep'[Janitor(p)].scope = OwnerScope(p)
        /\ OnlyJanitor(p)
    BY <1>12, <2>1, BeginFacts DEF ParentExits, OnlyOf
  <2> QED BY <1>12, <2>2 DEF ParentExits, OnlyJanitor
<1>13. ASSUME NEW p \in Sessions, JanitorEnds(p) PROVE Swept'
  <2>1. Janitor(p) \in Sweepers
    BY SweeperFacts
  <2>2. sweep'[Janitor(p)].stage = "idle" /\ OnlyJanitor(p)
    BY <1>13, <2>1, IdleFacts DEF JanitorEnds, OnlyOf
  <2>3. ASSUME NEW q \in Sessions, q # p PROVE JanitorOnCourse(q)'
    BY <1>13, <2>2, <2>3 DEF JanitorEnds, OnlyJanitor, ListFails, AllTried, Delivered, Refused,
       Unconfirmed
  <2>4. JanitorOnCourse(p)'
    <3>1. janitor[p] = "sweeping"
      BY <1>13 DEF JanitorEnds, ListFails, AllTried
    <3>2. CASE ListFails(Janitor(p)) /\ janitor' = [janitor EXCEPT ![p] = "gaveup"]
      BY <1>13, <2>2, <3>1, <3>2 DEF JanitorEnds, ListFails
    <3>3. CASE /\ AllTried(Janitor(p)) /\ Delivered
               /\ janitor' = [janitor EXCEPT ![p] = "swept"]
      BY <1>13, <2>2, <3>1, <3>3 DEF JanitorEnds, AllTried, Delivered
    <3>4. CASE /\ AllTried(Janitor(p)) /\ (Refused \/ Unconfirmed)
               /\ janitor' = [janitor EXCEPT ![p] = "untold"]
      BY <1>13, <2>2, <3>1, <3>4 DEF JanitorEnds, AllTried
    <3> QED BY <1>13, <3>2, <3>3, <3>4 DEF JanitorEnds
  <2> QED BY <2>3, <2>4
<1>14. ASSUME NEW p \in Sessions, JanitorKilled(p) PROVE Swept'
  <2>1. Janitor(p) \in Sweepers
    BY SweeperFacts
  <2>2. sweep'[Janitor(p)].stage = "idle" /\ OnlyJanitor(p)
    BY <1>14, <2>1, IdleFacts DEF JanitorKilled, OnlyOf
  <2> QED BY <1>14, <2>2 DEF JanitorKilled, OnlyJanitor
<1>15. ASSUME NEW p \in Sessions, ApplyNotifies(p) PROVE Swept'
  BY <1>15 DEF ApplyNotifies, Delivered, Refused, Unconfirmed
<1>16. ASSUME NEW p \in Sessions, UnwindEnds(p) PROVE Swept'
  BY <1>16 DEF UnwindEnds, Delivered, Refused, Unconfirmed
<1>17. ASSUME NEW p \in Sessions, BindPipe(p) PROVE Swept'
  BY <1>17 DEF BindPipe
<1>18. ASSUME NEW p \in Sessions, AttemptStarts(p) PROVE Swept'
  BY <1>18 DEF AttemptStarts
<1>19. ASSUME NEW p \in Sessions, AttemptFails(p) PROVE Swept'
  BY <1>19 DEF AttemptFails
<1>20. ASSUME NEW p \in Sessions, ReleasePipe(p) PROVE Swept'
  BY <1>20 DEF ReleasePipe
<1>21. ASSUME NEW p \in Sessions, ApplyRefused(p) PROVE Swept'
  BY <1>21 DEF ApplyRefused
<1>22. ASSUME NEW p \in Sessions, WriteRule(p) PROVE Swept'
  BY <1>22 DEF WriteRule, OwnedBy
<1>23. ASSUME NEW p \in Sessions, TakesBack(p) PROVE Swept'
  BY <1>23 DEF TakesBack, Deletes
<1>24. ASSUME NEW p \in Sessions, RollbackEnds(p) PROVE Swept'
  BY <1>24 DEF RollbackEnds
<1>25. ASSUME NEW p \in Sessions, MainloopReturns(p) PROVE Swept'
  BY <1>25 DEF MainloopReturns
<1>26. ASSUME NEW r \in Recoveries, RecoverScans(r) PROVE Swept'
  <2>1. \A q \in Sessions : sweep'[Janitor(q)] = sweep[Janitor(q)]
    BY <1>26, SweeperFacts DEF RecoverScans, Begin
  <2> QED BY <1>26, <2>1 DEF RecoverScans
<1>27. ASSUME NEW r \in Recoveries, RecoverEnds(r) PROVE Swept'
  <2>1. \A q \in Sessions : sweep'[Janitor(q)] = sweep[Janitor(q)]
    BY <1>27, SweeperFacts DEF RecoverEnds
  <2> QED BY <1>27, <2>1
    DEF RecoverEnds, Ends, ListFails, Notifies, AllTried, Delivered, Refused, Unconfirmed
<1>28. ASSUME NEW a \in Sweepers, SweepLists(a) PROVE Swept'
  <2>1. UNCHANGED <<pc, keys, cache, denied, janitor>> /\ sweep[a].stage = "listing"
    BY <1>28 DEF SweepLists
  <2>2. ASSUME NEW q \in Sessions, a = Janitor(q) PROVE Swept'
    <3>1. OnlyJanitor(q)
      BY <1>28, <2>2, ListsFacts DEF OnlyOf
    <3>2. sweep[a].scope = OwnerScope(q)
      BY <2>1, <2>2
    <3>3. /\ sweep'[a].stage = "deleting"
          /\ sweep'[a].todo = {k \in keys : InScope(k, sweep[a].scope)}
      BY <1>28, ListsFacts
    <3>4. OwnedBy(q) \intersect keys \subseteq sweep'[a].todo
      <4>1. \A k \in OwnedBy(q) : InScope(k, OwnerScope(q))
        BY OwnScopeTakesOwn DEF OwnedBy
      <4> QED BY <3>2, <3>3, <4>1
    <3>5. JanitorOnCourse(q)'
      BY <2>1, <2>2, <3>3, <3>4
    <3>6. ASSUME NEW p \in Sessions, p # q PROVE JanitorOnCourse(p)'
      BY <2>1, <3>1, <3>6 DEF OnlyJanitor
    <3> QED BY <3>5, <3>6
  <2>3. CASE \A q \in Sessions : a # Janitor(q)
    <3>1. \A q \in Sessions : sweep'[Janitor(q)] = sweep[Janitor(q)]
      BY <1>28, <2>3, ListsFacts, SweeperFacts
    <3> QED BY <2>1, <3>1
  <2> QED BY <2>2, <2>3
<1>29. ASSUME NEW a \in Sweepers, SweepDeletes(a) PROVE Swept'
  <2>1. PICK k \in sweep[a].todo :
               Deletes(k) /\ sweep' = [sweep EXCEPT ![a].todo = @ \ {k}]
    BY <1>29 DEF SweepDeletes
  <2>2. ASSUME NEW q \in Sessions, a = Janitor(q) PROVE Swept'
    <3>1. /\ sweep'[Janitor(q)].stage = sweep[Janitor(q)].stage
          /\ sweep'[Janitor(q)].scope = sweep[Janitor(q)].scope
          /\ sweep'[Janitor(q)].todo = sweep[Janitor(q)].todo \ {k}
          /\ OnlyJanitor(q)
      BY <2>1, <2>2, DeletesFacts DEF OnlyOf
    <3> QED BY <1>29, <2>1, <3>1 DEF OnlyJanitor, SweepDeletes, Deletes
  <2>3. CASE \A q \in Sessions : a # Janitor(q)
    <3>1. \A q \in Sessions : sweep'[Janitor(q)] = sweep[Janitor(q)]
      BY <2>1, <2>3, DeletesFacts, SweeperFacts
    <3> QED BY <1>29, <2>1, <3>1 DEF SweepDeletes, Deletes
  <2> QED BY <2>2, <2>3
<1>30. CASE LateNotice
  BY <1>30 DEF LateNotice
<1>31. CASE UNCHANGED vars
  BY <1>31 DEF vars
<1> HIDE DEF Typed, Ranges, Links, LinkOf, Swept, JanitorOnCourse, Gone, Phases, Bound,
             Tunnel
<1> QED
  BY SweeperFacts, <1>1, <1>2, <1>3, <1>4, <1>5, <1>6, <1>7, <1>8, <1>9,
     <1>10, <1>11, <1>12, <1>13, <1>14, <1>15, <1>16, <1>17, <1>18, <1>19,
     <1>20, <1>21, <1>22, <1>23, <1>24, <1>25, <1>26, <1>27, <1>28, <1>29,
     <1>30, <1>31
  DEF Next, SessionStep, JanitorStep

LEMMA AlwaysSwept == Spec => []Swept
<1>1. Init => Swept
  BY SweeperFacts DEF Init, Idle, Swept, JanitorOnCourse
<1> QED BY <1>1, AlwaysTyped, SweptStep, PTL DEF Spec

\* nrpt_janitor.rs:41: after its janitor nothing of a session is in the
\* registry that could be deleted, nor in DnsCache if that could be told, and
\* nothing comes back, whoever else sweeps, connects or dies.
THEOREM JanitorIsThorough == Spec => []JanitorLeavesNothing
<1>1. Swept => JanitorLeavesNothing
  BY DEF Swept, JanitorOnCourse, JanitorLeavesNothing
<1> QED BY <1>1, AlwaysSwept, PTL

-----------------------------------------------------------------------------
(* Pipes and scopes. *)

\* One session at a time holds the pipe of an instance.
OnePipe == \A p, q \in Sessions :
             pc[p] \in Bound /\ pc[q] \in Bound /\ name[p] = name[q] => p = q

SameInstance(p, K) ==
  \A k \in K : name[Owner(k)] = name[p] \/ Nested(name[p], name[Owner(k)])

\* A sweep that no scan decided is for the instance, a janitor's for the
\* session, and it has listed nothing else.
ScopeKept(p) ==
  /\ sweep[Self(p)].stage = "listing" /\ pc[p] # "presweep" =>
       sweep[Self(p)].scope = InstanceScope(name[p])
  /\ pc[p] # "presweep" => SameInstance(p, sweep[Self(p)].todo)
  /\ sweep[Self(p)].stage = "idle" => sweep[Self(p)].todo = {}
  /\ sweep[Crash(p)].stage = "listing" => sweep[Crash(p)].scope = InstanceScope(name[p])
  /\ SameInstance(p, sweep[Crash(p)].todo)
  /\ sweep[Crash(p)].stage = "idle" => sweep[Crash(p)].todo = {}
  /\ sweep[Janitor(p)].todo \subseteq OwnedBy(p)

ScopesKept == \A p \in Sessions : ScopeKept(p)

LEMMA OnePipeStep ==
  ASSUME Typed, OnePipe, [Next]_vars
  PROVE  OnePipe'
<1>1. CASE \E p \in Sessions : BindPipe(p)
  <2>1. PICK p \in Sessions : BindPipe(p)
    BY <1>1
  <2>2. CASE pc' = [pc EXCEPT ![p] = "left"] /\ UNCHANGED name
    BY <2>2 DEF OnePipe, Typed, Ranges, Bound, Tunnel
  <2>3. CASE /\ name[p] \notin BoundNames /\ UNCHANGED name
             /\ pc' = [pc EXCEPT ![p] = "bound"]
    <3>1. \A q \in Sessions : pc[q] \in Bound => name[q] # name[p]
      BY <2>3 DEF BoundNames
    <3>2. \A q \in Sessions : q # p => pc'[q] = pc[q]
      BY <2>3 DEF Typed, Ranges
    <3> QED BY <2>3, <3>1, <3>2 DEF OnePipe
  <2> QED BY <2>1, <2>2, <2>3 DEF BindPipe
<1>2. CASE ~\E p \in Sessions : BindPipe(p)
  <2>1. \A q \in Sessions : pc'[q] \in Bound => pc[q] \in Bound
    <3> USE DEF Typed, Ranges, Bound, Tunnel
    <3>1. ASSUME NEW p \in Sessions, SelfSweepEnds(p)
          PROVE  \A q \in Sessions : pc'[q] \in Bound => pc[q] \in Bound
      <4>1. pc[p] \in {"presweep", "applysweep", "panicsweep", "recovering"}
        BY <3>1 DEF SelfSweepEnds, Ends, ListFails, Notifies, AllTried, Links, LinkOf
      <4>2. pc' = [pc EXCEPT ![p] = Sweeping[pc[p]]]
        BY <3>1 DEF SelfSweepEnds
      <4>3. pc[p] = "presweep" => pc'[p] = "ready"
        BY <4>2 DEF Sweeping
      <4> QED BY <4>1, <4>2, <4>3
    <3>2. ASSUME NEW p \in Sessions,
                 \/ StartApply(p) \/ RevertEnds(p) \/ TunnelPanics(p) \/ ApplyNotifies(p)
                 \/ UnwindEnds(p) \/ AttemptStarts(p) \/ AttemptFails(p) \/ ApplyRefused(p)
                 \/ WriteRule(p) \/ RollbackEnds(p) \/ MainloopReturns(p)
          PROVE  \A q \in Sessions : pc'[q] \in Bound => pc[q] \in Bound
      BY <3>2 DEF StartApply, RevertEnds, TunnelPanics, ApplyNotifies, UnwindEnds,
         AttemptStarts, AttemptFails, ApplyRefused, WriteRule, RollbackEnds, MainloopReturns
    <3>3. ASSUME NEW p \in Sessions,
                 \/ PreconnectScan(p) \/ ReleasePipe(p) \/ TakesBack(p) \/ Leave(p)
                 \/ Kill(p) \/ ConsoleCloses(p) \/ Wedges(p) \/ TaskPanics(p)
                 \/ CrashSweepEnds(p) \/ ParentExits(p) \/ JanitorEnds(p) \/ JanitorKilled(p)
          PROVE  \A q \in Sessions : pc'[q] \in Bound => pc[q] \in Bound
      BY <3>3 DEF PreconnectScan, ReleasePipe, TakesBack, Leave, Kill, Ended, ConsoleCloses,
         Wedges, TaskPanics, CrashSweep, CrashSweepEnds, ParentExits, JanitorEnds,
         JanitorKilled
    <3>4. CASE UNCHANGED pc
      BY <3>4
    <3>5. ASSUME NEW a, SweepLists(a) \/ SweepDeletes(a) PROVE UNCHANGED pc
      BY <3>5 DEF SweepLists, SweepDeletes
    <3>6. ASSUME LateNotice \/ (\E r \in Recoveries : RecoverScans(r) \/ RecoverEnds(r))
                   \/ UNCHANGED vars
          PROVE  UNCHANGED pc
      BY <3>6 DEF LateNotice, RecoverScans, RecoverEnds, vars
    <3> HIDE DEF Typed, Ranges, Bound, Tunnel
    <3> QED BY <1>2, <3>1, <3>2, <3>3, <3>4, <3>5, <3>6 DEF Next, SessionStep, JanitorStep
  <2> QED BY <2>1, NamesStay DEF OnePipe
<1> QED BY <1>1, <1>2

LEMMA ScopesKeptStep ==
  ASSUME Typed, Swept, ScopesKept, [Next]_vars
  PROVE  ScopesKept'
<1> USE NamesStay DEF Typed, Ranges, ScopesKept, ScopeKept, SameInstance, InstanceScope
<1>0. \A k \in Keys : Owner(k) \in Sessions
  BY DEF Keys, Owner
<1> USE <1>0
<1>1. ASSUME NEW p \in Sessions, PreconnectScan(p) PROVE ScopesKept'
  <2>1. CASE UNCHANGED sweep /\ pc' = [pc EXCEPT ![p] = "ready"]
    <3>1. \A q \in Sessions : pc'[q] = "presweep" <=> pc[q] = "presweep"
      BY <1>1, <2>1 DEF PreconnectScan
    <3> QED BY <2>1, <3>1
  <2>2. CASE /\ pc' = [pc EXCEPT ![p] = "presweep"]
             /\ \E c \in {All, InstanceScope(name[p])} : Begin(Self(p), c)
    <3>1. PICK c \in {All, InstanceScope(name[p])} : Begin(Self(p), c)
      BY <2>2
    <3>2. Self(p) \in Sweepers /\ c \in ScopeNames
      BY SweeperFacts, ScopesAreTyped
    <3>3. /\ sweep'[Self(p)].stage = "listing" /\ OnlySelf(p)
      BY <3>1, <3>2, BeginFacts DEF OnlyOf
    <3> QED BY <2>2, <3>3 DEF OnlySelf
  <2> QED BY <1>1, <2>1, <2>2 DEF PreconnectScan
<1>2. ASSUME NEW p \in Sessions, SelfSweepEnds(p) PROVE ScopesKept'
  <2>1. Self(p) \in Sweepers
    BY SweeperFacts
  <2>2. /\ sweep'[Self(p)].stage = "idle" /\ sweep'[Self(p)].todo = {} /\ OnlySelf(p)
    BY <1>2, <2>1, IdleFacts DEF OnlyOf, SelfSweepEnds
  <2>3. \A q \in Sessions : q # p => pc'[q] = pc[q]
    BY <1>2 DEF SelfSweepEnds
  <2> QED BY <2>2, <2>3 DEF OnlySelf
<1>3. ASSUME NEW p \in Sessions, StartApply(p) PROVE ScopesKept'
  <2>1. Self(p) \in Sweepers /\ InstanceScope(name[p]) \in ScopeNames
    BY SweeperFacts, ScopesAreTyped
  <2>2. /\ sweep'[Self(p)].scope = InstanceScope(name[p]) /\ sweep'[Self(p)].todo = {}
        /\ sweep'[Self(p)].stage = "listing" /\ OnlySelf(p)
    BY <1>3, <2>1, BeginFacts DEF StartApply, OnlyOf
  <2>3. \A q \in Sessions : pc'[q] = "presweep" <=> pc[q] = "presweep"
    BY <1>3 DEF StartApply
  <2> QED BY <2>2, <2>3 DEF OnlySelf
<1>4. ASSUME NEW p \in Sessions, RevertEnds(p) PROVE ScopesKept'
  <2>1. \A q \in Sessions : pc'[q] = "presweep" <=> pc[q] = "presweep"
    BY <1>4 DEF RevertEnds
  <2>2. CASE UNCHANGED sweep
    BY <2>1, <2>2
  <2>3. CASE Begin(Self(p), InstanceScope(name[p]))
    <3>1. Self(p) \in Sweepers /\ InstanceScope(name[p]) \in ScopeNames
      BY SweeperFacts, ScopesAreTyped
    <3>2. /\ sweep'[Self(p)].scope = InstanceScope(name[p]) /\ sweep'[Self(p)].todo = {}
          /\ sweep'[Self(p)].stage = "listing" /\ OnlySelf(p)
      BY <2>3, <3>1, BeginFacts DEF OnlyOf
    <3> QED BY <2>1, <3>2 DEF OnlySelf
  <2> QED BY <1>4, <2>2, <2>3 DEF RevertEnds
<1>5. ASSUME NEW p \in Sessions, TunnelPanics(p) PROVE ScopesKept'
  <2>1. Self(p) \in Sweepers /\ InstanceScope(name[p]) \in ScopeNames
    BY SweeperFacts, ScopesAreTyped
  <2>2. /\ sweep'[Self(p)].scope = InstanceScope(name[p]) /\ sweep'[Self(p)].todo = {}
        /\ sweep'[Self(p)].stage = "listing" /\ OnlySelf(p)
    BY <1>5, <2>1, BeginFacts DEF TunnelPanics, OnlyOf
  <2>3. \A q \in Sessions : pc'[q] = "presweep" <=> pc[q] = "presweep"
    BY <1>5 DEF TunnelPanics
  <2> QED BY <2>2, <2>3 DEF OnlySelf
<1>6. ASSUME NEW p \in Sessions, ConsoleCloses(p) PROVE ScopesKept'
  <2>1. Crash(p) \in Sweepers /\ InstanceScope(name[p]) \in ScopeNames
    BY SweeperFacts, ScopesAreTyped
  <2>2. /\ sweep'[Crash(p)].scope = InstanceScope(name[p]) /\ sweep'[Crash(p)].todo = {}
        /\ sweep'[Crash(p)].stage = "listing" /\ OnlyCrash(p)
    BY <1>6, <2>1, BeginFacts DEF ConsoleCloses, CrashSweep, OnlyOf
  <2>3. \A q \in Sessions : pc'[q] = "presweep" <=> pc[q] = "presweep"
    BY <1>6 DEF ConsoleCloses, CrashSweep
  <2> QED BY <2>2, <2>3 DEF OnlyCrash
<1>7. ASSUME NEW p \in Sessions, Wedges(p) PROVE ScopesKept'
  <2>1. Crash(p) \in Sweepers /\ InstanceScope(name[p]) \in ScopeNames
    BY SweeperFacts, ScopesAreTyped
  <2>2. /\ sweep'[Crash(p)].scope = InstanceScope(name[p]) /\ sweep'[Crash(p)].todo = {}
        /\ sweep'[Crash(p)].stage = "listing" /\ OnlyCrash(p)
    BY <1>7, <2>1, BeginFacts DEF Wedges, CrashSweep, OnlyOf
  <2>3. \A q \in Sessions : pc'[q] = "presweep" <=> pc[q] = "presweep"
    BY <1>7 DEF Wedges, CrashSweep
  <2> QED BY <2>2, <2>3 DEF OnlyCrash
<1>8. ASSUME NEW p \in Sessions, TaskPanics(p) PROVE ScopesKept'
  <2>1. Crash(p) \in Sweepers /\ InstanceScope(name[p]) \in ScopeNames
    BY SweeperFacts, ScopesAreTyped
  <2>2. /\ sweep'[Crash(p)].scope = InstanceScope(name[p]) /\ sweep'[Crash(p)].todo = {}
        /\ sweep'[Crash(p)].stage = "listing" /\ OnlyCrash(p)
    BY <1>8, <2>1, BeginFacts DEF TaskPanics, CrashSweep, OnlyOf
  <2>3. \A q \in Sessions : pc'[q] = "presweep" <=> pc[q] = "presweep"
    BY <1>8 DEF TaskPanics, CrashSweep
  <2> QED BY <2>2, <2>3 DEF OnlyCrash
<1>9. ASSUME NEW p \in Sessions, CrashSweepEnds(p) PROVE ScopesKept'
  <2>1. CASE Ended(p, "killed")
    <3>1. /\ sweep'[Self(p)].stage = "idle" /\ sweep'[Self(p)].todo = {}
          /\ sweep'[Crash(p)].stage = "idle" /\ sweep'[Crash(p)].todo = {}
          /\ \A q \in Sessions : /\ sweep'[Janitor(q)] = sweep[Janitor(q)]
                                 /\ q # p => sweep'[Self(q)] = sweep[Self(q)]
                                 /\ q # p => sweep'[Crash(q)] = sweep[Crash(q)]
      BY <2>1, EndedFacts DEF Ended
    <3>2. \A q \in Sessions : q # p => pc'[q] = pc[q]
      BY <2>1 DEF Ended
    <3> QED BY <3>1, <3>2
  <2>2. CASE sweep' = [sweep EXCEPT ![Crash(p)] = Idle] /\ UNCHANGED pc
    <3>1. Crash(p) \in Sweepers
      BY SweeperFacts
    <3>2. /\ sweep'[Crash(p)].stage = "idle" /\ sweep'[Crash(p)].todo = {}
          /\ OnlyCrash(p)
      BY <2>2, <3>1, IdleFacts DEF OnlyOf
    <3> QED BY <2>2, <3>2 DEF OnlyCrash
  <2> QED BY <1>9, <2>1, <2>2 DEF CrashSweepEnds
<1>10. ASSUME NEW p \in Sessions, Leave(p) PROVE ScopesKept'
  <2>1. /\ sweep'[Self(p)].stage = "idle" /\ sweep'[Self(p)].todo = {}
        /\ sweep'[Crash(p)].stage = "idle" /\ sweep'[Crash(p)].todo = {}
        /\ \A q \in Sessions : /\ sweep'[Janitor(q)] = sweep[Janitor(q)]
                               /\ q # p => sweep'[Self(q)] = sweep[Self(q)]
                               /\ q # p => sweep'[Crash(q)] = sweep[Crash(q)]
    BY <1>10, EndedFacts DEF Ended, Leave
  <2>2. \A q \in Sessions : q # p => pc'[q] = pc[q]
    BY <1>10 DEF Ended, Leave
  <2> QED BY <2>1, <2>2
<1>11. ASSUME NEW p \in Sessions, Kill(p) PROVE ScopesKept'
  <2>1. /\ sweep'[Self(p)].stage = "idle" /\ sweep'[Self(p)].todo = {}
        /\ sweep'[Crash(p)].stage = "idle" /\ sweep'[Crash(p)].todo = {}
        /\ \A q \in Sessions : /\ sweep'[Janitor(q)] = sweep[Janitor(q)]
                               /\ q # p => sweep'[Self(q)] = sweep[Self(q)]
                               /\ q # p => sweep'[Crash(q)] = sweep[Crash(q)]
    BY <1>11, EndedFacts DEF Ended, Kill
  <2>2. \A q \in Sessions : q # p => pc'[q] = pc[q]
    BY <1>11 DEF Ended, Kill
  <2> QED BY <2>1, <2>2
<1>12. ASSUME NEW p \in Sessions, ParentExits(p) PROVE ScopesKept'
  <2>1. Janitor(p) \in Sweepers /\ OwnerScope(p) \in ScopeNames
    BY SweeperFacts, ScopesAreTyped
  <2>2. sweep'[Janitor(p)].todo = {} /\ OnlyJanitor(p)
    BY <1>12, <2>1, BeginFacts DEF ParentExits, OnlyOf
  <2> QED BY <1>12, <2>2 DEF ParentExits, OnlyJanitor
<1>13. ASSUME NEW p \in Sessions, JanitorEnds(p) PROVE ScopesKept'
  <2>1. Janitor(p) \in Sweepers
    BY SweeperFacts
  <2>2. /\ sweep'[Janitor(p)].stage = "idle" /\ sweep'[Janitor(p)].todo = {} /\ OnlyJanitor(p)
    BY <1>13, <2>1, IdleFacts DEF OnlyOf, JanitorEnds
  <2> QED BY <1>13, <2>2 DEF JanitorEnds, OnlyJanitor
<1>14. ASSUME NEW p \in Sessions, JanitorKilled(p) PROVE ScopesKept'
  <2>1. Janitor(p) \in Sweepers
    BY SweeperFacts
  <2>2. /\ sweep'[Janitor(p)].stage = "idle" /\ sweep'[Janitor(p)].todo = {} /\ OnlyJanitor(p)
    BY <1>14, <2>1, IdleFacts DEF OnlyOf, JanitorKilled
  <2> QED BY <1>14, <2>2 DEF JanitorKilled, OnlyJanitor
<1>15. ASSUME NEW p \in Sessions, ApplyNotifies(p) PROVE ScopesKept'
  <2>1. /\ \A q \in Sessions : pc'[q] = "presweep" <=> pc[q] = "presweep"
        /\ UNCHANGED sweep
    BY <1>15 DEF ApplyNotifies
  <2> QED BY <2>1
<1>16. ASSUME NEW p \in Sessions, UnwindEnds(p) PROVE ScopesKept'
  <2>1. /\ \A q \in Sessions : pc'[q] = "presweep" <=> pc[q] = "presweep"
        /\ UNCHANGED sweep
    BY <1>16 DEF UnwindEnds
  <2> QED BY <2>1
<1>17. ASSUME NEW p \in Sessions, BindPipe(p) PROVE ScopesKept'
  <2>1. /\ \A q \in Sessions : pc'[q] = "presweep" <=> pc[q] = "presweep"
        /\ UNCHANGED sweep
    BY <1>17 DEF BindPipe
  <2> QED BY <2>1
<1>18. ASSUME NEW p \in Sessions, AttemptStarts(p) PROVE ScopesKept'
  <2>1. /\ \A q \in Sessions : pc'[q] = "presweep" <=> pc[q] = "presweep"
        /\ UNCHANGED sweep
    BY <1>18 DEF AttemptStarts
  <2> QED BY <2>1
<1>19. ASSUME NEW p \in Sessions, AttemptFails(p) PROVE ScopesKept'
  <2>1. /\ \A q \in Sessions : pc'[q] = "presweep" <=> pc[q] = "presweep"
        /\ UNCHANGED sweep
    BY <1>19 DEF AttemptFails
  <2> QED BY <2>1
<1>20. ASSUME NEW p \in Sessions, ReleasePipe(p) PROVE ScopesKept'
  <2>1. /\ \A q \in Sessions : pc'[q] = "presweep" <=> pc[q] = "presweep"
        /\ UNCHANGED sweep
    BY <1>20 DEF ReleasePipe
  <2> QED BY <2>1
<1>21. ASSUME NEW p \in Sessions, ApplyRefused(p) PROVE ScopesKept'
  <2>1. /\ \A q \in Sessions : pc'[q] = "presweep" <=> pc[q] = "presweep"
        /\ UNCHANGED sweep
    BY <1>21 DEF ApplyRefused
  <2> QED BY <2>1
<1>22. ASSUME NEW p \in Sessions, WriteRule(p) PROVE ScopesKept'
  <2>1. /\ \A q \in Sessions : pc'[q] = "presweep" <=> pc[q] = "presweep"
        /\ UNCHANGED sweep
    BY <1>22 DEF WriteRule
  <2> QED BY <2>1
<1>23. ASSUME NEW p \in Sessions, TakesBack(p) PROVE ScopesKept'
  <2>1. /\ \A q \in Sessions : pc'[q] = "presweep" <=> pc[q] = "presweep"
        /\ UNCHANGED sweep
    BY <1>23 DEF TakesBack
  <2> QED BY <2>1
<1>24. ASSUME NEW p \in Sessions, RollbackEnds(p) PROVE ScopesKept'
  <2>1. /\ \A q \in Sessions : pc'[q] = "presweep" <=> pc[q] = "presweep"
        /\ UNCHANGED sweep
    BY <1>24 DEF RollbackEnds
  <2> QED BY <2>1
<1>25. ASSUME NEW p \in Sessions, MainloopReturns(p) PROVE ScopesKept'
  <2>1. /\ \A q \in Sessions : pc'[q] = "presweep" <=> pc[q] = "presweep"
        /\ UNCHANGED sweep
    BY <1>25 DEF MainloopReturns
  <2> QED BY <2>1
<1>26. ASSUME NEW r \in Recoveries, RecoverScans(r) PROVE ScopesKept'
  <2>1. PICK c \in {All} \union {InstanceScope(n) : n \in Names} : Begin(Recover(r), c)
    BY <1>26 DEF RecoverScans
  <2>2. Recover(r) \in Sweepers /\ c \in ScopeNames
    BY SweeperFacts, ScopesAreTyped
  <2>3. NoSessions /\ UNCHANGED pc
    BY <1>26, <2>1, <2>2, BeginFacts DEF OnlyOf, RecoverScans
  <2> QED BY <2>3 DEF NoSessions
<1>27. ASSUME NEW r \in Recoveries, RecoverEnds(r) PROVE ScopesKept'
  <2>1. Recover(r) \in Sweepers
    BY SweeperFacts
  <2>2. NoSessions /\ UNCHANGED pc
    BY <1>27, <2>1, IdleFacts DEF OnlyOf, RecoverEnds
  <2> QED BY <2>2 DEF NoSessions
<1>28. ASSUME NEW a \in Sweepers, SweepLists(a) PROVE ScopesKept'
  <2>1. UNCHANGED pc /\ sweep[a].stage = "listing"
    BY <1>28 DEF SweepLists
  <2>2. /\ sweep'[a].stage = "deleting"
        /\ sweep'[a].todo = {k \in keys : InScope(k, sweep[a].scope)}
        /\ \A b \in Sweepers : b # a => sweep'[b] = sweep[b]
        /\ OnlyOf(a)
    BY <1>28, ListsFacts
  <2>3. \A k \in keys, n \in Names :
          InScope(k, InstanceScope(n)) => n = name[Owner(k)] \/ Nested(n, name[Owner(k)])
    BY InstanceScopeTakes
  <2>4. \A k \in keys, q \in Sessions : InScope(k, OwnerScope(q)) => Owner(k) = q
    BY OwnerScopeIsExact
  <2>5. ASSUME NEW q \in Sessions, a = Self(q) PROVE ScopesKept'
    <3>1. OnlySelf(q)
      BY <2>2, <2>5 DEF OnlyOf
    <3>2. pc[q] # "presweep" => SameInstance(q, sweep'[a].todo)
      BY <2>1, <2>2, <2>3, <2>5
    <3>3. ScopeKept(q)'
      BY <2>1, <2>2, <2>5, <3>1, <3>2 DEF OnlySelf
    <3> QED BY <2>1, <3>1, <3>3 DEF OnlySelf
  <2>6. ASSUME NEW q \in Sessions, a = Crash(q) PROVE ScopesKept'
    <3>1. OnlyCrash(q)
      BY <2>2, <2>6 DEF OnlyOf
    <3>2. SameInstance(q, sweep'[a].todo)
      BY <2>1, <2>2, <2>3, <2>6
    <3>3. ScopeKept(q)'
      BY <2>1, <2>2, <2>6, <3>1, <3>2 DEF OnlyCrash
    <3> QED BY <2>1, <3>1, <3>3 DEF OnlyCrash
  <2>7. ASSUME NEW q \in Sessions, a = Janitor(q) PROVE ScopesKept'
    <3>1. OnlyJanitor(q)
      BY <2>2, <2>7 DEF OnlyOf
    <3>2. sweep[a].scope = OwnerScope(q)
      BY <2>1, <2>7 DEF Swept, JanitorOnCourse
    <3>3. sweep'[a].todo \subseteq OwnedBy(q)
      BY <2>2, <2>4, <3>2 DEF OwnedBy
    <3>4. ScopeKept(q)'
      BY <2>1, <2>7, <3>1, <3>3 DEF OnlyJanitor
    <3> QED BY <2>1, <3>1, <3>4 DEF OnlyJanitor
  <2>8. ASSUME NEW r \in Recoveries, a = Recover(r) PROVE ScopesKept'
    BY <2>1, <2>2, <2>8 DEF OnlyOf, NoSessions
  <2> HIDE DEF Typed, Ranges, ScopesKept, ScopeKept, SameInstance, InstanceScope
  <2> QED BY <2>5, <2>6, <2>7, <2>8, SweeperFacts
<1>29. ASSUME NEW a \in Sweepers, SweepDeletes(a) PROVE ScopesKept'
  <2>1. PICK k \in sweep[a].todo : sweep' = [sweep EXCEPT ![a].todo = @ \ {k}]
    BY <1>29 DEF SweepDeletes
  <2>2. /\ \A b \in Sweepers : /\ sweep'[b].stage = sweep[b].stage
                                /\ sweep'[b].scope = sweep[b].scope
                                /\ sweep'[b].todo \subseteq sweep[b].todo
    BY <2>1, DeletesFacts
  <2>3. \A q \in Sessions :
          \A b \in {Self(q), Crash(q), Janitor(q)} : /\ sweep'[b].stage = sweep[b].stage
                                                    /\ sweep'[b].scope = sweep[b].scope
                                                    /\ sweep'[b].todo \subseteq sweep[b].todo
    BY <2>2, SweeperFacts
  <2>4. UNCHANGED pc
    BY <1>29 DEF SweepDeletes
  <2> QED BY <2>3, <2>4
<1>30. CASE LateNotice
  BY <1>30 DEF LateNotice
<1>31. CASE UNCHANGED vars
  BY <1>31 DEF vars
<1> HIDE DEF Typed, Ranges, ScopesKept, ScopeKept, SameInstance, InstanceScope
<1> QED
  BY SweeperFacts, <1>1, <1>2, <1>3, <1>4, <1>5, <1>6, <1>7, <1>8, <1>9,
     <1>10, <1>11, <1>12, <1>13, <1>14, <1>15, <1>16, <1>17, <1>18, <1>19,
     <1>20, <1>21, <1>22, <1>23, <1>24, <1>25, <1>26, <1>27, <1>28, <1>29,
     <1>30, <1>31
  DEF Next, SessionStep, JanitorStep

LEMMA AlwaysOnePipe == Spec => []OnePipe
<1>1. Init => OnePipe
  BY DEF Init, OnePipe, Bound, Tunnel
<1> QED BY <1>1, AlwaysTyped, OnePipeStep, PTL DEF Spec

LEMMA AlwaysScopesKept == Spec => []ScopesKept
<1>1. Init => ScopesKept
  <2> SUFFICES ASSUME Init PROVE ScopesKept
    OBVIOUS
  <2>1. \A a \in Sweepers : sweep[a].stage = "idle" /\ sweep[a].todo = {}
    BY DEF Init, Idle
  <2> QED BY <2>1, SweeperFacts DEF ScopesKept, ScopeKept, SameInstance
<1>2. Typed /\ Swept /\ ScopesKept /\ [Next]_vars => ScopesKept'
  BY ScopesKeptStep
<1> QED BY <1>1, <1>2, AlwaysTyped, AlwaysSwept, PTL DEF Spec

\* nrpt_janitor.rs:46, windows_nrpt.rs:600: the sweeps that ask nobody hold no
\* rule of another session that is served by its pipe, but for the rules of a
\* nested instance, and those the janitor's sweep does not hold either.  It
\* follows from one session having the pipe of an instance, and from what the
\* scopes take.
THEOREM UnscannedSweepsAreOwn == Spec => []UnscannedSweepsTakeTheDead
<1>1. Typed /\ OnePipe /\ ScopesKept => UnscannedSweepsTakeTheDead
  <2> SUFFICES ASSUME Typed, OnePipe, ScopesKept,
                      NEW p \in Sessions,
                      NEW a \in {Self(p), Crash(p), Janitor(p)} \ OnTheWayOut,
                      a = Self(p) => pc[p] # "presweep",
                      NEW k \in sweep[a].todo
               PROVE  \/ Owner(k) = p \/ pc[Owner(k)] \notin Bound
                      \/ a # Janitor(p) /\ Nested(name[p], name[Owner(k)])
    BY SweeperFacts DEF UnscannedSweepsTakeTheDead
  <2>1. k \in Keys /\ Owner(k) \in Sessions
    <3>1. a \in Sweepers
      BY SweeperFacts
    <3>2. sweep[a].todo \subseteq Keys
      BY <3>1 DEF Typed, Ranges, SweepStates
    <3> QED BY <3>2 DEF Keys, Owner
  <2>2. CASE a = Janitor(p)
    BY <2>2 DEF ScopesKept, ScopeKept, OwnedBy
  <2>3. CASE a = Self(p)
    <3>1. pc[p] \in Bound
      BY <2>3 DEF ScopesKept, ScopeKept, Typed, Links, LinkOf, Bound, Tunnel
    <3>2. name[Owner(k)] = name[p] \/ Nested(name[p], name[Owner(k)])
      BY <2>3 DEF ScopesKept, ScopeKept, SameInstance
    <3>3. a # Janitor(p)
      BY <2>3, SweeperFacts
    <3> QED BY <2>1, <3>1, <3>2, <3>3 DEF OnePipe
  <2>4. CASE a = Crash(p)
    <3>1. pc[p] \in Bound
      BY <2>4 DEF ScopesKept, ScopeKept, Typed, Links, LinkOf, OnTheWayOut
    <3>2. name[Owner(k)] = name[p] \/ Nested(name[p], name[Owner(k)])
      BY <2>4 DEF ScopesKept, ScopeKept, SameInstance
    <3>3. a # Janitor(p)
      BY <2>4, SweeperFacts
    <3> QED BY <2>1, <3>1, <3>2, <3>3 DEF OnePipe
  <2> QED BY <2>2, <2>3, <2>4
<1> QED BY <1>1, AlwaysTyped, AlwaysOnePipe, AlwaysScopesKept, PTL

-----------------------------------------------------------------------------
(* Decisions to sweep. *)

\* A scan that lets a sweep go on has seen that its scope is nobody's.
LEMMA ScansDecide ==
  ASSUME NEW s \in Scans
  PROVE  /\ Blanket(s) => BoundNames = {}
         /\ \A n \in Names : ~OwnAlive(s, n) => n \notin BoundNames
BY DEF Scans, Blanket, OwnAlive, PossiblyAlive

\* The four ways to decide on a scope.
Decided(a, c) ==
  \/ c = All /\ BoundNames = {}
  \/ \E n \in Names \ BoundNames : c = InstanceScope(n)
  \/ \E q \in Sessions : /\ c = InstanceScope(name[q])
                         /\ \/ a \in {Self(q), Crash(q)} /\ pc[q] \in Bound
                            \/ a = Crash(q) /\ pc[q] = "leaving"
  \/ \E q \in Sessions : c = OwnerScope(q) /\ a = Janitor(q)

\* A step that begins a sweep begins this one.
LEMMA BegunIsThis ==
  ASSUME Ranges, NEW a \in Sweepers, NEW b \in Sweepers, NEW c \in ScopeNames,
         Begin(b, c), sweep[a].stage = "idle", sweep'[a].stage = "listing"
  PROVE  a = b /\ sweep'[a].scope = c
BY BeginFacts

LEMMA BegunIsDecided ==
  ASSUME Typed, [Next]_vars, NEW a \in Sweepers,
         sweep[a].stage = "idle", sweep'[a].stage = "listing"
  PROVE  Decided(a, sweep'[a].scope)
<1> USE DEF Typed
<1>0. name \in [Sessions -> Names]
  BY DEF Ranges
<1>1. ASSUME NEW p \in Sessions, PreconnectScan(p)
      PROVE  Decided(a, sweep'[a].scope)
  <2>1. PICK s \in Scans :
          /\ sweep' # sweep
          /\ ~OwnAlive(s, name[p])
          /\ Begin(Self(p), IF Blanket(s) THEN All ELSE InstanceScope(name[p]))
    BY <1>1 DEF PreconnectScan
  <2>2. CASE Blanket(s)
    <3>1. sweep'[a].scope = All
      BY <1>0, <2>1, <2>2, BegunIsThis, SweeperFacts, ScopesAreTyped
    <3> QED BY <2>2, <3>1, ScansDecide DEF Decided
  <2>3. CASE ~Blanket(s)
    <3>1. sweep'[a].scope = InstanceScope(name[p])
      BY <1>0, <2>1, <2>3, BegunIsThis, SweeperFacts, ScopesAreTyped
    <3> QED BY <1>0, <2>1, <3>1, ScansDecide DEF Decided
  <2> QED BY <2>2, <2>3
<1>2. ASSUME NEW r \in Recoveries, RecoverScans(r)
      PROVE  Decided(a, sweep'[a].scope)
  <2>1. PICK s \in Scans :
          \/ Blanket(s) /\ Begin(Recover(r), All)
          \/ \E n \in Names : ~OwnAlive(s, n) /\ Begin(Recover(r), InstanceScope(n))
    BY <1>2 DEF RecoverScans
  <2>2. CASE Blanket(s) /\ Begin(Recover(r), All)
    <3>1. sweep'[a].scope = All
      BY <1>0, <2>2, BegunIsThis, SweeperFacts, ScopesAreTyped
    <3> QED BY <2>2, <3>1, ScansDecide DEF Decided
  <2>3. ASSUME NEW n \in Names, ~OwnAlive(s, n), Begin(Recover(r), InstanceScope(n))
        PROVE  Decided(a, sweep'[a].scope)
    <3>1. sweep'[a].scope = InstanceScope(n)
      BY <1>0, <2>3, BegunIsThis, SweeperFacts, ScopesAreTyped
    <3> QED BY <2>3, <3>1, ScansDecide DEF Decided
  <2> QED BY <2>1, <2>2, <2>3
<1>3. ASSUME NEW p \in Sessions, Begin(Self(p), InstanceScope(name[p])), pc[p] \in Bound
      PROVE  Decided(a, sweep'[a].scope)
  <2>1. a = Self(p) /\ sweep'[a].scope = InstanceScope(name[p])
    BY <1>0, <1>3, BegunIsThis, SweeperFacts, ScopesAreTyped
  <2> QED BY <1>3, <2>1 DEF Decided
<1>4. ASSUME NEW p \in Sessions, CrashSweep(p), pc[p] \in Bound \union {"leaving"}
      PROVE  Decided(a, sweep'[a].scope)
  <2>1. a = Crash(p) /\ sweep'[a].scope = InstanceScope(name[p])
    BY <1>0, <1>4, BegunIsThis, SweeperFacts, ScopesAreTyped DEF CrashSweep
  <2> QED BY <1>4, <2>1 DEF Decided
<1>5. ASSUME NEW p \in Sessions, ParentExits(p)
      PROVE  Decided(a, sweep'[a].scope)
  <2>1. a = Janitor(p) /\ sweep'[a].scope = OwnerScope(p)
    BY <1>0, <1>5, BegunIsThis, SweeperFacts, ScopesAreTyped DEF ParentExits
  <2> QED BY <2>1 DEF Decided
<1>6. ASSUME NEW p \in Sessions, StartApply(p) \/ RevertEnds(p) \/ TunnelPanics(p)
      PROVE  Decided(a, sweep'[a].scope)
  <2>1. pc[p] \in Bound /\ Begin(Self(p), InstanceScope(name[p]))
    BY <1>6 DEF StartApply, RevertEnds, TunnelPanics, Bound, Tunnel
  <2> QED BY <1>3, <2>1
<1>7. ASSUME NEW p \in Sessions, ConsoleCloses(p) \/ Wedges(p) \/ TaskPanics(p)
      PROVE  Decided(a, sweep'[a].scope)
  <2>1. CrashSweep(p) /\ pc[p] \in Bound \union {"leaving"}
    BY <1>7 DEF ConsoleCloses, Wedges, TaskPanics, Bound, Links, LinkOf
  <2> QED BY <1>4, <2>1
<1>8. ASSUME NEW b \in Sweepers, sweep' = [sweep EXCEPT ![b] = Idle]
      PROVE  FALSE
  BY <1>8, IdleFacts
<1>9. ASSUME NEW p \in Sessions, NEW how, Ended(p, how)
      PROVE  FALSE
  BY <1>9, SweepUpdates DEF Ended, Ranges
<1>10. ASSUME NEW b \in Sweepers, SweepLists(b) \/ SweepDeletes(b)
       PROVE  FALSE
  <2>1. CASE SweepLists(b)
    BY <2>1, ListsFacts
  <2>2. CASE SweepDeletes(b)
    <3>1. PICK k \in sweep[b].todo : sweep' = [sweep EXCEPT ![b].todo = @ \ {k}]
      BY <2>2 DEF SweepDeletes
    <3> QED BY <3>1, DeletesFacts
  <2> QED BY <1>10, <2>1, <2>2
<1>11. sweep' # sweep
  OBVIOUS
<1>12. ASSUME NEW p \in Sessions,
              \/ BindPipe(p) \/ AttemptStarts(p) \/ AttemptFails(p) \/ ReleasePipe(p)
              \/ ApplyRefused(p) \/ WriteRule(p) \/ ApplyNotifies(p) \/ TakesBack(p)
              \/ RollbackEnds(p) \/ MainloopReturns(p) \/ UnwindEnds(p)
       PROVE  FALSE
  BY <1>11, <1>12 DEF BindPipe, AttemptStarts, AttemptFails, ReleasePipe, ApplyRefused,
     WriteRule, ApplyNotifies, TakesBack, RollbackEnds, MainloopReturns, UnwindEnds
<1>13. ASSUME NEW p \in Sessions,
              \/ SelfSweepEnds(p) \/ Leave(p) \/ Kill(p) \/ CrashSweepEnds(p)
              \/ JanitorEnds(p) \/ JanitorKilled(p)
       PROVE  FALSE
  BY <1>8, <1>9, <1>13, SweeperFacts DEF SelfSweepEnds, Leave, Kill, CrashSweepEnds,
     JanitorEnds, JanitorKilled
<1>14. ASSUME NEW r \in Recoveries, RecoverEnds(r)
       PROVE  FALSE
  BY <1>8, <1>14, SweeperFacts DEF RecoverEnds
<1>15. ASSUME LateNotice \/ UNCHANGED vars
       PROVE  FALSE
  BY <1>11, <1>15 DEF LateNotice, vars
<1> HIDE DEF Typed
<1> QED
  BY <1>1, <1>2, <1>5, <1>6, <1>7, <1>10, <1>12, <1>13, <1>14, <1>15, SweeperFacts
  DEF Next, SessionStep, JanitorStep

\* main.rs:2674, main.rs:5086: no sweep is decided on that takes a rule of
\* another session with its pipe, but for one of an instance the name of that
\* session is nested in: whatever part of the pipes a scan has listed, and
\* whatever other sessions, janitors and terminals are doing.
THEOREM NoSweepTakesTheLiving == Spec => SweepsSpareTheLiving
<1> DEFINE Spared ==
      \A p \in Sessions, a \in Sweepers :
        /\ sweep[a].stage = "idle" /\ sweep'[a].stage = "listing"
        /\ pc[p] \in Bound /\ a[1] # p /\ a \notin OnTheWayOut
        /\ sweep'[a].scope \in Names => ~Nested(sweep'[a].scope, name[p])
        => \A k \in keys \intersect OwnedBy(p) : ~InScope(k, sweep'[a].scope)
<1>1. Typed /\ OnePipe /\ [Next]_vars => Spared
  <2> SUFFICES ASSUME Typed, OnePipe, [Next]_vars,
                      NEW p \in Sessions, NEW a \in Sweepers,
                      sweep[a].stage = "idle", sweep'[a].stage = "listing",
                      pc[p] \in Bound, a[1] # p, a \notin OnTheWayOut,
                      sweep'[a].scope \in Names => ~Nested(sweep'[a].scope, name[p]),
                      NEW k \in keys \intersect OwnedBy(p)
               PROVE  ~InScope(k, sweep'[a].scope)
    OBVIOUS
  <2>1. /\ name \in [Sessions -> Names]
        /\ k \in Keys /\ Owner(k) = p /\ name[p] \in BoundNames
    BY DEF Typed, Ranges, OwnedBy, BoundNames
  <2>2. Decided(a, sweep'[a].scope)
    BY BegunIsDecided
  <2>3. ASSUME NEW n \in Names, n # name[p], sweep'[a].scope = InstanceScope(n)
        PROVE  ~InScope(k, sweep'[a].scope)
    BY <2>1, <2>3, InstanceScopeTakes DEF InstanceScope
  <2>4. ASSUME NEW q \in Sessions, sweep'[a].scope = InstanceScope(name[q]),
               \/ a \in {Self(q), Crash(q)} /\ pc[q] \in Bound
               \/ a = Crash(q) /\ pc[q] = "leaving"
        PROVE  ~InScope(k, sweep'[a].scope)
    <3>1. q # p /\ pc[q] \in Bound
      BY <2>4, SweeperFacts DEF OnTheWayOut
    <3>2. name[q] \in Names /\ name[q] # name[p]
      BY <2>1, <3>1 DEF OnePipe
    <3> QED BY <2>3, <2>4, <3>2
  <2>5. ASSUME NEW q \in Sessions, sweep'[a].scope = OwnerScope(q), a = Janitor(q)
        PROVE  ~InScope(k, sweep'[a].scope)
    <3>1. q # p
      BY <2>5, SweeperFacts
    <3> QED BY <2>1, <2>5, <3>1, OwnerScopeIsExact
  <2> QED BY <2>1, <2>2, <2>3, <2>4, <2>5 DEF Decided
<1>2. Typed /\ OnePipe /\ [Next]_vars => [Spared]_vars
  BY <1>1
<1> QED BY <1>2, AlwaysTyped, AlwaysOnePipe, PTL DEF Spec, SweepsSpareTheLiving


-----------------------------------------------------------------------------
(* RouteWindows. *)

\* A killed command is live only where the phase has ended, or where the code
\* has yet to look at the carrier it keeps.
LiveInv ==
  live # {} =>
    \/ at = "done" /\ gated
    \/ at = "pin_check" /\ adderr = "unconfirmed" /\ live = {<<"add", "pin">>}

ApplySteps == {"begin", "mtu", "addr_add", "pin_probe", "pin_add", "pin_check",
               "route_add", "classify", "heal", "readd", "verify", "up"}
FirstSteps == {"begin", "mtu", "addr_add", "pin_probe", "pin_add", "pin_check"}
UndoSteps == {"route_del", "addr_del", "pin_del", "pin_gone"}

PhaseInv ==
  /\ at \in ApplySteps => mode = "apply"
  /\ at \in UndoSteps => mode # "apply"
  /\ at = "done" /\ mode = "apply" => gated
  /\ gated => at = "done"
  /\ adderr = "unconfirmed" => at \in {"pin_check", "done"}
  /\ at = "addr_add" => config.ipv4
  /\ at \in {"pin_probe", "pin_add", "pin_check"} => config.pin
  /\ at \in FirstSteps => applied.pin = "none"
  /\ at \in {"pin_del", "pin_gone"} => applied.pin = "created"

\* The pin: whose it can be once it is recorded as created.
PinInv ==
  ~masked =>
    /\ applied.pin = "created" /\ at \in (ApplySteps \cup UndoSteps) \ {"pin_gone"} =>
         row["pin"] = "ours"
    /\ <<"del", "pin">> \in live => row["pin"] = "ours"

\* What is this process's is recorded and still to be undone, or a failure that
\* was only logged, or that is reported, tells of it.
ToUndo(x) ==
  \/ /\ at \notin {"addr_del", "pin_del", "pin_gone"}
     /\ \E k \in 1..Len(applied.routes) :
          x = applied.routes[k] /\ (at = "route_del" => k <= i)
  \/ x = "addr" /\ applied.addr /\ at \notin {"pin_del", "pin_gone"}
  \/ x = "pin" /\ applied.pin = "created"
Unseen(x) ==
  \/ x = "pin" /\ at = "pin_check" /\ adderr \in {"ok", "unconfirmed"}
  \/ at = "verify" /\ x = Routes[i]
Held(x) == row[x] = "ours" => slip \/ errors \/ gated \/ (at # "done" /\ (ToUndo(x) \/ Unseen(x)))
LeakInv == \A x \in Things : Held(x)
ErrorInv == errors => at \in UndoSteps \cup {"done"}

\* What is this process's, or may become it, is among its intents.
OursInv ==
  /\ \A x \in Things : row[x] = "ours" => x \in Intents /\ at # "begin"
  /\ \A c \in live : c[1] = "add" => c[2] \in Intents

\* A pin that is recorded as adopted is not this process's.
AdoptedInv ==
  /\ row["pin"] = "ours" \/ <<"add", "pin">> \in live => applied.pin # "adopted"
  /\ at = "pin_check" /\ adderr = "exists" => row["pin"] # "ours"
  /\ at \in {"mtu", "addr_add", "pin_probe", "pin_add"} => row["pin"] # "ours"

\* Every intent is open until its thing is recorded.
LedgerInv ==
  /\ at = "begin" => ~usable
  /\ usable /\ Loads =>
       \A x \in Intents :
         x \in pending \/ Recorded(x) \/ (x = "pin" /\ applied.pin = "adopted")

-----------------------------------------------------------------------------
(* Types. *)

HostOK ==
  /\ row \in [Things -> {"none", "ours", "dead", "other"}]
  /\ live \subseteq {"add", "del", "read"} \X Things
JournalOK == file \in {"ok", "corrupt"} /\ pending \subseteq Things /\ usable \in BOOLEAN
AppliedOK ==
  applied \in [routes : Seq(RoutePrefixes), addr : BOOLEAN, pin : {"none", "created", "adopted"}]
WhereOK ==
  /\ at \in Steps /\ mode \in {"apply", "rollback", "teardown"}
  /\ i \in Nat
  /\ at \in {"route_add", "classify", "heal", "readd", "verify"} => i \in 1..Len(Routes)
  /\ at = "route_del" => i \in 1..Len(applied.routes)
  /\ adderr \in CommandEnds \cup {"none"}
GhostOK == slip \in BOOLEAN /\ masked \in BOOLEAN

LEMMA PrefixType == \A k \in 1..Len(Routes) : Routes[k] \in Things
BY DEF Things, RoutePrefixes

LEMMA RunsType ==
  ASSUME WindowsTypeOK, NEW op \in {"add", "del"}, NEW x \in Things, NEW end \in CommandEnds, Runs(op, x, end)
  PROVE  HostOK' /\ GhostOK'
<1> USE DEF WindowsTypeOK, host, ghosts
<1>1. GhostOK'
  BY DEF Runs, GhostOK
<1>2. HostOK'
  <2>1. CASE Effect(op, x) /\ UNCHANGED live
    BY <2>1 DEF Runs, Effect, HostOK
  <2>2. CASE UNCHANGED row /\ (UNCHANGED live \/ live' = {<<op, x>>})
    BY <2>2 DEF HostOK
  <2>3. QED BY <2>1, <2>2 DEF Runs
<1>3. QED BY <1>1, <1>2

LEMMA ReadsType ==
  ASSUME WindowsTypeOK, NEW end, Reads(end)
  PROVE  HostOK' /\ GhostOK'
BY DEF Reads, WindowsTypeOK, HostOK, GhostOK, Things, ghosts

LEMMA SettleType ==
  ASSUME WindowsTypeOK, NEW x, Settle(x)
  PROVE  JournalOK'
BY DEF Settle, WindowsTypeOK, JournalOK, journal

LEMMA FailsType ==
  ASSUME WindowsTypeOK, NEW end, Fails(end)
  PROVE  JournalOK' /\ AppliedOK' /\ WhereOK' /\ errors' \in BOOLEAN /\ gated' \in BOOLEAN
<1> USE DEF WindowsTypeOK
<1>1. Len(applied.routes) \in Nat
  OBVIOUS
<1>2. JournalOK' /\ errors' \in BOOLEAN
  BY DEF Fails, JournalOK, journal
<1>3. CASE Gated
  BY <1>2, <1>3 DEF Gated, AppliedOK, WhereOK, Steps
<1>4. CASE RollsBack
  BY <1>1, <1>2, <1>4 DEF RollsBack, UndoFrom, PinUndo, AppliedOK, WhereOK, Steps
<1>5. QED BY <1>3, <1>4 DEF Fails

LEMMA GoesType ==
  ASSUME WindowsTypeOK, NEW to \in Steps, Goes(to),
         to \in {"route_add", "classify", "heal", "readd", "verify"} => i \in 1..Len(Routes),
         to # "route_del"
  PROVE  JournalOK' /\ AppliedOK' /\ WhereOK' /\ errors' \in BOOLEAN /\ gated' \in BOOLEAN
BY DEF Goes, WindowsTypeOK, JournalOK, AppliedOK, WhereOK, report, journal

LEMMA NextRouteType ==
  ASSUME WindowsTypeOK, i \in 1..Len(Routes), NextRoute
  PROVE  WhereOK' /\ errors' \in BOOLEAN /\ gated' \in BOOLEAN
BY RouteAssumption DEF NextRoute, RoutesFrom, WindowsTypeOK, WhereOK, Steps, report

\* Before the first route, i still stands where WindowsInit put it.
FirstInv == at \in FirstSteps => i = 1

LEMMA FirstRouteType ==
  ASSUME FirstInv, WindowsTypeOK, at \in {"mtu", "addr_add", "pin_probe", "pin_check"}
  PROVE  /\ RoutesFrom(1) \in Steps /\ AfterAddr \in Steps /\ AfterMtu \in Steps
         /\ \A to \in {RoutesFrom(1), AfterAddr, AfterMtu} :
              /\ to \notin {"classify", "heal", "readd", "verify", "route_del"}
              /\ to = "route_add" => i \in 1..Len(Routes)
BY RouteAssumption DEF FirstInv, FirstSteps, WindowsTypeOK, RoutesFrom, AfterAddr, AfterMtu, Steps

LEMMA Typing ==
  ASSUME WindowsTypeOK, FirstInv, [WindowsNext]_windowsVars
  PROVE  WindowsTypeOK' /\ FirstInv'
<1> USE DEF Elsewhere
<1> DEFINE Rest ==
             /\ config \in Configs /\ tun \in BOOLEAN /\ sessions \in Nat
             /\ errors \in BOOLEAN /\ gated \in BOOLEAN
<1> DEFINE Whole == HostOK /\ JournalOK /\ AppliedOK /\ WhereOK /\ GhostOK /\ Rest
<1>0. WindowsTypeOK <=> Whole
  BY DEF WindowsTypeOK, HostOK, JournalOK, AppliedOK, WhereOK, GhostOK
<1>a. WindowsTypeOK' <=> Whole'
  BY DEF WindowsTypeOK, HostOK, JournalOK, AppliedOK, WhereOK, GhostOK
<1> USE DEF FirstInv, FirstSteps
<1>1. CASE BeginApply
  <2>1. JournalOK'
    BY <1>0, <1>1 DEF BeginApply, AppendPending, JournalOK, Intents, Things
  <2>2. QED BY <1>0, <1>a, <1>1, <2>1
    DEF BeginApply, HostOK, AppliedOK, WhereOK, GhostOK, Steps, host, report, ghosts
<1>2. CASE Mtu
  BY <1>0, <1>a, <1>2, ReadsType, FailsType, GoesType, FirstRouteType DEF Mtu, Goes, Fails, RollsBack, Gated, UndoFrom, PinUndo, RoutesFrom, AfterAddr, AfterMtu
<1>3. CASE AddrAdd
  <2>1. PICK end \in CommandEnds :
          /\ Runs("add", "addr", end)
          /\ IF end = "ok"
             THEN /\ applied' = [applied EXCEPT !.addr = TRUE]
                  /\ at' = AfterAddr
                  /\ Settle("addr")
                  /\ UNCHANGED <<mode, i, adderr, report>>
             ELSE Fails(end)
    BY <1>3 DEF AddrAdd
  <2>2. HostOK' /\ GhostOK'
    BY <1>0, <2>1, RunsType DEF Things
  <2>3. CASE end = "ok"
    <3>1. JournalOK' /\ AppliedOK' /\ Rest'
      BY <1>0, <1>3, <2>1, <2>3, SettleType DEF AddrAdd, AppliedOK, report
    <3>2. WhereOK' /\ FirstInv'
      BY <1>0, <1>3, <2>1, <2>3, FirstRouteType DEF AddrAdd, WhereOK
    <3>3. QED BY <1>a, <2>2, <3>1, <3>2
  <2>4. CASE end # "ok"
    BY <1>0, <1>a, <1>3, <2>1, <2>2, <2>4, FailsType
    DEF AddrAdd, Fails, RollsBack, Gated, UndoFrom, PinUndo
  <2>5. QED BY <2>3, <2>4
<1>p. ASSUME NEW o \in {"created", "adopted"}, PinStands(o),
             at \in {"pin_probe", "pin_check"}, HostOK', GhostOK', Elsewhere
      PROVE  WindowsTypeOK' /\ FirstInv'
  <2>1. JournalOK' /\ AppliedOK' /\ Rest'
    BY <1>0, <1>p, SettleType DEF PinStands, AppliedOK, report
  <2>2. WhereOK' /\ FirstInv'
    BY <1>0, <1>p, FirstRouteType DEF PinStands, WhereOK, CommandEnds
  <2>3. QED BY <1>a, <1>p, <2>1, <2>2
<1>f. ASSUME NEW end, Fails(end), HostOK', GhostOK', Elsewhere
      PROVE  WindowsTypeOK' /\ FirstInv'
  BY <1>0, <1>a, <1>f, FailsType DEF Fails, RollsBack, Gated, UndoFrom, PinUndo
<1>4. CASE PinProbe
  BY <1>0, <1>a, <1>p, <1>f, <1>4, ReadsType, GoesType DEF PinProbe, Goes, Steps
<1>5. CASE PinAdd
  <2>1. HostOK' /\ GhostOK'
    BY <1>0, <1>5, RunsType DEF PinAdd, Things
  <2>2. QED BY <1>0, <1>a, <1>5, <2>1
    DEF PinAdd, JournalOK, AppliedOK, WhereOK, Steps, report, journal
<1>6. CASE PinCheck
  <2>1. HostOK' /\ GhostOK'
    BY <1>0, <1>6 DEF PinCheck, HostOK, GhostOK, Things
  <2>2. QED BY <1>p, <1>f, <1>6, <2>1 DEF PinCheck
<1>g. ASSUME NEW to \in {"classify", "heal", "readd", "verify"}, Goes(to),
             i \in 1..Len(Routes), HostOK', GhostOK', Elsewhere
      PROVE  WindowsTypeOK' /\ FirstInv'
  BY <1>0, <1>a, <1>g, GoesType DEF Goes, Steps
<1>n. ASSUME NextRoute, i \in 1..Len(Routes), HostOK', GhostOK', JournalOK', AppliedOK', Elsewhere
      PROVE  WindowsTypeOK' /\ FirstInv'
  BY <1>0, <1>a, <1>n, NextRouteType DEF NextRoute, RoutesFrom
<1>h. ASSUME UNCHANGED host PROVE HostOK'
  BY <1>0, <1>h DEF host, HostOK
<1>7. CASE RouteAdd
  <2>1. HostOK' /\ GhostOK' /\ i \in 1..Len(Routes)
    BY <1>0, <1>7, RunsType, PrefixType DEF RouteAdd, WhereOK
  <2>2. QED BY <1>f, <1>g, <1>7, <2>1 DEF RouteAdd
<1>8. CASE Classify
  <2>1. HostOK' /\ GhostOK' /\ i \in 1..Len(Routes)
    BY <1>0, <1>h, <1>8 DEF Classify, WhereOK, GhostOK, NextRoute, ghosts
  <2>2. CASE NextRoute /\ UNCHANGED <<applied, journal, ghosts>>
    BY <1>0, <1>8, <1>n, <2>1, <2>2 DEF Classify, AppliedOK, JournalOK, journal
  <2>3. QED BY <1>f, <1>g, <1>8, <2>1, <2>2 DEF Classify
<1>9. CASE Heal
  <2>1. HostOK' /\ GhostOK' /\ i \in 1..Len(Routes)
    BY <1>0, <1>9, RunsType, PrefixType DEF Heal, WhereOK, CommandEnds
  <2>2. QED BY <1>f, <1>g, <1>9, <2>1 DEF Heal
<1>10. CASE ReAdd
  <2>1. HostOK' /\ GhostOK' /\ i \in 1..Len(Routes)
    BY <1>0, <1>10, RunsType, PrefixType DEF ReAdd, WhereOK
  <2>2. QED BY <1>f, <1>g, <1>10, <2>1 DEF ReAdd
<1>11. CASE Verify
  <2>1. HostOK' /\ GhostOK' /\ i \in 1..Len(Routes)
    BY <1>0, <1>h, <1>11 DEF Verify, WhereOK, GhostOK
  <2>2. CASE /\ applied' = [applied EXCEPT !.routes = Append(@, Routes[i])]
             /\ NextRoute /\ Settle(Routes[i])
    <3>1. JournalOK'
      BY <1>0, <2>2, SettleType
    <3>2. Routes[i] \in RoutePrefixes
      BY <2>1 DEF RoutePrefixes
    <3>3. AppliedOK'
      BY <1>0, <2>2, <3>2 DEF AppliedOK
    <3>4. QED BY <1>11, <1>n, <2>1, <2>2, <3>1, <3>3 DEF Verify
  <2>3. CASE NextRoute /\ UNCHANGED <<applied, journal>>
    BY <1>0, <1>11, <1>n, <2>1, <2>3 DEF Verify, AppliedOK, JournalOK, journal
  <2>4. QED BY <1>f, <1>11, <2>1, <2>2, <2>3 DEF Verify
<1>12. CASE Revert
  <2>1. Len(applied.routes) \in Nat
    BY <1>0 DEF AppliedOK
  <2>2. QED BY <1>0, <1>a, <1>12, <2>1
    DEF Revert, UndoFrom, PinUndo, HostOK, JournalOK, AppliedOK, WhereOK, GhostOK, Steps,
        host, journal, report, ghosts
<1>w. ASSUME NEW end \in CommandEnds, NEW to \in {"route_del", "addr_del", "pin_del", "pin_gone", "done"},
             Walks(end, to), i' \in Nat, to = "route_del" => i' \in 1..Len(applied.routes),
             HostOK', GhostOK', UNCHANGED journal, Elsewhere
      PROVE  WindowsTypeOK' /\ FirstInv'
  <2>1. JournalOK' /\ AppliedOK'
    BY <1>0, <1>w DEF Walks, AppliedOK, JournalOK, journal
  <2>2. WhereOK' /\ FirstInv'
    BY <1>0, <1>w DEF Walks, WhereOK, Steps
  <2>3. Rest'
    BY <1>0, <1>w DEF Walks
  <2>4. QED BY <1>a, <1>w, <2>1, <2>2, <2>3
<1>13. CASE RouteDel
  <2>1. i \in 1..Len(applied.routes) /\ applied.routes[i] \in Things
    BY <1>0, <1>13 DEF RouteDel, WhereOK, AppliedOK, Things
  <2>2. HostOK' /\ GhostOK'
    BY <1>0, <1>13, <2>1, RunsType DEF RouteDel, CommandEnds
  <2>3. i' \in Nat /\ (UndoFrom(i - 1) = "route_del" => i' \in 1..Len(applied.routes))
    BY <1>0, <1>13, <2>1 DEF RouteDel, UndoFrom, PinUndo, AppliedOK
  <2>4. UndoFrom(i - 1) \in {"route_del", "addr_del", "pin_del", "pin_gone", "done"}
    BY DEF UndoFrom, PinUndo
  <2>5. QED BY <1>13, <1>w, <2>2, <2>3, <2>4 DEF RouteDel, CommandEnds
<1>14. CASE AddrDel
  <2>1. HostOK' /\ GhostOK'
    BY <1>0, <1>14, RunsType DEF AddrDel, CommandEnds, Things
  <2>2. QED BY <1>0, <1>14, <1>w, <2>1 DEF AddrDel, PinUndo, CommandEnds, WhereOK
<1>15. CASE PinDel
  <2>1. HostOK' /\ GhostOK'
    BY <1>0, <1>15, RunsType DEF PinDel, CommandEnds, Things
  <2>2. QED BY <1>0, <1>15, <1>w, <2>1 DEF PinDel, CommandEnds, WhereOK
<1>16. CASE PinGone
  <2>1. HostOK' /\ GhostOK'
    BY <1>0, <1>16, ReadsType DEF PinGone
  <2>2. QED BY <1>0, <1>16, <1>w, <2>1 DEF PinGone, CommandEnds, WhereOK
<1>u. ASSUME UNCHANGED <<config, journal, phase, report, ghosts, sessions>>,
             HostOK', tun' \in BOOLEAN
      PROVE  WindowsTypeOK' /\ FirstInv'
  BY <1>0, <1>a, <1>u
  DEF JournalOK, AppliedOK, WhereOK, GhostOK, journal, phase, report, ghosts
<1>17. CASE LiveActs
  <2>1. HostOK'
    BY <1>0, <1>17 DEF LiveActs, Effect, HostOK
  <2>2. QED BY <1>0, <1>17, <1>u, <2>1 DEF LiveActs
<1>18. CASE TunVanishes
  <2>1. HostOK'
    BY <1>0, <1>18 DEF TunVanishes, HostOK
  <2>2. QED BY <1>18, <1>u, <2>1 DEF TunVanishes
<1>19. CASE OtherPins
  <2>1. HostOK'
    BY <1>0, <1>19 DEF OtherPins, HostOK
  <2>2. QED BY <1>0, <1>19, <1>u, <2>1 DEF OtherPins
<1>20. CASE NewProcess
  <2>1. HostOK'
    BY <1>0, <1>20 DEF NewProcess, HostOK
  <2>b. JournalOK'
    BY <1>0, <1>20 DEF NewProcess, JournalOK
  <2>c. GhostOK' /\ errors' \in BOOLEAN /\ gated' \in BOOLEAN /\ tun' \in BOOLEAN
    BY <1>20 DEF NewProcess, GhostOK
  <2>d. config' \in Configs /\ sessions' \in Nat
    BY <1>0, <1>20 DEF NewProcess
  <2>3. AppliedOK' /\ WhereOK' /\ FirstInv'
    BY <1>0, <1>20 DEF NewProcess, NothingApplied, AppliedOK, WhereOK, Steps
  <2>4. QED BY <1>a, <2>1, <2>b, <2>c, <2>d, <2>3
<1>21. CASE UNCHANGED windowsVars
  BY <1>0, <1>a, <1>21
  DEF windowsVars, HostOK, JournalOK, AppliedOK, WhereOK, GhostOK, host, journal, phase, report, ghosts
<1>22. CASE Commands
  BY <1>1, <1>2, <1>3, <1>4, <1>5, <1>6, <1>7, <1>8, <1>9, <1>10, <1>11, <1>13,
     <1>14, <1>15, <1>16, <1>22 DEF Commands
<1>23. QED
  BY <1>12, <1>17, <1>18, <1>19, <1>20, <1>21, <1>22 DEF WindowsNext, Finished

-----------------------------------------------------------------------------
(* Where live commands, phases and errors can be. *)

WhereInv == LiveInv /\ PhaseInv

LEMMA UndoStep ==
  \A k \in Int :
    /\ UndoFrom(k) \in UndoSteps \cup {"done"}
    /\ UndoFrom(k) # "pin_gone"
    /\ UndoFrom(k) = "pin_del" => applied.pin = "created"
BY DEF UndoFrom, PinUndo, UndoSteps

LEMMA LenType == ASSUME WindowsTypeOK PROVE Len(applied.routes) \in Nat
BY DEF WindowsTypeOK

LEMMA PinUndoStep ==
  PinUndo \in {"pin_del", "done"} /\ (PinUndo = "pin_del" => applied.pin = "created")
BY DEF PinUndo

LEMMA FailsWhere ==
  ASSUME WindowsTypeOK, WhereInv, at \in ApplySteps, NEW end, Fails(end), UNCHANGED config,
         end = "unconfirmed" \/ live' = {}
  PROVE  WhereInv'
<1>1. CASE Gated
  BY <1>1 DEF Gated, WhereInv, LiveInv, PhaseInv, ApplySteps, UndoSteps, FirstSteps
<1>2. CASE RollsBack /\ live' = {}
  <2>1. at' \in UndoSteps \cup {"done"} /\ at' # "pin_gone"
        /\ (at' = "pin_del" => applied.pin = "created")
    BY <1>2, UndoStep, LenType DEF RollsBack
  <2>2. ~gated /\ adderr' = "none"
    BY <1>2 DEF RollsBack, WhereInv, PhaseInv, ApplySteps
  <2>3. QED BY <1>2, <2>1, <2>2 DEF RollsBack, WhereInv, LiveInv, PhaseInv, ApplySteps, UndoSteps, FirstSteps
<1>3. QED BY <1>1, <1>2 DEF Fails

LEMMA Whereabouts ==
  ASSUME WindowsTypeOK, WhereInv, [WindowsNext]_windowsVars
  PROVE  WhereInv'
<1> USE DEF Elsewhere, host
<1> DEFINE Reached(to) ==
             /\ to \in ApplySteps
             /\ to = "addr_add" => config.ipv4
             /\ to \in {"pin_probe", "pin_add", "pin_check"} => config.pin
             /\ to \in FirstSteps => applied.pin = "none"
<1>l. at \in ApplySteps \ {"pin_check"} => live = {} /\ mode = "apply" /\ ~gated /\ adderr # "unconfirmed"
  BY DEF WhereInv, LiveInv, PhaseInv, ApplySteps
<1>u. at \in UndoSteps => live = {} /\ mode # "apply" /\ ~gated /\ adderr # "unconfirmed"
  BY DEF WhereInv, LiveInv, PhaseInv, ApplySteps, UndoSteps, FirstSteps
<1>g. ASSUME at \in ApplySteps \ {"pin_check"}, NEW to, Reached(to), at' = to, live' = {},
             applied'.pin = applied.pin, UNCHANGED <<config, mode, adderr, gated>>
      PROVE  WhereInv'
  BY <1>l, <1>g DEF WhereInv, LiveInv, PhaseInv, ApplySteps, UndoSteps, FirstSteps
<1>d. ASSUME at \in ApplySteps \ {"pin_check"}, NEW to, Reached(to), Goes(to), live' = {}, UNCHANGED config
      PROVE  WhereInv'
  BY <1>d, <1>g DEF Goes, report
<1>r. ASSUME NEW end, Reads(end), live = {}
      PROVE  end # "unconfirmed" => live' = {}
  BY <1>r DEF Reads
<1>c. ASSUME NEW op, NEW x, NEW end, Runs(op, x, end), live = {}
      PROVE  end # "unconfirmed" => live' = {}
  BY <1>c DEF Runs
<1>1. CASE BeginApply
  BY <1>1, <1>l, <1>g DEF BeginApply, ApplySteps, FirstSteps, WhereInv, PhaseInv, report
<1>2. CASE Mtu
  <2>1. PICK end : Reads(end) /\ IF end = "ok" THEN Goes(AfterMtu) ELSE Fails(end)
    BY <1>2 DEF Mtu
  <2>2. at = "mtu" /\ UNCHANGED config /\ live = {}
    BY <1>2, <1>l DEF Mtu, ApplySteps
  <2>3. applied.pin = "none"
    BY <2>2 DEF WhereInv, PhaseInv, FirstSteps
  <2>5. CASE end = "ok"
    BY <1>d, <1>r, <2>1, <2>2, <2>3, <2>5
    DEF AfterMtu, AfterAddr, RoutesFrom, ApplySteps, FirstSteps
  <2>6. CASE end # "ok"
    BY <1>r, <2>1, <2>2, <2>6, FailsWhere DEF ApplySteps
  <2>7. QED BY <2>5, <2>6
<1>3. CASE AddrAdd
  <2>1. PICK end \in CommandEnds :
          /\ Runs("add", "addr", end)
          /\ IF end = "ok"
             THEN /\ applied' = [applied EXCEPT !.addr = TRUE]
                  /\ at' = AfterAddr
                  /\ UNCHANGED <<mode, adderr, report>>
             ELSE Fails(end)
    BY <1>3 DEF AddrAdd
  <2>2. at = "addr_add" /\ UNCHANGED config /\ live = {} /\ applied.pin = "none"
    BY <1>3, <1>l DEF AddrAdd, ApplySteps, FirstSteps, WhereInv, PhaseInv
  <2>3. CASE end = "ok"
    <3>1. live' = {}
      BY <1>c, <2>1, <2>2, <2>3
    <3>2. applied'.pin = applied.pin
      BY <2>1, <2>3 DEF WindowsTypeOK
    <3>3. Reached(AfterAddr)
      BY <2>2 DEF AfterAddr, RoutesFrom, ApplySteps, FirstSteps
    <3>4. QED BY <1>g, <2>1, <2>2, <2>3, <3>1, <3>2, <3>3 DEF ApplySteps, report
  <2>4. CASE end # "ok"
    BY <1>c, <2>1, <2>2, <2>4, FailsWhere DEF ApplySteps
  <2>5. QED BY <2>3, <2>4
<1>p. ASSUME NEW o \in {"created", "adopted"}, PinStands(o), UNCHANGED config,
             at \in {"pin_probe", "pin_check"}, live' = {}
      PROVE  WhereInv'
  <2>1. applied'.pin = o
    BY <1>p DEF PinStands, WindowsTypeOK
  <2>2. RoutesFrom(1) \in {"route_add", "up"}
    BY DEF RoutesFrom
  <2>3. mode = "apply" /\ ~gated
    BY <1>p DEF WhereInv, PhaseInv, ApplySteps
  <2>4. QED BY <1>p, <2>1, <2>2, <2>3
    DEF PinStands, WhereInv, LiveInv, PhaseInv, ApplySteps, UndoSteps, FirstSteps, report
<1>4. CASE PinProbe
  <2>1. PICK end : /\ Reads(end)
                   /\ IF end # "ok" THEN Fails(end)
                      ELSE IF row["pin"] # "none" THEN PinStands("adopted")
                      ELSE Goes("pin_add")
    BY <1>4 DEF PinProbe
  <2>2. at = "pin_probe" /\ UNCHANGED config /\ live = {} /\ applied.pin = "none" /\ config.pin
    BY <1>4, <1>l DEF PinProbe, ApplySteps, FirstSteps, WhereInv, PhaseInv
  <2>3. CASE end = "ok"
    <3>1. live' = {}
      BY <1>r, <2>1, <2>2, <2>3
    <3>2. CASE PinStands("adopted")
      BY <1>p, <2>2, <3>1, <3>2
    <3>3. CASE Goes("pin_add")
      BY <1>d, <2>2, <3>1, <3>3 DEF ApplySteps, FirstSteps
    <3>4. QED BY <2>1, <2>3, <3>2, <3>3
  <2>4. CASE end # "ok"
    BY <1>r, <2>1, <2>2, <2>4, FailsWhere DEF ApplySteps
  <2>5. QED BY <2>3, <2>4
<1>5. CASE PinAdd
  <2>1. PICK end \in CommandEnds : Runs("add", "pin", end) /\ adderr' = end
    BY <1>5 DEF PinAdd
  <2>2. live = {} /\ mode = "apply" /\ ~gated /\ applied.pin = "none" /\ config.pin
    BY <1>5, <1>l DEF PinAdd, ApplySteps, FirstSteps, WhereInv, PhaseInv
  <2>3. live' = {} \/ (end = "unconfirmed" /\ live' = {<<"add", "pin">>})
    BY <2>1, <2>2 DEF Runs
  <2>4. QED BY <1>5, <2>1, <2>2, <2>3
    DEF PinAdd, WhereInv, LiveInv, PhaseInv, ApplySteps, UndoSteps, FirstSteps, report
<1>6. CASE PinCheck
  <2>1. PICK end \in {"ok", "failed", "unconfirmed"} :
          /\ live' = IF end = "unconfirmed" THEN live \cup {<<"read", "pin">>} ELSE live
          /\ IF end # "ok" THEN Fails(Carrier(end))
             ELSE IF adderr = "ok" /\ row["pin"] # "none" THEN PinStands("created")
             ELSE IF adderr = "exists" /\ row["pin"] # "none" THEN PinStands("adopted")
             ELSE Fails(Carrier("failed"))
    BY <1>6 DEF PinCheck
  <2>2. at = "pin_check" /\ UNCHANGED config
    BY <1>6 DEF PinCheck
  <2>3. adderr # "unconfirmed" => live = {}
    BY <2>2 DEF WhereInv, LiveInv
  <2>4. ASSUME NEW e \in {"failed", "unconfirmed"}, Fails(Carrier(e)),
               e = "failed" => live' = live
        PROVE  WhereInv'
    <3>1. Carrier(e) = "unconfirmed" \/ live' = {}
      BY <2>3, <2>4 DEF Carrier
    <3>2. QED BY <2>2, <2>4, <3>1, FailsWhere DEF ApplySteps
  <2>5. ASSUME NEW o \in {"created", "adopted"}, PinStands(o), adderr # "unconfirmed", live' = live
        PROVE  WhereInv'
    BY <1>p, <2>2, <2>3, <2>5
  <2>6. QED BY <2>1, <2>4, <2>5
<1>f. ASSUME at \in ApplySteps \ {"pin_check"}, NEW end, Fails(end), UNCHANGED config,
             end # "unconfirmed" => live' = {}
      PROVE  WhereInv'
  BY <1>f, FailsWhere
<1>n. ASSUME at \in {"classify", "verify"}, NextRoute, UNCHANGED <<config, live>>, applied'.pin = applied.pin
      PROVE  WhereInv'
  <2>1. at' \in {"route_add", "up"}
    BY <1>n DEF NextRoute, RoutesFrom
  <2>2. Reached(at')
    BY <2>1 DEF ApplySteps, FirstSteps
  <2>3. QED BY <1>l, <1>g, <1>n, <2>2 DEF NextRoute, ApplySteps, report
<1>t. ASSUME at \in {"route_add", "classify", "heal", "readd"},
             NEW to \in {"verify", "classify", "heal", "readd"}, Goes(to), live' = {}, UNCHANGED config
      PROVE  WhereInv'
  BY <1>d, <1>t DEF ApplySteps, FirstSteps
<1>7. CASE RouteAdd
  <2>1. PICK end \in CommandEnds :
          /\ Runs("add", Routes[i], end)
          /\ IF end = "ok" THEN Goes("verify")
             ELSE IF end = "exists" THEN Goes("classify")
             ELSE Fails(end)
    BY <1>7 DEF RouteAdd
  <2>2. at = "route_add" /\ UNCHANGED config /\ live = {}
    BY <1>7, <1>l DEF RouteAdd, ApplySteps
  <2>3. end # "unconfirmed" => live' = {}
    BY <1>c, <2>1, <2>2
  <2>4. QED BY <1>f, <1>t, <2>1, <2>2, <2>3 DEF ApplySteps
<1>8. CASE Classify
  <2>1. at = "classify" /\ UNCHANGED <<config, live>> /\ live = {}
    BY <1>8, <1>l DEF Classify, ApplySteps
  <2>2. \/ Fails("failed") \/ Goes("readd") \/ Goes("heal")
        \/ NextRoute /\ UNCHANGED applied
    BY <1>8 DEF Classify
  <2>3. QED BY <1>f, <1>n, <1>t, <2>1, <2>2 DEF ApplySteps
<1>9. CASE Heal
  <2>1. PICK end \in {"ok", "failed", "unconfirmed"} :
          /\ Runs("del", Routes[i], end)
          /\ IF end = "unconfirmed" THEN Fails(end) ELSE Goes("readd")
    BY <1>9 DEF Heal
  <2>2. at = "heal" /\ UNCHANGED config /\ live = {}
    BY <1>9, <1>l DEF Heal, ApplySteps
  <2>3. end # "unconfirmed" => live' = {}
    BY <1>c, <2>1, <2>2
  <2>4. QED BY <1>f, <1>t, <2>1, <2>2, <2>3 DEF ApplySteps
<1>10. CASE ReAdd
  <2>1. PICK end \in CommandEnds :
          /\ Runs("add", Routes[i], end)
          /\ IF end = "ok" THEN Goes("verify") ELSE Fails(end)
    BY <1>10 DEF ReAdd
  <2>2. at = "readd" /\ UNCHANGED config /\ live = {}
    BY <1>10, <1>l DEF ReAdd, ApplySteps
  <2>3. end # "unconfirmed" => live' = {}
    BY <1>c, <2>1, <2>2
  <2>4. QED BY <1>f, <1>t, <2>1, <2>2, <2>3 DEF ApplySteps
<1>11. CASE Verify
  <2>1. at = "verify" /\ UNCHANGED <<config, live>> /\ live = {}
    BY <1>11, <1>l DEF Verify, ApplySteps
  <2>2. \/ Fails("failed")
        \/ NextRoute /\ applied' = [applied EXCEPT !.routes = Append(@, Routes[i])]
        \/ NextRoute /\ UNCHANGED applied
    BY <1>11 DEF Verify
  <2>3. CASE NextRoute
    <3>1. applied'.pin = applied.pin
      BY <2>2, <2>3, <1>11 DEF Verify, WindowsTypeOK, Fails, RollsBack, NextRoute, Gated
    <3>2. QED BY <1>n, <2>1, <2>3, <3>1
  <2>4. QED BY <1>f, <2>1, <2>2, <2>3 DEF ApplySteps
<1>12. CASE Revert
  <2>1. live = {} /\ ~gated
    BY <1>12, <1>l DEF Revert, ApplySteps
  <2>2. at' \in UndoSteps \cup {"done"} /\ at' # "pin_gone"
        /\ (at' = "pin_del" => applied.pin = "created")
    BY <1>12, UndoStep, LenType DEF Revert
  <2>3. QED BY <1>12, <2>1, <2>2
    DEF Revert, WhereInv, LiveInv, PhaseInv, ApplySteps, UndoSteps, FirstSteps, report
<1>w. ASSUME at \in UndoSteps, NEW end, NEW to, Walks(end, to), UNCHANGED config,
             to \in UndoSteps \cup {"done"}, to \in {"pin_del", "pin_gone"} => applied.pin = "created",
             end # "unconfirmed" => live' = {}
      PROVE  WhereInv'
  BY <1>u, <1>w DEF Walks, WhereInv, LiveInv, PhaseInv, ApplySteps, UndoSteps, FirstSteps
<1>13. CASE RouteDel
  <2>1. PICK end : Runs("del", applied.routes[i], end) /\ Walks(end, UndoFrom(i - 1))
    BY <1>13 DEF RouteDel
  <2>2. at \in UndoSteps /\ UNCHANGED config /\ live = {}
    BY <1>13, <1>u DEF RouteDel, UndoSteps
  <2>i. i - 1 \in Int
    BY DEF WindowsTypeOK
  <2>3. end # "unconfirmed" => live' = {}
    BY <1>c, <2>1, <2>2
  <2>4. QED BY <1>w, <2>1, <2>2, <2>3, <2>i, UndoStep
<1>14. CASE AddrDel
  <2>1. PICK end : Runs("del", "addr", end) /\ Walks(end, PinUndo)
    BY <1>14 DEF AddrDel
  <2>2. at \in UndoSteps /\ UNCHANGED config /\ live = {}
    BY <1>14, <1>u DEF AddrDel, UndoSteps
  <2>3. end # "unconfirmed" => live' = {}
    BY <1>c, <2>1, <2>2
  <2>4. QED BY <1>w, <2>1, <2>2, <2>3, PinUndoStep DEF UndoSteps
<1>15. CASE PinDel
  <2>1. PICK end : Runs("del", "pin", end) /\ Walks(end, IF end = "ok" THEN "pin_gone" ELSE "done")
    BY <1>15 DEF PinDel
  <2>2. at = "pin_del" /\ at \in UndoSteps /\ UNCHANGED config /\ live = {}
    BY <1>15, <1>u DEF PinDel, UndoSteps
  <2>3. end # "unconfirmed" => live' = {}
    BY <1>c, <2>1, <2>2
  <2>4. applied.pin = "created"
    BY <2>2 DEF WhereInv, PhaseInv
  <2>5. QED BY <1>w, <2>1, <2>2, <2>3, <2>4 DEF UndoSteps
<1>16. CASE PinGone
  <2>1. PICK end : /\ Reads(end)
                   /\ Walks(IF end = "ok" /\ row["pin"] # "none" THEN "failed" ELSE end, "done")
    BY <1>16 DEF PinGone
  <2>2. at \in UndoSteps /\ UNCHANGED config /\ live = {}
    BY <1>16, <1>u DEF PinGone, UndoSteps
  <2>3. end # "unconfirmed" => live' = {}
    BY <1>r, <2>1, <2>2
  <2>4. QED BY <1>w, <2>1, <2>2, <2>3
<1>17. CASE LiveActs
  BY <1>17 DEF LiveActs, WhereInv, LiveInv, PhaseInv, phase, report
<1>18. CASE TunVanishes
  BY <1>18 DEF TunVanishes, WhereInv, LiveInv, PhaseInv, phase, report
<1>19. CASE OtherPins
  BY <1>19 DEF OtherPins, WhereInv, LiveInv, PhaseInv, phase, report
<1>20. CASE NewProcess
  BY <1>20 DEF NewProcess, NothingApplied, WhereInv, LiveInv, PhaseInv, ApplySteps, UndoSteps, FirstSteps
<1>21. CASE UNCHANGED windowsVars
  BY <1>21 DEF windowsVars, WhereInv, LiveInv, PhaseInv, phase, report
<1>22. CASE Commands
  BY <1>1, <1>2, <1>3, <1>4, <1>5, <1>6, <1>7, <1>8, <1>9, <1>10, <1>11, <1>13,
     <1>14, <1>15, <1>16, <1>22 DEF Commands
<1>23. QED
  BY <1>12, <1>17, <1>18, <1>19, <1>20, <1>21, <1>22 DEF WindowsNext, Finished

-----------------------------------------------------------------------------
(* Whose the pin is. *)

LEMMA RunsElsewhere ==
  ASSUME WindowsTypeOK, NEW op, NEW x \in OnTun, NEW end, Runs(op, x, end)
  PROVE  /\ row'["pin"] = row["pin"] /\ masked' = masked
         /\ live = {} => <<"del", "pin">> \notin live' /\ <<"add", "pin">> \notin live'
<1>1. x # "pin"
  BY RouteAssumption DEF OnTun
<1>2. row'["pin"] = row["pin"]
  <2>1. CASE Effect(op, x)
    BY <1>1, <2>1 DEF Effect, WindowsTypeOK
  <2>2. CASE UNCHANGED row
    BY <2>2
  <2>3. QED BY <2>1, <2>2 DEF Runs, host
<1>3. masked' = masked
  BY <1>1 DEF Runs, ghosts
<1>4. live = {} => <<"del", "pin">> \notin live' /\ <<"add", "pin">> \notin live'
  BY <1>1 DEF Runs, host
<1>5. QED BY <1>2, <1>3, <1>4

LEMMA AppliedKept ==
  /\ \A end : Fails(end) => applied' = applied
  /\ \A to : Goes(to) => applied' = applied
  /\ \A end, to : Walks(end, to) => applied' = applied
BY DEF Fails, Gated, RollsBack, Goes, Walks

LEMMA NoLive ==
  ASSUME WhereInv, at \in Steps \ {"done", "pin_check"}
  PROVE  live = {}
BY DEF WhereInv, LiveInv

LEMMA PinKept ==
  ASSUME PinInv, at \in Steps \ {"done", "pin_gone"}, UNCHANGED <<row["pin"], applied.pin>>,
         masked => masked', <<"del", "pin">> \notin live'
  PROVE  PinInv'
BY DEF PinInv, Steps, ApplySteps, UndoSteps

LEMMA PinOwned ==
  ASSUME WindowsTypeOK, WhereInv, PinInv, [WindowsNext]_windowsVars
  PROVE  PinInv'
<1> USE DEF Elsewhere, host, ghosts
<1>o. RoutePrefixes \subseteq OnTun /\ "addr" \in OnTun
  BY DEF OnTun
<1>r. ASSUME at \in {"route_add", "heal", "readd"} PROVE Routes[i] \in OnTun
  BY <1>o, <1>r DEF WindowsTypeOK, RoutePrefixes
<1>1. CASE BeginApply
  BY <1>1, NoLive, PinKept DEF BeginApply, Steps
<1>2. CASE Mtu
  BY <1>2, NoLive, PinKept, AppliedKept DEF Mtu, Reads, Steps
<1>3. CASE AddrAdd
  <2>1. applied'.pin = applied.pin
    BY <1>3, AppliedKept DEF AddrAdd, WindowsTypeOK
  <2>2. row'["pin"] = row["pin"] /\ masked' = masked /\ <<"del", "pin">> \notin live'
    BY <1>3, <1>o, NoLive, RunsElsewhere DEF AddrAdd, Steps
  <2>3. QED BY <1>3, <2>1, <2>2, PinKept DEF AddrAdd, Steps
<1>4. CASE PinProbe
  <2>1. applied'.pin # "created" /\ <<"del", "pin">> \notin live'
    BY <1>4, NoLive, AppliedKept
    DEF PinProbe, PinStands, Reads, WindowsTypeOK, WhereInv, PhaseInv, FirstSteps, Steps
  <2>2. QED BY <2>1 DEF PinInv
<1>5. CASE PinAdd
  <2>1. applied'.pin # "created" /\ <<"del", "pin">> \notin live'
    BY <1>5, NoLive DEF PinAdd, Runs, WhereInv, PhaseInv, FirstSteps, Steps
  <2>2. QED BY <2>1 DEF PinInv
<1>6. CASE PinCheck
  <2>1. <<"del", "pin">> \notin live' /\ UNCHANGED row
    BY <1>6 DEF PinCheck, WhereInv, LiveInv
  <2>2. \/ applied' = applied
        \/ PinStands("created") /\ adderr = "ok" /\ row["pin"] # "none"
        \/ PinStands("adopted")
    BY <1>6, AppliedKept DEF PinCheck
  <2>3. masked' = (masked \/ (adderr = "ok" /\ row["pin"] \notin {"none", "ours"}))
    BY <1>6 DEF PinCheck
  <2>4. at \in FirstSteps /\ applied.pin = "none"
    BY <1>6 DEF PinCheck, WhereInv, PhaseInv, FirstSteps
  <2>5. QED BY <2>1, <2>2, <2>3, <2>4 DEF PinInv, PinStands, WindowsTypeOK
<1>7. CASE RouteAdd
  BY <1>7, <1>r, NoLive, RunsElsewhere, AppliedKept, PinKept DEF RouteAdd, Steps
<1>8. CASE Classify
  BY <1>8, NoLive, AppliedKept, PinKept DEF Classify, NextRoute, Steps
<1>9. CASE Heal
  BY <1>9, <1>r, NoLive, RunsElsewhere, AppliedKept, PinKept DEF Heal, Steps
<1>10. CASE ReAdd
  BY <1>10, <1>r, NoLive, RunsElsewhere, AppliedKept, PinKept DEF ReAdd, Steps
<1>11. CASE Verify
  <2>1. applied'.pin = applied.pin
    BY <1>11, AppliedKept DEF Verify, WindowsTypeOK
  <2>2. QED BY <1>11, <2>1, NoLive, PinKept DEF Verify, Steps
<1>12. CASE Revert
  BY <1>12, NoLive, PinKept DEF Revert, Steps
<1>13. CASE RouteDel
  <2>1. applied.routes[i] \in OnTun
    BY <1>13, <1>o DEF RouteDel, WindowsTypeOK
  <2>2. QED BY <1>13, <2>1, NoLive, RunsElsewhere, AppliedKept, PinKept DEF RouteDel, Steps
<1>14. CASE AddrDel
  BY <1>14, <1>o, NoLive, RunsElsewhere, AppliedKept, PinKept DEF AddrDel, Steps
<1>15. CASE PinDel
  <2>1. at' \in {"pin_gone", "done"}
    BY <1>15 DEF PinDel, Walks
  <2>2. row["pin"] = "ours" \/ masked
    BY <1>15 DEF PinDel, PinInv, WhereInv, PhaseInv, UndoSteps
  <2>3. masked' = masked /\ (<<"del", "pin">> \in live' => UNCHANGED row)
    BY <1>15, NoLive DEF PinDel, Runs, Steps
  <2>4. QED BY <2>1, <2>2, <2>3 DEF PinInv, ApplySteps, UndoSteps
<1>16. CASE PinGone
  BY <1>16, NoLive DEF PinGone, Walks, Reads, PinInv, Steps, ApplySteps, UndoSteps
<1>17. CASE LiveActs
  <2>1. CASE at = "done"
    BY <1>17, <2>1 DEF LiveActs, PinInv, phase, ApplySteps, UndoSteps
  <2>2. CASE at # "done"
    BY <1>17, <2>2 DEF LiveActs, PinInv, phase, WhereInv, LiveInv, PhaseInv, FirstSteps
  <2>3. QED BY <2>1, <2>2
<1>18. CASE TunVanishes
  <2>1. row'["pin"] = row["pin"]
    BY <1>18, RouteAssumption DEF TunVanishes, OnTun, Things, WindowsTypeOK
  <2>2. QED BY <1>18, <2>1 DEF TunVanishes, PinInv, phase
<1>19. CASE OtherPins
  BY <1>19 DEF OtherPins, PinInv, phase, WindowsTypeOK, Things
<1>20. CASE NewProcess
  BY <1>20 DEF NewProcess, PinInv, NothingApplied
<1>21. CASE UNCHANGED windowsVars
  BY <1>21 DEF windowsVars, PinInv, phase
<1>22. CASE Commands
  BY <1>1, <1>2, <1>3, <1>4, <1>5, <1>6, <1>7, <1>8, <1>9, <1>10, <1>11, <1>13,
     <1>14, <1>15, <1>16, <1>22 DEF Commands
<1>23. QED
  BY <1>12, <1>17, <1>18, <1>19, <1>20, <1>21, <1>22 DEF WindowsNext, Finished

\* What each command can do to the pin's row.
LEMMA PinRow ==
  ASSUME WindowsTypeOK, WhereInv, PinInv, [WindowsNext]_windowsVars, row["pin"] = "other", row'["pin"] # "other"
  PROVE  masked
<1> USE DEF Elsewhere, host, ghosts
<1>a. ASSUME NEW x \in Things, NEW end, Runs("add", x, end) PROVE row'["pin"] = "other"
  BY <1>a DEF Runs, CanDo, Effect, WindowsTypeOK, Things
<1>d. ASSUME NEW op, NEW x \in OnTun, NEW end, Runs(op, x, end) PROVE row'["pin"] = "other"
  BY <1>d, RunsElsewhere
<1>o. RoutePrefixes \subseteq OnTun /\ "addr" \in OnTun /\ OnTun \subseteq Things /\ "pin" \in Things
  BY DEF OnTun, Things
<1>r. ASSUME at \in {"route_add", "heal", "readd"} PROVE Routes[i] \in OnTun
  BY <1>o, <1>r DEF WindowsTypeOK, RoutePrefixes
<1>1. CASE PinDel
  BY <1>1 DEF PinDel, PinInv, WhereInv, PhaseInv, UndoSteps
<1>2. CASE LiveActs
  <2>1. <<"del", "pin">> \in live
    BY <1>2 DEF LiveActs, CanDo, Effect, WindowsTypeOK, Things
  <2>2. QED BY <2>1 DEF PinInv
<1>3. CASE RouteDel
  <2>1. applied.routes[i] \in OnTun
    BY <1>3, <1>o DEF RouteDel, WindowsTypeOK
  <2>2. QED BY <1>3, <1>d, <2>1 DEF RouteDel
<1>4. CASE Commands /\ ~PinDel /\ ~RouteDel
  <2>1. CASE AddrAdd \/ PinAdd
    BY <1>a, <1>o, <2>1 DEF AddrAdd, PinAdd
  <2>2. CASE RouteAdd \/ Heal \/ ReAdd
    BY <1>d, <1>r, <2>2 DEF RouteAdd, Heal, ReAdd
  <2>3. CASE AddrDel
    BY <1>d, <1>o, <2>3 DEF AddrDel
  <2>4. CASE BeginApply \/ Mtu \/ PinProbe \/ PinCheck \/ Classify \/ Verify \/ PinGone
    BY <2>4 DEF BeginApply, Mtu, PinProbe, PinCheck, Classify, Verify, PinGone, Reads
  <2>5. QED BY <1>4, <2>1, <2>2, <2>3, <2>4 DEF Commands
<1>5. CASE Revert \/ OtherPins \/ UNCHANGED windowsVars
  BY <1>5 DEF Revert, OtherPins, windowsVars
<1>6. CASE TunVanishes
  BY <1>6, RouteAssumption DEF TunVanishes, OnTun, Things
<1>7. CASE NewProcess
  BY <1>7, RouteAssumption DEF NewProcess, OnTun, Things
<1>8. QED
  BY <1>1, <1>2, <1>3, <1>4, <1>5, <1>6, <1>7 DEF WindowsNext, Finished

-----------------------------------------------------------------------------
(* What is accounted for. *)

LEMMA RunsOurs ==
  ASSUME WindowsTypeOK, NEW op, NEW x \in Things, NEW end, Runs(op, x, end)
  PROVE  /\ \A y \in Things : row'[y] = "ours" => row[y] = "ours" \/ (op = "add" /\ y = x)
         /\ live' = live \/ live' = {<<op, x>>}
<1>1. CASE Effect(op, x) /\ live' = live
  BY <1>1 DEF Effect, WindowsTypeOK
<1>2. CASE UNCHANGED row /\ (live' = live \/ live' = {<<op, x>>})
  BY <1>2
<1>3. QED BY <1>1, <1>2 DEF Runs, host

LEMMA OursStep ==
  ASSUME OursInv, UNCHANGED config, at' # "begin", NEW op, NEW x \in Things,
         op = "add" => x \in Intents,
         \A y \in Things : row'[y] = "ours" => row[y] = "ours" \/ (op = "add" /\ y = x),
         \A c \in live' : c \in live \/ c = <<op, x>> \/ c[1] # "add"
  PROVE  OursInv'
<1>1. Intents' = Intents
  BY DEF Intents
<1>2. \A c \in live' : c[1] = "add" => c[2] \in Intents
  BY DEF OursInv
<1>3. QED BY <1>1, <1>2 DEF OursInv

LEMMA Onwards ==
  ASSUME [WindowsNext]_windowsVars, ~NewProcess, at # "begin", WindowsTypeOK
  PROVE  at' # "begin"
<1> USE DEF Fails, Gated, RollsBack, Goes, Walks, NextRoute, PinStands, UndoFrom, PinUndo,
            RoutesFrom, AfterAddr, AfterMtu
<1>1. CASE Commands
  <2>1. CASE BeginApply \/ Mtu \/ AddrAdd \/ PinProbe \/ PinAdd \/ PinCheck
    BY <2>1 DEF BeginApply, Mtu, AddrAdd, PinProbe, PinAdd, PinCheck
  <2>2. CASE RouteAdd \/ Classify \/ Heal \/ ReAdd \/ Verify
    BY <2>2 DEF RouteAdd, Classify, Heal, ReAdd, Verify
  <2>3. CASE RouteDel \/ AddrDel \/ PinDel \/ PinGone
    BY <2>3 DEF RouteDel, AddrDel, PinDel, PinGone
  <2>4. QED BY <1>1, <2>1, <2>2, <2>3 DEF Commands
<1>2. CASE ~Commands
  BY <1>2 DEF WindowsNext, Revert, LiveActs, TunVanishes, OtherPins, Finished, windowsVars, phase
<1>3. QED BY <1>1, <1>2

LEMMA OursKept ==
  ASSUME WindowsTypeOK, WhereInv, OursInv, [WindowsNext]_windowsVars
  PROVE  OursInv'
<1> USE DEF Elsewhere, host, ghosts
<1>o. RoutePrefixes \subseteq Things /\ "addr" \in Things /\ "pin" \in Things /\ RoutePrefixes \subseteq Intents
  BY DEF Things, Intents
<1>g. ASSUME ~NewProcess, at # "begin" PROVE at' # "begin"
  BY <1>g, Onwards
<1>s. ASSUME at' # "begin", UNCHANGED <<config, row>>, \A c \in live' : c \in live \/ c[1] # "add"
      PROVE  OursInv'
  <2>1. Intents' = Intents
    BY <1>s DEF Intents
  <2>2. \A c \in live' : c[1] = "add" => c[2] \in Intents
    BY <1>s DEF OursInv
  <2>3. \A x \in Things : row'[x] = "ours" => x \in Intents'
    BY <1>s, <2>1 DEF OursInv
  <2>4. \A c \in live' : c[1] = "add" => c[2] \in Intents'
    BY <2>1, <2>2
  <2>5. QED BY <1>s, <2>3, <2>4 DEF OursInv
<1>c. ASSUME at # "begin", ~NewProcess, UNCHANGED config, NEW op, NEW x \in Things, NEW end, Runs(op, x, end),
             op = "add" => x \in Intents
      PROVE  OursInv'
  <2>1. at' # "begin"
    BY <1>c, <1>g
  <2>2. /\ \A y \in Things : row'[y] = "ours" => row[y] = "ours" \/ (op = "add" /\ y = x)
        /\ live' = live \/ live' = {<<op, x>>}
    BY <1>c, RunsOurs
  <2>3. \A c \in live' : c \in live \/ c = <<op, x>> \/ c[1] # "add"
    BY <2>2
  <2>4. QED BY <1>c, <2>1, <2>2, <2>3, OursStep
<1>e. ~NewProcess \/ at' = "begin"
  BY DEF NewProcess
<1>r. ASSUME at \in {"route_add", "heal", "readd"} PROVE Routes[i] \in RoutePrefixes
  BY <1>r DEF WindowsTypeOK, RoutePrefixes
<1>1. CASE BeginApply
  BY <1>1, <1>s DEF BeginApply
<1>n. ASSUME Commands PROVE ~NewProcess
  BY <1>n DEF NewProcess, Commands, Elsewhere, BeginApply, Mtu, AddrAdd, PinProbe, PinAdd, PinCheck, RouteAdd,
     Classify, Heal, ReAdd, Verify, RouteDel, AddrDel, PinDel, PinGone, WindowsTypeOK
<1>2. CASE Mtu \/ PinProbe \/ PinGone
  <2>1. at' # "begin" /\ UNCHANGED config
    BY <1>2, <1>g, <1>n DEF Mtu, PinProbe, PinGone, Commands
  <2>2. QED BY <1>2, <1>s, <2>1 DEF Mtu, PinProbe, PinGone, Reads
<1>3. CASE AddrAdd
  <2>1. "addr" \in Intents
    BY <1>3 DEF AddrAdd, WhereInv, PhaseInv, Intents
  <2>2. QED BY <1>3, <1>c, <1>n, <1>o, <2>1 DEF AddrAdd, Commands
<1>5. CASE PinAdd
  <2>1. "pin" \in Intents
    BY <1>5 DEF PinAdd, WhereInv, PhaseInv, Intents
  <2>2. QED BY <1>5, <1>c, <1>n, <1>o, <2>1 DEF PinAdd, Commands
<1>6. CASE PinCheck
  <2>1. at' # "begin" /\ UNCHANGED <<config, row>>
    BY <1>6, <1>g, <1>n DEF PinCheck, Commands
  <2>2. QED BY <1>6, <1>s, <2>1 DEF PinCheck
<1>7. CASE RouteAdd
  BY <1>7, <1>c, <1>n, <1>o, <1>r DEF RouteAdd, Commands
<1>8. CASE Classify
  BY <1>8, <1>g, <1>n, <1>s DEF Classify, Commands
<1>9. CASE Heal
  BY <1>9, <1>c, <1>n, <1>o, <1>r DEF Heal, Commands
<1>10. CASE ReAdd
  BY <1>10, <1>c, <1>n, <1>o, <1>r DEF ReAdd, Commands
<1>11. CASE Verify
  BY <1>11, <1>g, <1>n, <1>s DEF Verify, Commands
<1>12. CASE Revert
  <2>1. at' # "begin"
    BY <1>12 DEF Revert, UndoFrom, PinUndo
  <2>2. QED BY <1>12, <1>s, <2>1 DEF Revert
<1>13. CASE RouteDel
  <2>1. applied.routes[i] \in Things
    BY <1>13, <1>o DEF RouteDel, WindowsTypeOK
  <2>2. QED BY <1>13, <1>c, <1>n, <2>1 DEF RouteDel, Commands
<1>14. CASE AddrDel
  BY <1>14, <1>c, <1>n, <1>o DEF AddrDel, Commands
<1>15. CASE PinDel
  BY <1>15, <1>c, <1>n, <1>o DEF PinDel, Commands
<1>17. CASE LiveActs
  <2>1. at # "begin" /\ UNCHANGED <<at, config>>
    BY <1>17 DEF LiveActs, phase, WhereInv, LiveInv
  <2>2. PICK c \in live : c[1] # "read" /\ Effect(c[1], c[2])
    BY <1>17 DEF LiveActs
  <2>3. /\ c[2] \in Things
        /\ \A y \in Things : row'[y] = "ours" => row[y] = "ours" \/ (c[1] = "add" /\ y = c[2])
    BY <2>2 DEF Effect, WindowsTypeOK
  <2>4. c[1] = "add" => c[2] \in Intents
    BY DEF OursInv
  <2>5. live' = {}
    BY <1>17 DEF LiveActs
  <2>6. QED BY <2>1, <2>3, <2>4, <2>5, OursStep
<1>18. CASE TunVanishes
  <2>1. \A y \in Things : row'[y] = "ours" => row[y] = "ours"
    BY <1>18 DEF TunVanishes
  <2>2. at' # "begin" /\ UNCHANGED <<config, live>>
    BY <1>18 DEF TunVanishes, phase
  <2>3. QED BY <2>1, <2>2, OursStep, <1>o
<1>19. CASE OtherPins
  <2>1. row'["pin"] = "other" /\ \A y \in Things : row'[y] = "ours" => row[y] = "ours"
    BY <1>19 DEF OtherPins, WindowsTypeOK, Things
  <2>2. UNCHANGED <<at, config, live>>
    BY <1>19 DEF OtherPins, phase
  <2>3. QED BY <2>1, <2>2 DEF OursInv, Intents
<1>20. CASE NewProcess
  <2>1. live' = {} /\ \A y \in Things : row'[y] # "ours"
    BY <1>20 DEF NewProcess
  <2>2. QED BY <2>1 DEF OursInv
<1>21. CASE UNCHANGED windowsVars
  BY <1>21 DEF windowsVars, phase, OursInv, Intents
<1>22. CASE Commands
  BY <1>1, <1>2, <1>3, <1>5, <1>6, <1>7, <1>8, <1>9, <1>10, <1>11, <1>13, <1>14, <1>15,
     <1>22 DEF Commands
<1>23. QED
  BY <1>12, <1>17, <1>18, <1>19, <1>20, <1>21, <1>22 DEF WindowsNext, Finished

LEMMA AdoptedKept ==
  ASSUME WindowsTypeOK, WhereInv, OursInv, AdoptedInv, [WindowsNext]_windowsVars
  PROVE  AdoptedInv'
<1> USE DEF Elsewhere, host, ghosts
<1>o. RoutePrefixes \subseteq OnTun /\ "addr" \in OnTun /\ "pin" \in Things
  BY DEF OnTun, Things
<1>r. ASSUME at \in {"route_add", "heal", "readd"} PROVE Routes[i] \in OnTun
  BY <1>o, <1>r DEF WindowsTypeOK, RoutePrefixes
<1>l. at \in Steps \ {"done", "pin_check"} => live = {}
  BY NoLive
<1>s. ASSUME at' \in {"route_add", "classify", "heal", "readd", "verify", "up"} \cup UndoSteps \cup {"done"},
             row'["pin"] = row["pin"], applied'.pin = applied.pin,
             <<"add", "pin">> \in live' => <<"add", "pin">> \in live
      PROVE  AdoptedInv'
  BY <1>s DEF AdoptedInv, UndoSteps
<1>f. ASSUME NEW end, Fails(end), row'["pin"] = row["pin"],
             <<"add", "pin">> \in live' => <<"add", "pin">> \in live
      PROVE  AdoptedInv'
  <2>1. at' \in UndoSteps \cup {"done"} /\ applied' = applied
    BY <1>f DEF Fails, Gated, RollsBack, UndoFrom, PinUndo, UndoSteps
  <2>2. QED BY <1>f, <1>s, <2>1
<1>1. CASE BeginApply
  BY <1>1, <1>o DEF BeginApply, AdoptedInv, OursInv
<1>2. CASE Mtu
  <2>1. CASE Goes(AfterMtu)
    BY <1>2, <1>l, <2>1 DEF Mtu, Reads, Goes, AfterMtu, AfterAddr, RoutesFrom, AdoptedInv, Steps
  <2>2. CASE \E end : Fails(end)
    BY <1>2, <1>f, <2>2 DEF Mtu, Reads
  <2>3. QED BY <1>2, <2>1, <2>2 DEF Mtu
<1>3. CASE AddrAdd
  <2>1. PICK end : /\ Runs("add", "addr", end)
                   /\ \/ /\ applied' = [applied EXCEPT !.addr = TRUE]
                         /\ at' = AfterAddr
                      \/ Fails(end)
    BY <1>3 DEF AddrAdd
  <2>2. row'["pin"] = row["pin"] /\ <<"add", "pin">> \notin live'
    BY <1>3, <1>o, <1>l, <2>1, RunsElsewhere DEF AddrAdd, Steps
  <2>3. CASE applied' = [applied EXCEPT !.addr = TRUE] /\ at' = AfterAddr
    BY <1>3, <2>2, <2>3 DEF AddrAdd, AfterAddr, RoutesFrom, AdoptedInv, WindowsTypeOK
  <2>4. QED BY <1>f, <2>1, <2>2, <2>3
<1>4. CASE PinProbe
  <2>1. UNCHANGED row /\ <<"add", "pin">> \notin live' /\ row["pin"] # "ours"
    BY <1>4, <1>l DEF PinProbe, Reads, Steps, AdoptedInv
  <2>2. \/ \E end : Fails(end)
        \/ PinStands("adopted")
        \/ Goes("pin_add")
    BY <1>4 DEF PinProbe
  <2>3. QED BY <1>f, <2>1, <2>2 DEF PinStands, Goes, RoutesFrom, AdoptedInv
<1>5. CASE PinAdd
  <2>1. applied'.pin = "none" /\ at' = "pin_check" /\ row["pin"] # "ours"
    BY <1>5 DEF PinAdd, WhereInv, PhaseInv, FirstSteps, AdoptedInv
  <2>2. adderr' = "exists" => UNCHANGED row
    BY <1>5 DEF PinAdd, Runs
  <2>3. QED BY <2>1, <2>2 DEF AdoptedInv
<1>6. CASE PinCheck
  <2>1. UNCHANGED row /\ (<<"add", "pin">> \in live' => <<"add", "pin">> \in live)
    BY <1>6 DEF PinCheck
  <2>2. \/ \E end : Fails(end)
        \/ PinStands("created")
        \/ PinStands("adopted") /\ adderr = "exists"
    BY <1>6 DEF PinCheck
  <2>3. CASE PinStands("created")
    BY <2>1, <2>3 DEF PinStands, RoutesFrom, AdoptedInv, WindowsTypeOK
  <2>4. CASE PinStands("adopted") /\ adderr = "exists"
    <3>1. row["pin"] # "ours" /\ live = {}
      BY <1>6, <2>4 DEF PinCheck, AdoptedInv, WhereInv, LiveInv
    <3>2. QED BY <2>1, <2>4, <3>1 DEF PinStands, RoutesFrom, AdoptedInv
  <2>5. QED BY <1>f, <2>1, <2>2, <2>3, <2>4
<1>c. ASSUME at \in Steps \ {"done", "pin_check"}, NEW op, NEW x \in OnTun, NEW end, Runs(op, x, end)
      PROVE  row'["pin"] = row["pin"] /\ (<<"add", "pin">> \in live' => <<"add", "pin">> \in live)
  BY <1>c, <1>l, RunsElsewhere
<1>t. ASSUME NEW to \in {"classify", "heal", "readd", "verify"}, Goes(to), row'["pin"] = row["pin"],
             <<"add", "pin">> \in live' => <<"add", "pin">> \in live
      PROVE  AdoptedInv'
  BY <1>s, <1>t DEF Goes
<1>n. ASSUME NextRoute, row'["pin"] = row["pin"], applied'.pin = applied.pin, live' = live
      PROVE  AdoptedInv'
  BY <1>s, <1>n DEF NextRoute, RoutesFrom
<1>7. CASE RouteAdd
  BY <1>7, <1>c, <1>r, <1>t, <1>f DEF RouteAdd, Steps
<1>8. CASE Classify
  BY <1>8, <1>n, <1>t, <1>f DEF Classify
<1>9. CASE Heal
  BY <1>9, <1>c, <1>r, <1>t, <1>f DEF Heal, Steps
<1>10. CASE ReAdd
  BY <1>10, <1>c, <1>r, <1>t, <1>f DEF ReAdd, Steps
<1>11. CASE Verify
  <2>1. applied'.pin = applied.pin
    BY <1>11, AppliedKept DEF Verify, WindowsTypeOK
  <2>2. QED BY <1>11, <1>n, <1>f, <2>1 DEF Verify
<1>12. CASE Revert
  <2>1. at' \in UndoSteps \cup {"done"}
    BY <1>12 DEF Revert, UndoFrom, PinUndo, UndoSteps
  <2>2. QED BY <1>12, <1>s, <2>1 DEF Revert
<1>w. ASSUME NEW end, NEW to \in UndoSteps \cup {"done"}, Walks(end, to), row'["pin"] = row["pin"],
             <<"add", "pin">> \in live' => <<"add", "pin">> \in live
      PROVE  AdoptedInv'
  BY <1>s, <1>w DEF Walks
<1>13. CASE RouteDel
  <2>1. applied.routes[i] \in OnTun
    BY <1>13, <1>o DEF RouteDel, WindowsTypeOK
  <2>2. UndoFrom(i - 1) \in UndoSteps \cup {"done"}
    BY DEF UndoFrom, PinUndo, UndoSteps
  <2>3. QED BY <1>13, <1>c, <1>w, <2>1, <2>2 DEF RouteDel, Steps
<1>14. CASE AddrDel
  BY <1>14, <1>c, <1>o, <1>w, PinUndoStep DEF AddrDel, UndoSteps, Steps
<1>15. CASE PinDel
  <2>1. applied'.pin = "created" /\ at' \in {"pin_gone", "done"}
    BY <1>15 DEF PinDel, Walks, WhereInv, PhaseInv
  <2>2. QED BY <2>1 DEF AdoptedInv
<1>16. CASE PinGone
  BY <1>16, <1>l, <1>w DEF PinGone, Reads, Steps
<1>17. CASE LiveActs
  <2>1. row'["pin"] = "ours" => row["pin"] = "ours" \/ <<"add", "pin">> \in live
    BY <1>17 DEF LiveActs, Effect, WindowsTypeOK
  <2>2. live' = {} /\ UNCHANGED <<at, adderr, applied>> /\ live # {}
    BY <1>17 DEF LiveActs, phase
  <2>3. at = "done" \/ (at = "pin_check" /\ adderr = "unconfirmed")
    BY <2>2 DEF WhereInv, LiveInv
  <2>4. QED BY <2>1, <2>2, <2>3 DEF AdoptedInv
<1>18. CASE TunVanishes
  <2>1. row'["pin"] = "ours" => row["pin"] = "ours"
    BY <1>18, <1>o DEF TunVanishes
  <2>2. QED BY <1>18, <2>1 DEF TunVanishes, phase, AdoptedInv
<1>19. CASE OtherPins
  <2>1. row'["pin"] = "other" /\ live' = live
    BY <1>19, <1>o DEF OtherPins, WindowsTypeOK
  <2>2. QED BY <1>19, <2>1 DEF OtherPins, phase, AdoptedInv
<1>20. CASE NewProcess
  BY <1>20 DEF NewProcess, NothingApplied, AdoptedInv
<1>21. CASE UNCHANGED windowsVars
  BY <1>21 DEF windowsVars, phase, AdoptedInv
<1>22. CASE Commands
  BY <1>1, <1>2, <1>3, <1>4, <1>5, <1>6, <1>7, <1>8, <1>9, <1>10, <1>11, <1>13, <1>14, <1>15,
     <1>16, <1>22 DEF Commands
<1>23. QED
  BY <1>12, <1>17, <1>18, <1>19, <1>20, <1>21, <1>22 DEF WindowsNext, Finished

LEMMA LedgerSame ==
  ASSUME LedgerInv, at' # "begin", UNCHANGED <<config, journal, applied>>
  PROVE  LedgerInv'
<1>1. Intents' = Intents /\ (Loads' <=> Loads) /\ \A x : Recorded(x)' <=> Recorded(x)
  BY DEF Intents, Loads, Recorded, journal
<1>2. QED BY <1>1 DEF LedgerInv, journal

\* A thing is recorded before, or as, its intent is settled.
LEMMA LedgerSettle ==
  ASSUME LedgerInv, at' # "begin", UNCHANGED config, NEW x, Settle(x),
         Recorded(x)' \/ (x = "pin" /\ applied'.pin = "adopted"),
         \A y \in Intents : Recorded(y) => Recorded(y)',
         applied.pin = "adopted" => applied'.pin = "adopted"
  PROVE  LedgerInv'
<1>1. Intents' = Intents
  BY DEF Intents
<1>2. (usable /\ Loads)' => usable /\ Loads /\ \A y \in Intents : y \in pending => y \in pending' \/ y = x
  BY DEF Settle, Loads, journal
<1>3. QED BY <1>1, <1>2 DEF LedgerInv

LEMMA LedgerKept ==
  ASSUME WindowsTypeOK, WhereInv, LedgerInv, [WindowsNext]_windowsVars
  PROVE  LedgerInv'
<1> USE DEF Elsewhere
<1>n. ASSUME Commands PROVE at' # "begin"
  <2>1. CASE BeginApply
    BY <2>1 DEF BeginApply
  <2>2. CASE ~BeginApply
    <3>1. ~NewProcess /\ at # "begin"
      BY <1>n, <2>2 DEF NewProcess, Commands, Mtu, AddrAdd, PinProbe, PinAdd, PinCheck, RouteAdd,
         Classify, Heal, ReAdd, Verify, RouteDel, AddrDel, PinDel, PinGone, WindowsTypeOK
    <3>2. QED BY <3>1, Onwards
  <2>3. QED BY <2>1, <2>2
<1>f. ASSUME Commands, NEW end, Fails(end), UNCHANGED config PROVE LedgerInv'
  BY <1>f, <1>n, AppliedKept, LedgerSame DEF Fails
<1>g. ASSUME Commands, NEW to, Goes(to), UNCHANGED config PROVE LedgerInv'
  BY <1>g, <1>n, LedgerSame DEF Goes
<1>w. ASSUME Commands, NEW end, NEW to, Walks(end, to), UNCHANGED <<config, journal>> PROVE LedgerInv'
  BY <1>w, <1>n, AppliedKept, LedgerSame
<1>p. ASSUME Commands, NEW o \in {"created", "adopted"}, PinStands(o), at \in FirstSteps, UNCHANGED config
      PROVE  LedgerInv'
  <2>1. applied' = [applied EXCEPT !.pin = o] /\ applied.pin = "none" /\ Settle("pin")
    BY <1>p DEF PinStands, WhereInv, PhaseInv
  <2>2. applied'.pin = o /\ applied'.routes = applied.routes /\ applied'.addr = applied.addr
    BY <2>1 DEF WindowsTypeOK
  <2>3. /\ Recorded("pin")' \/ applied'.pin = "adopted"
        /\ \A y \in Intents : Recorded(y) => Recorded(y)'
    BY <1>p, <2>1, <2>2 DEF Recorded
  <2>4. QED BY <1>n, <1>p, <2>1, <2>3, LedgerSettle
<1>1. CASE BeginApply
  <2>1. usable' => pending' = pending \cup Intents
    BY <1>1 DEF BeginApply, AppendPending
  <2>2. Intents' = Intents /\ at' # "begin"
    BY <1>1 DEF BeginApply, Intents
  <2>3. QED BY <2>1, <2>2 DEF LedgerInv
<1>2. CASE Mtu
  BY <1>2, <1>f, <1>g DEF Mtu, Commands
<1>3. CASE AddrAdd
  <2>1. CASE applied' = [applied EXCEPT !.addr = TRUE] /\ Settle("addr")
    <3>1. applied'.pin = applied.pin /\ applied'.routes = applied.routes /\ applied'.addr
      BY <2>1 DEF WindowsTypeOK
    <3>2. Recorded("addr")' /\ \A y \in Intents : Recorded(y) => Recorded(y)'
      BY <3>1 DEF Recorded
    <3>3. at' # "begin" /\ UNCHANGED config
      BY <1>3, <1>n DEF AddrAdd, Commands
    <3>4. QED BY <2>1, <3>1, <3>2, <3>3, LedgerSettle
  <2>2. QED BY <1>3, <1>f, <2>1 DEF AddrAdd, Commands
<1>4. CASE PinProbe
  BY <1>4, <1>f, <1>g, <1>p DEF PinProbe, Commands, FirstSteps
<1>5. CASE PinAdd
  BY <1>5, LedgerSame DEF PinAdd
<1>6. CASE PinCheck
  BY <1>6, <1>f, <1>p DEF PinCheck, Commands, FirstSteps
<1>7. CASE RouteAdd
  BY <1>7, <1>f, <1>g DEF RouteAdd, Commands
<1>8. CASE Classify
  BY <1>8, <1>f, <1>g, <1>n, LedgerSame DEF Classify, Commands
<1>9. CASE Heal
  BY <1>9, <1>f, <1>g DEF Heal, Commands
<1>10. CASE ReAdd
  BY <1>10, <1>f, <1>g DEF ReAdd, Commands
<1>11. CASE Verify
  <2>1. at' # "begin" /\ UNCHANGED config /\ i \in 1..Len(Routes)
    BY <1>11, <1>n DEF Verify, Commands, WindowsTypeOK
  <2>2. CASE applied' = [applied EXCEPT !.routes = Append(@, Routes[i])] /\ Settle(Routes[i])
    <3>1. /\ applied'.pin = applied.pin /\ applied'.addr = applied.addr
          /\ applied'.routes = Append(applied.routes, Routes[i])
      BY <2>2 DEF WindowsTypeOK
    <3>2. applied.routes \in Seq(RoutePrefixes) /\ Routes[i] \in RoutePrefixes
      BY <2>1 DEF WindowsTypeOK, RoutePrefixes
    <3>3. /\ Len(applied'.routes) = Len(applied.routes) + 1 /\ Len(applied.routes) \in Nat
          /\ applied'.routes[Len(applied.routes) + 1] = Routes[i]
          /\ \A k \in 1..Len(applied.routes) : applied'.routes[k] = applied.routes[k]
      BY <3>1, <3>2
    <3>x. PICK x : x = Routes[i]
      OBVIOUS
    <3>4. Recorded(x)'
      BY <3>3, <3>x DEF Recorded
    <3>5. \A y \in Intents : Recorded(y) => Recorded(y)'
      BY <3>1, <3>3 DEF Recorded
    <3>6. QED BY <2>1, <2>2, <3>1, <3>x, <3>4, <3>5, LedgerSettle
  <2>3. CASE \E end : Fails(end)
    BY <1>11, <1>f, <2>3 DEF Verify, Commands
  <2>4. CASE UNCHANGED <<applied, journal>>
    BY <2>1, <2>4, LedgerSame
  <2>5. QED BY <1>11, <2>2, <2>3, <2>4 DEF Verify
<1>12. CASE Revert
  BY <1>12, LedgerSame DEF Revert, UndoFrom, PinUndo
<1>13. CASE RouteDel
  BY <1>13, <1>w DEF RouteDel, Commands
<1>14. CASE AddrDel
  BY <1>14, <1>w DEF AddrDel, Commands
<1>15. CASE PinDel
  BY <1>15, <1>w DEF PinDel, Commands
<1>16. CASE PinGone
  BY <1>16, <1>w DEF PinGone, Commands
<1>17. CASE LiveActs \/ TunVanishes \/ OtherPins \/ UNCHANGED windowsVars
  <2>1. UNCHANGED <<at, config, journal, applied>>
    BY <1>17 DEF LiveActs, TunVanishes, OtherPins, windowsVars, phase
  <2>2. Intents' = Intents /\ (Loads' <=> Loads) /\ \A x : Recorded(x)' <=> Recorded(x)
    BY <2>1 DEF Intents, Loads, Recorded, journal
  <2>3. QED BY <2>1, <2>2 DEF LedgerInv, journal
<1>20. CASE NewProcess
  BY <1>20 DEF NewProcess, LedgerInv
<1>22. CASE Commands
  BY <1>1, <1>2, <1>3, <1>4, <1>5, <1>6, <1>7, <1>8, <1>9, <1>10, <1>11, <1>13, <1>14, <1>15,
     <1>16, <1>22 DEF Commands
<1>23. QED
  BY <1>12, <1>17, <1>20, <1>22 DEF WindowsNext, Finished

-----------------------------------------------------------------------------
(* What is left behind. *)

\* An apply that fails plainly has all it recorded still to undo.
LEMMA RollBackHeld ==
  ASSUME WindowsTypeOK, RollsBack, NEW x, ToUndo(x), at \in ApplySteps
  PROVE  at' # "done" /\ ToUndo(x)'
BY LenType DEF RollsBack, UndoFrom, PinUndo, ToUndo, ApplySteps

LEMMA FailsHeld ==
  ASSUME WindowsTypeOK, at \in ApplySteps, NEW end, Fails(end), slip => slip',
         NEW x \in Things, Held(x),
         row'[x] = "ours" => slip' \/ (row[x] = "ours" /\ (Unseen(x) => end = "unconfirmed"))
  PROVE  Held(x)'
<1>1. CASE end = "unconfirmed"
  BY <1>1 DEF Fails, Gated, Held
<1>2. CASE end # "unconfirmed"
  BY <1>2, RollBackHeld DEF Fails, Held, RollsBack
<1>3. QED BY <1>1, <1>2

\* A step that goes on with what it recorded.
LEMMA GoesHeld ==
  ASSUME at \in ApplySteps, at' \in ApplySteps, applied' = applied,
         slip => slip', errors => errors', gated => gated',
         NEW x \in Things, Held(x),
         row'[x] = "ours" => slip' \/ Unseen(x)' \/ (row[x] = "ours" /\ ~Unseen(x))
  PROVE  Held(x)'
BY DEF Held, ToUndo, ApplySteps

LEMMA RunsHeld ==
  ASSUME WindowsTypeOK, NEW op, NEW x \in Things, NEW end, Runs(op, x, end)
  PROVE  /\ slip => slip'
         /\ \A y \in Things \ {x} : row'[y] = row[y]
         /\ op = "add" /\ row'[x] = "ours" => row[x] = "ours" \/ end = "ok" \/ slip'
         /\ op = "del" /\ row'[x] = "ours" => slip' \/ end # "ok"
<1>1. slip => slip'
  BY DEF Runs, WindowsTypeOK, ghosts
<1>2. \A y \in Things \ {x} : row'[y] = row[y]
  BY DEF Runs, Effect, WindowsTypeOK, host
<1>3. op = "add" /\ row'[x] = "ours" => row[x] = "ours" \/ end = "ok" \/ slip'
  BY DEF Runs, host
<1>4. op = "del" /\ row'[x] = "ours" => slip' \/ end # "ok"
  <2>1. op = "del" /\ Effect(op, x) => row'[x] = "none"
    BY DEF Effect, WindowsTypeOK
  <2>2. QED BY <2>1 DEF Runs, WindowsTypeOK
<1>5. QED BY <1>1, <1>2, <1>3, <1>4

\* One step of the undo walk: what it was about is gone, or the walk says not.
LEMMA WalkHeld ==
  ASSUME WindowsTypeOK, LeakInv, at \in UndoSteps, NEW x \in Things, NEW end, NEW to,
         Runs("del", x, end), Walks(end, to),
         \A y \in Things \ {x} : ToUndo(y) => at' # "done" /\ ToUndo(y)'
  PROVE  LeakInv'
<1>1. \A y \in Things : ~Unseen(y)
  BY DEF Unseen, UndoSteps
<1>2. SUFFICES ASSUME NEW y \in Things, row'[y] = "ours", ~slip', ~errors', ~gated'
              PROVE  at' # "done" /\ ToUndo(y)'
  BY DEF LeakInv, Held
<1>3. end = "ok" /\ ~slip /\ ~errors
  BY <1>2, RunsHeld DEF Walks
<1>4. y # x /\ row[y] = "ours"
  BY <1>2, <1>3, RunsHeld
<1>5. CASE gated
  BY <1>2, <1>3, <1>5 DEF Walks
<1>6. CASE ~gated
  BY <1>1, <1>3, <1>4, <1>6 DEF LeakInv, Held
<1>7. QED BY <1>5, <1>6

LEMMA NothingUntold ==
  ASSUME WindowsTypeOK, WhereInv, LeakInv, [WindowsNext]_windowsVars
  PROVE  LeakInv'
<1> USE DEF Elsewhere
<1>o. RoutePrefixes \subseteq Things /\ "addr" \in Things /\ "pin" \in Things
  BY DEF Things
<1>r. ASSUME at \in {"route_add", "classify", "heal", "readd", "verify"} PROVE Routes[i] \in Things
  BY <1>o, <1>r DEF WindowsTypeOK, RoutePrefixes
<1>h. ASSUME NEW x \in Things PROVE Held(x)
  BY DEF LeakInv
<1>q. SUFFICES ASSUME NEW x \in Things PROVE Held(x)'
  BY DEF LeakInv
<1>u. ASSUME at \in ApplySteps \ {"pin_check", "verify"} PROVE ~Unseen(x)
  BY <1>u DEF Unseen, ApplySteps
<1>1. CASE BeginApply
  BY <1>1, <1>h, <1>u, GoesHeld DEF BeginApply, ApplySteps, host, ghosts, report
<1>2. CASE Mtu
  <2>1. /\ at \in ApplySteps \ {"pin_check", "verify"} /\ UNCHANGED <<row, slip>>
        /\ \E end : Fails(end) \/ (Goes(AfterMtu) /\ AfterMtu \in ApplySteps)
    BY <1>2 DEF Mtu, Reads, ApplySteps, AfterMtu, AfterAddr, RoutesFrom, ghosts
  <2>2. QED BY <1>h, <1>u, <2>1, FailsHeld, GoesHeld DEF Goes, report
<1>3. CASE AddrAdd
  <2>1. PICK end : /\ Runs("add", "addr", end)
                   /\ IF end = "ok"
                      THEN /\ applied' = [applied EXCEPT !.addr = TRUE]
                           /\ at' = AfterAddr
                           /\ UNCHANGED report
                      ELSE Fails(end)
    BY <1>3 DEF AddrAdd
  <2>2. at = "addr_add" /\ at \in ApplySteps \ {"pin_check", "verify"}
    BY <1>3 DEF AddrAdd, ApplySteps
  <2>3. CASE end # "ok"
    BY <1>h, <1>o, <1>u, <2>1, <2>2, <2>3, FailsHeld, RunsHeld
  <2>4. CASE end = "ok"
    <3>1. /\ applied'.addr /\ applied'.routes = applied.routes /\ applied'.pin = applied.pin
          /\ at' \in {"pin_probe", "route_add", "up"} /\ UNCHANGED report
      BY <2>1, <2>4 DEF AfterAddr, RoutesFrom, WindowsTypeOK
    <3>2. x # "addr" => row'[x] = row[x]
      BY <1>o, <2>1, RunsHeld
    <3>3. slip => slip'
      BY <1>o, <2>1, RunsHeld
    <3>4. QED BY <1>h, <1>u, <2>2, <3>1, <3>2, <3>3 DEF Held, ToUndo, report
  <2>5. QED BY <2>3, <2>4
<1>4. CASE PinProbe
  <2>1. at = "pin_probe" /\ UNCHANGED <<row, slip>> /\ at \in ApplySteps /\ applied.pin = "none"
    BY <1>4 DEF PinProbe, Reads, ApplySteps, ghosts, WhereInv, PhaseInv, FirstSteps
  <2>2. \/ \E end : Fails(end) \/ Goes("pin_add") \/ PinStands("adopted")
    BY <1>4 DEF PinProbe
  <2>3. CASE PinStands("adopted")
    <3>1. /\ applied'.addr = applied.addr /\ applied'.routes = applied.routes
          /\ at' \in {"route_add", "up"} /\ UNCHANGED report
      BY <2>3 DEF PinStands, RoutesFrom, WindowsTypeOK
    <3>2. QED BY <1>h, <1>u, <2>1, <3>1 DEF Held, ToUndo, report
  <2>4. CASE Goes("pin_add")
    BY <1>h, <1>u, <2>1, <2>4, GoesHeld DEF Goes, ApplySteps, report
  <2>5. CASE \E end : Fails(end)
    BY <1>h, <1>u, <2>1, <2>5, FailsHeld
  <2>6. QED BY <2>2, <2>3, <2>4, <2>5
<1>5. CASE PinAdd
  <2>1. PICK end : Runs("add", "pin", end) /\ adderr' = end
    BY <1>5 DEF PinAdd
  <2>2. at = "pin_add" /\ at' = "pin_check" /\ UNCHANGED <<applied, report>>
    BY <1>5 DEF PinAdd
  <2>3. row'[x] = "ours" => slip' \/ Unseen(x)' \/ row[x] = "ours"
    BY <1>o, <2>1, <2>2, RunsHeld DEF Unseen
  <2>4. slip => slip'
    BY <1>o, <2>1, RunsHeld
  <2>5. QED BY <1>h, <1>u, <2>2, <2>3, <2>4, GoesHeld DEF ApplySteps, report
<1>6. CASE PinCheck
  <2>1. /\ at = "pin_check" /\ at \in ApplySteps /\ UNCHANGED row /\ (slip => slip')
        /\ applied.pin = "none"
    BY <1>6 DEF PinCheck, ApplySteps, WhereInv, PhaseInv, FirstSteps
  <2>2. \/ \E end : end # "ok" /\ Fails(Carrier(end)) /\ (adderr = "ok" => slip')
        \/ Fails(Carrier("failed")) /\ (adderr = "ok" => row["pin"] = "none")
        \/ PinStands("created")
        \/ PinStands("adopted") /\ adderr = "exists"
    BY <1>6 DEF PinCheck
  <2>3. Unseen(x) => x = "pin" /\ adderr \in {"ok", "unconfirmed"}
    BY <2>1 DEF Unseen
  <2>4. CASE \E end : end # "ok" /\ Fails(Carrier(end)) /\ (adderr = "ok" => slip')
    BY <1>h, <2>1, <2>3, <2>4, FailsHeld DEF Carrier
  <2>5. CASE Fails(Carrier("failed")) /\ (adderr = "ok" => row["pin"] = "none")
    BY <1>h, <2>1, <2>3, <2>5, FailsHeld DEF Carrier
  <2>6. CASE \E o : PinStands(o) /\ (o = "created" \/ adderr = "exists")
    <3>1. PICK o : PinStands(o) /\ (o = "created" \/ adderr = "exists")
      BY <2>6
    <3>2. /\ applied'.addr = applied.addr /\ applied'.routes = applied.routes /\ applied'.pin = o
          /\ at' \in {"route_add", "up"} /\ UNCHANGED report
      BY <3>1 DEF PinStands, RoutesFrom, WindowsTypeOK
    <3>3. QED BY <1>h, <2>1, <2>3, <3>1, <3>2 DEF Held, ToUndo, report
  <2>7. QED BY <2>2, <2>4, <2>5, <2>6
<1>c. ASSUME at \in {"route_add", "readd"}, NEW end, Runs("add", Routes[i], end),
             Fails(end) \/ (end # "ok" /\ Goes("classify")) \/ Goes("verify"), end = "ok" => ~Fails(end)
      PROVE  Held(x)'
  <2>1. at \in ApplySteps \ {"pin_check", "verify"} /\ Routes[i] \in Things
    BY <1>c, <1>r DEF ApplySteps
  <2>2. (slip => slip') /\ (row'[x] = "ours" => row[x] = "ours" \/ slip' \/ (x = Routes[i] /\ end = "ok"))
    BY <1>c, <2>1, RunsHeld
  <2>3. CASE Fails(end)
    BY <1>c, <1>h, <1>u, <2>1, <2>2, <2>3, FailsHeld
  <2>4. CASE end # "ok" /\ Goes("classify")
    BY <1>h, <1>u, <2>1, <2>2, <2>4, GoesHeld DEF Goes, ApplySteps, report
  <2>5. CASE Goes("verify")
    <3>1. row'[x] = "ours" => slip' \/ Unseen(x)' \/ row[x] = "ours"
      BY <2>2, <2>5 DEF Goes, Unseen
    <3>2. QED BY <1>h, <1>u, <2>1, <2>2, <2>5, <3>1, GoesHeld DEF Goes, ApplySteps, report
  <2>6. QED BY <1>c, <2>3, <2>4, <2>5
<1>7. CASE RouteAdd
  <2>1. PICK end : /\ Runs("add", Routes[i], end)
                   /\ IF end = "ok" THEN Goes("verify")
                      ELSE IF end = "exists" THEN Goes("classify") ELSE Fails(end)
    BY <1>7 DEF RouteAdd
  <2>2. end = "ok" => ~Fails(end)
    BY <1>7, <2>1 DEF RouteAdd, Goes, Fails, RollsBack, Gated, UndoFrom, PinUndo
  <2>3. QED BY <1>7, <1>c, <2>1, <2>2 DEF RouteAdd
<1>n. ASSUME NextRoute, at \in {"classify", "verify"}, row' = row, slip => slip', applied' = applied,
             row'[x] = "ours" => slip' \/ ~Unseen(x)
      PROVE  Held(x)'
  <2>1. at \in ApplySteps /\ at' \in ApplySteps /\ UNCHANGED report
    BY <1>n DEF NextRoute, RoutesFrom, ApplySteps
  <2>2. QED BY <1>h, <1>n, <2>1, GoesHeld DEF report
<1>8. CASE Classify
  <2>1. /\ at = "classify" /\ at \in ApplySteps \ {"pin_check", "verify"} /\ row' = row /\ slip' = slip
        /\ \/ Fails("failed") \/ Goes("readd") \/ Goes("heal") \/ (NextRoute /\ applied' = applied)
    BY <1>8 DEF Classify, ApplySteps, host, ghosts
  <2>2. QED BY <1>h, <1>n, <1>u, <2>1, FailsHeld, GoesHeld DEF Goes, ApplySteps, report
<1>9. CASE Heal
  <2>1. PICK end : Runs("del", Routes[i], end) /\ (Fails(end) \/ Goes("readd"))
    BY <1>9 DEF Heal
  <2>2. at \in ApplySteps \ {"pin_check", "verify"} /\ Routes[i] \in Things
    BY <1>9, <1>r DEF Heal, ApplySteps
  <2>3. slip => slip'
    BY <2>1, <2>2, RunsHeld
  <2>4. \A y \in Things : row'[y] = "ours" => row[y] = "ours"
    BY <2>1, <2>2, RunsOurs
  <2>5. row'[x] = "ours" => row[x] = "ours"
    BY <2>4
  <2>6. QED BY <1>h, <1>u, <2>1, <2>2, <2>3, <2>5, FailsHeld, GoesHeld DEF Goes, ApplySteps, report
<1>10. CASE ReAdd
  <2>1. PICK end : /\ Runs("add", Routes[i], end)
                   /\ IF end = "ok" THEN Goes("verify") ELSE Fails(end)
    BY <1>10 DEF ReAdd
  <2>2. end = "ok" => ~Fails(end)
    BY <1>10, <2>1 DEF ReAdd, Goes, Fails, RollsBack, Gated, UndoFrom, PinUndo
  <2>3. QED BY <1>10, <1>c, <2>1, <2>2 DEF ReAdd
<1>11. CASE Verify
  <2>1. at = "verify" /\ at \in ApplySteps /\ row' = row /\ (Unseen(x) => x = Routes[i])
    BY <1>11 DEF Verify, ApplySteps, host, Unseen
  <2>2. \/ Fails("failed") /\ slip' = (slip \/ row[Routes[i]] = "ours")
        \/ /\ applied' = [applied EXCEPT !.routes = Append(@, Routes[i])]
           /\ NextRoute /\ slip' = slip
        \/ NextRoute /\ applied' = applied /\ slip' = (slip \/ row[Routes[i]] = "ours")
        \/ Fails("failed") /\ slip' = slip /\ row[Routes[i]] = "none"
    BY <1>11, <1>r DEF Verify, Class
  <2>3. CASE Fails("failed") /\ slip' = (slip \/ row[Routes[i]] = "ours")
    BY <1>h, <2>1, <2>3, FailsHeld DEF WindowsTypeOK
  <2>4. CASE NextRoute /\ applied' = applied /\ slip' = (slip \/ row[Routes[i]] = "ours")
    BY <1>n, <2>1, <2>4 DEF WindowsTypeOK
  <2>5. CASE Fails("failed") /\ slip' = slip /\ row[Routes[i]] = "none"
    BY <1>h, <2>1, <2>5, FailsHeld
  <2>6. CASE /\ applied' = [applied EXCEPT !.routes = Append(@, Routes[i])]
             /\ NextRoute /\ slip' = slip
    <3>1. /\ applied'.pin = applied.pin /\ applied'.addr = applied.addr
          /\ applied'.routes = Append(applied.routes, Routes[i])
      BY <2>6 DEF WindowsTypeOK
    <3>2. applied.routes \in Seq(RoutePrefixes) /\ Routes[i] \in RoutePrefixes
      BY <2>1 DEF WindowsTypeOK, RoutePrefixes
    <3>3. /\ Len(applied'.routes) = Len(applied.routes) + 1 /\ Len(applied.routes) \in Nat
          /\ applied'.routes[Len(applied.routes) + 1] = Routes[i]
          /\ \A k \in 1..Len(applied.routes) : applied'.routes[k] = applied.routes[k]
      BY <3>1, <3>2
    <3>4. at' \in {"route_add", "up"} /\ UNCHANGED report
      BY <2>6 DEF NextRoute, RoutesFrom
    <3>5. ToUndo(x) \/ Unseen(x) => ToUndo(x)'
      BY <2>1, <3>1, <3>3, <3>4 DEF ToUndo
    <3>6. at' # "done" /\ (slip => slip') /\ (errors => errors') /\ (gated => gated')
      BY <2>6, <3>4 DEF report
    <3>7. row'[x] = "ours" => slip \/ errors \/ gated \/ ToUndo(x)'
      BY <1>h, <2>1, <3>5 DEF Held
    <3>8. QED BY <3>6, <3>7 DEF Held
  <2>7. QED BY <2>2, <2>3, <2>4, <2>5, <2>6
<1>12. CASE Revert
  <2>1. ToUndo(x) => at' # "done" /\ ToUndo(x)'
    BY <1>12, LenType DEF Revert, UndoFrom, PinUndo, ToUndo
  <2>2. ~Unseen(x) /\ UNCHANGED <<row, slip, errors, gated>>
    BY <1>12, <1>u DEF Revert, ApplySteps, host, ghosts, report
  <2>3. QED BY <1>h, <2>1, <2>2 DEF Held
<1>l. LeakInv
  OBVIOUS
<1>13. CASE RouteDel
  <2>1. PICK end : Runs("del", applied.routes[i], end) /\ Walks(end, UndoFrom(i - 1))
    BY <1>13 DEF RouteDel
  <2>2. applied.routes[i] \in Things /\ i \in 1..Len(applied.routes) /\ at = "route_del" /\ i' = i - 1
    BY <1>13, <1>o DEF RouteDel, WindowsTypeOK
  <2>3. end # "unconfirmed" => at' = UndoFrom(i - 1)
    BY <2>1 DEF Walks
  <2>4. CASE end = "unconfirmed"
    BY <2>1, <2>4 DEF Walks, Held
  <2>5. CASE end # "unconfirmed"
    <3>1. \A y \in Things \ {applied.routes[i]} : ToUndo(y) => at' # "done" /\ ToUndo(y)'
      BY <2>1, <2>2, <2>3, <2>5, AppliedKept, LenType DEF ToUndo, UndoFrom, PinUndo
    <3>2. LeakInv'
      BY <2>1, <2>2, <3>1, WalkHeld DEF UndoSteps
    <3>3. QED BY <3>2 DEF LeakInv
  <2>6. QED BY <2>4, <2>5
<1>14. CASE AddrDel
  <2>1. PICK end : Runs("del", "addr", end) /\ Walks(end, PinUndo)
    BY <1>14 DEF AddrDel
  <2>2. at = "addr_del" /\ i' = i
    BY <1>14 DEF AddrDel
  <2>4. CASE end = "unconfirmed"
    BY <2>1, <2>4 DEF Walks, Held
  <2>5. CASE end # "unconfirmed"
    <3>1. \A y \in Things \ {"addr"} : ToUndo(y) => at' # "done" /\ ToUndo(y)'
      BY <2>1, <2>2, <2>5, AppliedKept DEF ToUndo, Walks, PinUndo
    <3>2. LeakInv'
      BY <1>o, <2>1, <2>2, <3>1, WalkHeld DEF UndoSteps
    <3>3. QED BY <3>2 DEF LeakInv
  <2>6. QED BY <2>4, <2>5
<1>15. CASE PinDel
  <2>1. PICK end : Runs("del", "pin", end) /\ Walks(end, IF end = "ok" THEN "pin_gone" ELSE "done")
    BY <1>15 DEF PinDel
  <2>2. at = "pin_del" /\ at \in UndoSteps
    BY <1>15 DEF PinDel, UndoSteps
  <2>3. \A y \in Things \ {"pin"} : ToUndo(y) => at' # "done" /\ ToUndo(y)'
    BY <2>2 DEF ToUndo
  <2>4. LeakInv'
    BY <1>o, <2>1, <2>2, <2>3, WalkHeld
  <2>5. QED BY <2>4 DEF LeakInv
<1>16. CASE PinGone
  <2>1. /\ at = "pin_gone" /\ UNCHANGED <<row, slip>> /\ ~Unseen(x)
        /\ ToUndo(x) => x = "pin"
    BY <1>16 DEF PinGone, Reads, ghosts, ToUndo, Unseen
  <2>2. (errors => errors') /\ (gated => gated') /\ (row["pin"] # "none" => errors')
    BY <1>16 DEF PinGone, Walks, WindowsTypeOK
  <2>3. QED BY <1>h, <2>1, <2>2 DEF Held
<1>17. CASE LiveActs
  <2>1. UNCHANGED <<at, adderr, i, applied, slip, errors, gated>>
    BY <1>17 DEF LiveActs, phase, ghosts, report
  <2>2. CASE at = "done"
    BY <1>17, <2>1, <2>2 DEF LiveActs, WhereInv, LiveInv, Held
  <2>3. CASE at # "done"
    <3>1. at = "pin_check" /\ adderr = "unconfirmed" /\ live = {<<"add", "pin">>}
      BY <1>17, <2>3 DEF LiveActs, WhereInv, LiveInv
    <3>2. x # "pin" => row'[x] = row[x]
      BY <1>17, <3>1 DEF LiveActs, Effect, WindowsTypeOK
    <3>3. QED BY <1>h, <2>1, <3>1, <3>2 DEF Held, ToUndo, Unseen
  <2>4. QED BY <2>2, <2>3
<1>18. CASE TunVanishes \/ OtherPins
  <2>1. row'[x] = "ours" => row[x] = "ours"
    BY <1>18 DEF TunVanishes, OtherPins, WindowsTypeOK
  <2>2. UNCHANGED <<at, adderr, i, applied, slip, errors, gated>>
    BY <1>18 DEF TunVanishes, OtherPins, phase, ghosts, report
  <2>3. QED BY <1>h, <2>1, <2>2 DEF Held, ToUndo, Unseen
<1>20. CASE NewProcess
  BY <1>20 DEF NewProcess, Held
<1>21. CASE UNCHANGED windowsVars
  BY <1>21, <1>h DEF windowsVars, host, phase, ghosts, report, Held, ToUndo, Unseen
<1>22. CASE Commands
  BY <1>1, <1>2, <1>3, <1>4, <1>5, <1>6, <1>7, <1>8, <1>9, <1>10, <1>11, <1>13, <1>14, <1>15,
     <1>16, <1>22 DEF Commands
<1>23. QED
  BY <1>12, <1>17, <1>18, <1>20, <1>21, <1>22 DEF WindowsNext, Finished

-----------------------------------------------------------------------------
(* The theorems. *)

LEMMA Whose == WindowsSpec => [](WindowsTypeOK /\ FirstInv /\ WhereInv /\ PinInv)
<1>1. WindowsInit => WindowsTypeOK /\ FirstInv /\ WhereInv /\ PinInv
  <2>1. ASSUME WindowsInit PROVE applied \in [routes : Seq(RoutePrefixes), addr : BOOLEAN,
                                       pin : {"none", "created", "adopted"}]
    BY <2>1 DEF WindowsInit, NothingApplied
  <2>2. ASSUME WindowsInit PROVE WindowsTypeOK
    <3>1. HostOK /\ JournalOK
      BY <2>2 DEF WindowsInit, HostOK, JournalOK
    <3>2. AppliedOK /\ WhereOK /\ GhostOK
      BY <2>1, <2>2 DEF WindowsInit, AppliedOK, WhereOK, GhostOK, Steps
    <3>3. config \in Configs /\ tun \in BOOLEAN /\ errors \in BOOLEAN /\ gated \in BOOLEAN
          /\ sessions \in Nat
      BY <2>2 DEF WindowsInit
    <3>4. QED BY <3>1, <3>2, <3>3
      DEF WindowsTypeOK, HostOK, JournalOK, AppliedOK, WhereOK, GhostOK
  <2>3. ASSUME WindowsInit PROVE FirstInv /\ LiveInv /\ PhaseInv
    BY <2>3 DEF WindowsInit, FirstInv, LiveInv, PhaseInv, ApplySteps, UndoSteps, FirstSteps,
                NothingApplied
  <2>4. ASSUME WindowsInit PROVE PinInv
    BY <2>4 DEF WindowsInit, PinInv, NothingApplied
  <2>5. QED BY <2>2, <2>3, <2>4 DEF WhereInv
<1>2. WindowsTypeOK /\ FirstInv /\ WhereInv /\ PinInv /\ [WindowsNext]_windowsVars
      => (WindowsTypeOK /\ FirstInv /\ WhereInv /\ PinInv)'
  BY Typing, Whereabouts, PinOwned
<1>3. QED BY <1>1, <1>2, PTL DEF WindowsSpec

\* platform_apply, rollback and platform_revert over netsh and route.exe keep
\* their state well formed: no index leaves the lists it walks.
THEOREM WindowsTyping == WindowsSpec => []WindowsTypeOK
BY Whose, PTL

\* No command that changes the host starts beside a killed one that may still
\* be running: not in apply, not in its rollback, not in the teardown.
THEOREM NothingRunsBesideLive == WindowsSpec => NothingBesideLive
<1>1. WindowsTypeOK /\ WhereInv /\ [WindowsNext]_windowsVars => [live # {} => ~Changes]_windowsVars
  <2>1. ASSUME WhereInv, Changes PROVE live = {}
    BY <2>1 DEF WhereInv, LiveInv, Changes, AddrAdd, PinAdd, RouteAdd, Heal, ReAdd,
                RouteDel, AddrDel, PinDel
  <2>2. QED BY <2>1
<1>2. QED BY <1>1, Whose, PTL DEF WindowsSpec, NothingBesideLive

\* A route to the gateway that is somebody else's survives every phase of every
\* process, the deletes of a killed route.exe included.
THEOREM OtherPinsSurvive == WindowsSpec => OthersUntouched
<1>1. WindowsTypeOK /\ WhereInv /\ PinInv /\ [WindowsNext]_windowsVars
      => [row["pin"] = "other" /\ row'["pin"] # "other" => masked]_windowsVars
  BY PinRow
<1>2. QED BY <1>1, Whose, PTL DEF WindowsSpec, OthersUntouched

\* While the journal is in use, everything this process has put on the host is
\* in AppliedState or under an open intent: a crash at any step leaves a record.
THEOREM HostIsAccounted == WindowsSpec => []Accounted
<1>1. ASSUME WindowsInit PROVE OursInv /\ AdoptedInv /\ LedgerInv
  <2>1. \A x \in Things : row[x] = "none"
    BY <1>1 DEF WindowsInit
  <2>2. live = {} /\ at = "begin" /\ ~usable
    BY <1>1 DEF WindowsInit
  <2>3. "pin" \in Things
    BY DEF Things
  <2>4. OursInv
    BY <2>1, <2>2 DEF OursInv
  <2>5. AdoptedInv /\ LedgerInv
    BY <2>1, <2>2, <2>3 DEF AdoptedInv, LedgerInv
  <2>6. QED BY <2>4, <2>5
<1>2. /\ WindowsTypeOK /\ WhereInv /\ OursInv /\ AdoptedInv /\ LedgerInv /\ [WindowsNext]_windowsVars
      => (OursInv /\ AdoptedInv /\ LedgerInv)'
  BY OursKept, AdoptedKept, LedgerKept
<1>3. OursInv /\ AdoptedInv /\ LedgerInv => Accounted
  BY DEF OursInv, AdoptedInv, LedgerInv, Accounted
<1>4. QED BY <1>1, <1>2, <1>3, Whose, PTL DEF WindowsSpec

LEMMA ErrorsKept ==
  ASSUME WindowsTypeOK, WhereInv, ErrorInv, [WindowsNext]_windowsVars
  PROVE  ErrorInv'
<1> USE DEF ErrorInv, UndoSteps
<1>1. CASE BeginApply \/ Mtu \/ AddrAdd \/ PinProbe \/ PinAdd \/ PinCheck
  BY <1>1 DEF BeginApply, Mtu, AddrAdd, PinProbe, PinAdd, PinCheck, Fails, Goes, PinStands, report
<1>2. CASE RouteAdd \/ Classify \/ Heal \/ ReAdd \/ Verify
  BY <1>2 DEF RouteAdd, Classify, Heal, ReAdd, Verify, Fails, Goes, NextRoute, report
<1>3. CASE RouteDel \/ AddrDel \/ PinDel \/ PinGone
  BY <1>3 DEF RouteDel, AddrDel, PinDel, PinGone, Walks, UndoFrom, PinUndo
<1>4. CASE Revert \/ LiveActs \/ TunVanishes \/ OtherPins \/ UNCHANGED windowsVars
  BY <1>4 DEF Revert, LiveActs, TunVanishes, OtherPins, windowsVars, phase, report
<1>5. CASE NewProcess
  BY <1>5 DEF NewProcess
<1>6. QED
  BY <1>1, <1>2, <1>3, <1>4, <1>5 DEF WindowsNext, Commands, Finished

\* Where a step of the code can lead, as the promise sees it.
LEMMA StageStep ==
  ASSUME WindowsTypeOK, WhereInv, ErrorInv, [WindowsNext]_windowsVars, ~NewProcess
  PROVE  /\ at = "done" => at' = "done" /\ UNCHANGED <<mode, errors, gated, slip>>
         /\ at = "up" => at' = "up" \/ (mode' = "teardown" /\ ~errors' /\ ~gated')
         /\ at \in ApplySteps \ {"up"} => mode' \in {"apply", "rollback"}
         /\ at \in UndoSteps => mode' = mode /\ at' \in UndoSteps \cup {"done"}
<1>1. CASE Commands
  <2>1. at \notin {"done", "up"}
    BY <1>1 DEF Commands, BeginApply, Mtu, AddrAdd, PinProbe, PinAdd, PinCheck, RouteAdd, Classify, Heal,
                ReAdd, Verify, RouteDel, AddrDel, PinDel, PinGone
  <2>2. CASE RouteDel \/ AddrDel \/ PinDel \/ PinGone
    <3>1. at \in UndoSteps /\ at \notin ApplySteps
      BY <2>2 DEF RouteDel, AddrDel, PinDel, PinGone, UndoSteps, ApplySteps
    <3>2. mode' = mode /\ at' \in UndoSteps \cup {"done"}
      BY <2>2 DEF RouteDel, AddrDel, PinDel, PinGone, Walks, UndoFrom, PinUndo, UndoSteps
    <3>3. QED BY <2>1, <3>1, <3>2
  <2>3. CASE ~(RouteDel \/ AddrDel \/ PinDel \/ PinGone)
    <3>1. at \in ApplySteps /\ at \notin UndoSteps
      BY <1>1, <2>3 DEF Commands, BeginApply, Mtu, AddrAdd, PinProbe, PinAdd, PinCheck, RouteAdd,
                        Classify, Heal, ReAdd, Verify, ApplySteps, UndoSteps
    <3>2. mode = "apply"
      BY <3>1 DEF WhereInv, PhaseInv
    <3>3. CASE BeginApply \/ Mtu \/ AddrAdd \/ PinProbe \/ PinAdd \/ PinCheck
      BY <2>1, <3>1, <3>2, <3>3
      DEF BeginApply, Mtu, AddrAdd, PinProbe, PinAdd, PinCheck, Fails, Gated, RollsBack, Goes, PinStands
    <3>4. CASE RouteAdd \/ Classify \/ Heal \/ ReAdd \/ Verify
      BY <2>1, <3>1, <3>2, <3>4
      DEF RouteAdd, Classify, Heal, ReAdd, Verify, Fails, Gated, RollsBack, Goes, NextRoute
    <3>5. QED BY <1>1, <2>3, <3>3, <3>4 DEF Commands
  <2>4. QED BY <2>2, <2>3
<1>2. CASE Revert
  BY <1>2 DEF Revert, ErrorInv, WhereInv, PhaseInv, ApplySteps, UndoSteps, report
<1>3. CASE LiveActs \/ TunVanishes \/ OtherPins \/ UNCHANGED windowsVars
  <2>1. UNCHANGED <<at, mode, errors, gated, slip>>
    BY <1>3 DEF LiveActs, TunVanishes, OtherPins, windowsVars, phase, report, ghosts
  <2>2. QED BY <2>1 DEF WhereInv, PhaseInv
<1>4. QED BY <1>1, <1>2, <1>3 DEF WindowsNext, Finished

\* Nothing but a killed command changes what is ours once the phase is over.
LEMMA DoneRests ==
  ASSUME WindowsTypeOK, WhereInv, [WindowsNext]_windowsVars, ~NewProcess, at = "done", ~gated
  PROVE  \A x \in Things : row'[x] = "ours" <=> row[x] = "ours"
<1>1. ~Commands /\ ~Revert /\ ~TunVanishes
  BY DEF Commands, BeginApply, Mtu, AddrAdd, PinProbe, PinAdd, PinCheck, RouteAdd, Classify, Heal,
         ReAdd, Verify, RouteDel, AddrDel, PinDel, PinGone, Revert, TunVanishes
<1>2. ~LiveActs
  BY DEF LiveActs, WhereInv, LiveInv
<1>3. CASE OtherPins
  BY <1>3 DEF OtherPins, WindowsTypeOK, Things
<1>4. CASE UNCHANGED windowsVars
  BY <1>4 DEF windowsVars, host
<1>5. QED BY <1>1, <1>2, <1>3, <1>4 DEF WindowsNext, Finished

LEMMA PromisedStep ==
  ASSUME WindowsTypeOK, WhereInv, ErrorInv, LeakInv, [WindowsNext]_windowsVars, WindowsTypeOK', WhereInv', LeakInv'
  PROVE  [Promise!Next \/ Promise!StartsOver]_(Promise!vars)
<1> DEFINE st == IF at = "done" THEN "down"
                 ELSE IF at = "up" THEN "up"
                 ELSE IF mode = "teardown" THEN "reverting" ELSE "applying"
           vd == IF at # "done" THEN "none"
                 ELSE IF gated THEN "degraded"
                 ELSE IF mode # "teardown" THEN "err"
                 ELSE IF errors THEN "errors" ELSE "clean"
           lk == at = "done" /\ (gated \/ \E x \in Things : row[x] = "ours")
           sl == at = "done" /\ (slip \/ errors)
<1>s. at \in Steps /\ at' \in Steps /\ Steps = ApplySteps \cup UndoSteps \cup {"done"}
  BY DEF WindowsTypeOK, Steps, ApplySteps, UndoSteps
<1>1. CASE NewProcess
  <2>1. at' = "begin" /\ mode' = "apply"
    BY <1>1 DEF NewProcess
  <2>2. QED BY <2>1 DEF Promise!StartsOver
<1>2. CASE ~NewProcess /\ at = "done"
  <2>1. at' = "done" /\ UNCHANGED <<mode, errors, gated, slip>>
    BY <1>2, StageStep
  <2>2. lk' = lk
    BY <1>2, <2>1, DoneRests
  <2>3. st' = st /\ vd' = vd /\ sl' = sl
    BY <1>2, <2>1
  <2>4. QED BY <2>2, <2>3 DEF Promise!vars
<1>3. CASE ~NewProcess /\ at # "done" /\ at' # "done"
  <2>1. vd = "none" /\ vd' = "none" /\ ~lk /\ ~lk' /\ ~sl /\ ~sl'
    BY <1>3
  <2>2. \/ st' = st
        \/ st = "applying" /\ st' = "up"
        \/ st = "up" /\ st' = "reverting"
    <3>1. CASE at = "up"
      BY <1>3, <3>1, StageStep
    <3>2. CASE at \in UndoSteps
      <4>1. mode' = mode /\ at' # "up" /\ at # "up"
        BY <1>3, <3>2, StageStep DEF UndoSteps
      <4>2. QED BY <1>3, <4>1
    <3>3. CASE at \in ApplySteps \ {"up"}
      <4>1. mode' # "teardown" /\ mode = "apply"
        BY <1>3, <3>3, StageStep DEF WhereInv, PhaseInv
      <4>2. QED BY <1>3, <3>3, <4>1
    <3>4. QED BY <1>3, <1>s, <3>1, <3>2, <3>3
  <2>3. QED BY <2>1, <2>2 DEF Promise!Next, Promise!Applied, Promise!RevertStarts, Promise!vars
<1>4. CASE ~NewProcess /\ at # "done" /\ at' = "done"
  <2>1. st' = "down" /\ sl' \in BOOLEAN /\ lk' \in BOOLEAN
    BY <1>4 DEF WindowsTypeOK
  <2>2. gated' => lk' /\ vd' = "degraded"
    BY <1>4
  <2>3. ~gated' => (lk' => sl')
    BY <1>4 DEF LeakInv, Held
  <2>5. CASE at \in ApplySteps \ {"up"}
    <3>1. mode' \in {"apply", "rollback"} /\ mode = "apply"
      BY <1>4, <2>5, StageStep DEF WhereInv, PhaseInv
    <3>2. st = "applying" /\ vd' \in {"err", "degraded"}
      BY <1>4, <2>5, <3>1
    <3>3. QED BY <1>4, <2>1, <2>2, <2>3, <3>2 DEF Promise!Next, Promise!ApplyFails, Promise!Down
  <2>6. CASE at = "up"
    <3>1. vd' = "clean" /\ st = "up"
      BY <1>4, <2>6, StageStep
    <3>2. QED BY <1>4, <2>1, <2>2, <2>3, <3>1 DEF Promise!Next, Promise!RevertIsEmpty, Promise!Down
  <2>7. CASE at \in UndoSteps /\ mode = "teardown"
    <3>1. mode' = "teardown" /\ st = "reverting"
      BY <1>4, <2>7, StageStep DEF UndoSteps
    <3>2. vd' \in {"clean", "degraded"} \/ (vd' = "errors" /\ sl')
      BY <1>4, <3>1
    <3>3. QED BY <1>4, <2>1, <2>2, <2>3, <3>1, <3>2 DEF Promise!Next, Promise!RevertEnds, Promise!Down
  <2>8. CASE at \in UndoSteps /\ mode # "teardown"
    <3>1. mode' # "teardown" /\ st = "applying"
      BY <1>4, <2>8, StageStep DEF UndoSteps
    <3>2. vd' \in {"err", "degraded"}
      BY <1>4, <3>1
    <3>3. QED BY <1>4, <2>1, <2>2, <2>3, <3>1, <3>2 DEF Promise!Next, Promise!ApplyFails, Promise!Down
  <2>9. QED BY <1>4, <1>s, <2>5, <2>6, <2>7, <2>8
<1>5. QED BY <1>2, <1>1, <1>3, <1>4

\* The safety part of KeepsPromise: whatever the commands do, and wherever the
\* process dies, a phase that ends undegraded has left nothing of its own on the
\* host that a logged, reported or invisible failure does not explain.
THEOREM WindowsKeepsPromise ==
  WindowsSpec => Promise!Init /\ [][Promise!Next \/ Promise!StartsOver]_(Promise!vars)
<1>1. WindowsInit => ErrorInv /\ LeakInv /\ Promise!Init
  <2>1. ASSUME WindowsInit PROVE LeakInv
    BY <2>1 DEF WindowsInit, LeakInv, Held
  <2>2. ASSUME WindowsInit PROVE ErrorInv /\ Promise!Init
    BY <2>2 DEF WindowsInit, ErrorInv, Promise!Init
  <2>3. QED BY <2>1, <2>2
<1>2. WindowsTypeOK /\ WhereInv /\ ErrorInv /\ LeakInv /\ [WindowsNext]_windowsVars => (ErrorInv /\ LeakInv)'
  BY ErrorsKept, NothingUntold
<1>3. /\ WindowsTypeOK /\ WhereInv /\ ErrorInv /\ LeakInv /\ [WindowsNext]_windowsVars
      /\ WindowsTypeOK' /\ WhereInv' /\ LeakInv'
      => [Promise!Next \/ Promise!StartsOver]_(Promise!vars)
  BY PromisedStep
<1>4. QED BY <1>1, <1>2, <1>3, Whose, PTL DEF WindowsSpec

\* The routes apply has passed, and the pin before them, are on the host.
RouteSteps == {"route_add", "classify", "heal", "readd", "verify", "up"}
SeenInv ==
  at \in RouteSteps =>
    /\ tun => \A k \in 1..(i - 1) : k <= Len(Routes) =>
                row[Routes[k]] # "none" \/ Routes[k] \in config.others
    /\ config.pin => row["pin"] # "none"
    /\ at = "up" => i > Len(Routes)

LEMMA SeenOn ==
  ASSUME SeenInv, at \in RouteSteps, at' \in RouteSteps \ {"up"}, i' = i, UNCHANGED <<config, tun>>,
         \A k \in 1..(i - 1) : k <= Len(Routes) => row'[Routes[k]] = row[Routes[k]],
         row'["pin"] = row["pin"]
  PROVE  SeenInv'
BY DEF SeenInv

LEMMA SeenNext ==
  ASSUME WindowsTypeOK, SeenInv, at \in RouteSteps \ {"up"}, NextRoute, UNCHANGED <<config, tun, row>>,
         row[Routes[i]] # "none" \/ Routes[i] \in config.others
  PROVE  SeenInv'
<1>1. i \in 1..Len(Routes) /\ i' = i + 1 /\ Len(Routes) \in Nat
  BY RouteAssumption DEF WindowsTypeOK, RouteSteps, NextRoute
<1>2. \A k \in 1..(i' - 1) : k \in 1..(i - 1) \/ k = i
  BY <1>1
<1>3. at' = "up" => i' > Len(Routes)
  BY <1>1 DEF NextRoute, RoutesFrom
<1>4. QED BY <1>1, <1>2, <1>3 DEF SeenInv

LEMMA SeenFirst ==
  ASSUME WindowsTypeOK, FirstInv, at \in FirstSteps, i' = i, row'["pin"] # "none" \/ ~config'.pin,
         at' = "up" => Len(Routes) = 0
  PROVE  SeenInv'
<1>1. i = 1
  BY DEF FirstInv
<1>2. QED BY <1>1 DEF SeenInv

LEMMA AlreadySeen ==
  ASSUME WindowsTypeOK, FirstInv, WhereInv, SeenInv, [WindowsNext]_windowsVars
  PROVE  SeenInv'
<1> USE DEF Elsewhere
<1>n. Len(Routes) \in Nat
  BY RouteAssumption
<1>f. ASSUME NEW end, Fails(end) PROVE SeenInv'
  BY <1>f DEF Fails, Gated, RollsBack, UndoFrom, PinUndo, SeenInv, RouteSteps
<1>z. RoutesFrom(1) = "up" => Len(Routes) = 0
  BY <1>n DEF RoutesFrom
<1>g. ASSUME NEW to, Goes(to), to \notin RouteSteps PROVE SeenInv'
  BY <1>g DEF Goes, SeenInv
<1>1. CASE BeginApply
  BY <1>1 DEF BeginApply, SeenInv, RouteSteps
<1>2. CASE Mtu
  <2>1. CASE Goes(AfterMtu)
    BY <1>2, <1>z, <2>1, SeenFirst DEF Mtu, Goes, AfterMtu, AfterAddr, FirstSteps, SeenInv, RouteSteps
  <2>2. QED BY <1>2, <1>f, <2>1 DEF Mtu
<1>3. CASE AddrAdd
  <2>1. CASE at' = AfterAddr /\ i' = i
    BY <1>3, <1>z, <2>1, SeenFirst DEF AddrAdd, AfterAddr, FirstSteps, SeenInv, RouteSteps
  <2>2. QED BY <1>3, <1>f, <2>1 DEF AddrAdd
<1>p. ASSUME NEW o, PinStands(o), at \in FirstSteps, row["pin"] # "none", UNCHANGED row PROVE SeenInv'
  BY <1>p, <1>z, SeenFirst DEF PinStands
<1>4. CASE PinProbe
  BY <1>4, <1>f, <1>g, <1>p DEF PinProbe, Reads, FirstSteps, RouteSteps
<1>5. CASE PinAdd
  BY <1>5 DEF PinAdd, SeenInv, RouteSteps
<1>6. CASE PinCheck
  BY <1>6, <1>f, <1>p DEF PinCheck, FirstSteps
<1>r. ASSUME at \in RouteSteps \ {"up"}
      PROVE  /\ i \in 1..Len(Routes) /\ Routes[i] \in OnTun /\ Routes[i] \in Things /\ Routes[i] # "pin"
             /\ \A k \in 1..(i - 1) : Routes[k] \in Things /\ Routes[k] # Routes[i]
  <2>1. i \in 1..Len(Routes)
    BY <1>r DEF WindowsTypeOK, RouteSteps
  <2>2. \A k \in 1..Len(Routes) : Routes[k] \in RoutePrefixes
    BY DEF RoutePrefixes
  <2>3. \A q \in RoutePrefixes : q \in OnTun /\ q \in Things /\ q # "pin"
    BY RouteAssumption DEF OnTun, Things
  <2>4. \A k \in 1..(i - 1) : k \in 1..Len(Routes) /\ k # i
    BY <1>n, <2>1
  <2>5. QED BY <2>1, <2>2, <2>3, <2>4, RouteAssumption
<1>t. ASSUME at \in RouteSteps \ {"up"}, NEW to \in RouteSteps \ {"up"}, Goes(to), NEW op, NEW end,
             Runs(op, Routes[i], end) \/ UNCHANGED row, UNCHANGED <<config, tun>>
      PROVE  SeenInv'
  <2>1. \A y \in Things \ {Routes[i]} : row'[y] = row[y]
    BY <1>r, <1>t, RunsHeld
  <2>2. "pin" \in Things
    BY DEF Things
  <2>3. QED BY <1>r, <1>t, <2>1, <2>2, SeenOn DEF Goes
<1>7. CASE RouteAdd
  BY <1>7, <1>f, <1>t DEF RouteAdd, RouteSteps
<1>8. CASE Classify
  <2>1. at \in RouteSteps \ {"up"} /\ UNCHANGED <<config, tun, row>>
    BY <1>8 DEF Classify, RouteSteps, host
  <2>2. \/ Fails("failed") \/ Goes("readd") \/ Goes("heal")
        \/ NextRoute /\ (row[Routes[i]] # "none" \/ Routes[i] \in config.others)
    BY <1>8 DEF Classify, Class
  <2>3. QED BY <1>f, <1>t, <2>1, <2>2, SeenNext DEF RouteSteps
<1>9. CASE Heal
  BY <1>9, <1>f, <1>t DEF Heal, RouteSteps
<1>10. CASE ReAdd
  BY <1>10, <1>f, <1>t DEF ReAdd, RouteSteps
<1>11. CASE Verify
  <2>1. at \in RouteSteps \ {"up"} /\ UNCHANGED <<config, tun, row>>
    BY <1>11 DEF Verify, RouteSteps, host
  <2>2. \/ Fails("failed")
        \/ NextRoute /\ (row[Routes[i]] # "none" \/ Routes[i] \in config.others)
    BY <1>11 DEF Verify, Class
  <2>3. QED BY <1>f, <2>1, <2>2, SeenNext
<1>12. CASE Revert
  BY <1>12 DEF Revert, UndoFrom, PinUndo, SeenInv, RouteSteps
<1>13. CASE RouteDel \/ AddrDel \/ PinDel \/ PinGone
  BY <1>13 DEF RouteDel, AddrDel, PinDel, PinGone, Walks, UndoFrom, PinUndo, SeenInv, RouteSteps
<1>17. CASE LiveActs
  <2>1. at \notin RouteSteps /\ at' = at
    BY <1>17 DEF LiveActs, WhereInv, LiveInv, RouteSteps, phase
  <2>2. QED BY <2>1 DEF SeenInv
<1>18. CASE TunVanishes
  <2>1. row'["pin"] = row["pin"] /\ ~tun'
    BY <1>18, RouteAssumption DEF TunVanishes, OnTun, Things
  <2>2. QED BY <1>18, <2>1 DEF TunVanishes, SeenInv, phase
<1>19. CASE OtherPins
  <2>1. \A y \in Things : row[y] # "none" => row'[y] # "none"
    BY <1>19 DEF OtherPins, WindowsTypeOK
  <2>2. "pin" \in Things /\ \A k \in 1..Len(Routes) : Routes[k] \in Things
    BY DEF Things, RoutePrefixes
  <2>3. i \in Nat
    BY DEF WindowsTypeOK
  <2>4. QED BY <1>19, <1>n, <2>1, <2>2, <2>3 DEF OtherPins, SeenInv, phase
<1>20. CASE NewProcess
  BY <1>20 DEF NewProcess, SeenInv, RouteSteps
<1>21. CASE UNCHANGED windowsVars
  BY <1>21 DEF windowsVars, host, phase, SeenInv
<1>22. CASE Commands
  BY <1>1, <1>2, <1>3, <1>4, <1>5, <1>6, <1>7, <1>8, <1>9, <1>10, <1>11, <1>13, <1>22 DEF Commands
<1>23. QED
  BY <1>12, <1>17, <1>18, <1>19, <1>20, <1>21, <1>22 DEF WindowsNext, Finished

\* Whatever netsh and route.exe claim, an apply that returned Ok has seen a row
\* for every prefix and for the gateway, and they are still there.
THEOREM UpIsSeen == WindowsSpec => []UpMeansSeen
<1>1. WindowsInit => SeenInv
  BY DEF WindowsInit, SeenInv, RouteSteps
<1>2. WindowsTypeOK /\ FirstInv /\ WhereInv /\ SeenInv /\ [WindowsNext]_windowsVars => SeenInv'
  BY AlreadySeen
<1>3. WindowsTypeOK /\ SeenInv => UpMeansSeen
  <2>1. ASSUME WindowsTypeOK, SeenInv, at = "up", tun, NEW p \in RoutePrefixes
        PROVE  row[p] # "none" \/ p \in config.others
    <3>1. PICK k \in 1..Len(Routes) : p = Routes[k]
      BY DEF RoutePrefixes
    <3>2. k \in 1..(i - 1)
      BY <2>1, RouteAssumption DEF WindowsTypeOK, SeenInv, RouteSteps
    <3>3. QED BY <2>1, <3>1, <3>2 DEF SeenInv, RouteSteps
  <2>2. QED BY <2>1 DEF SeenInv, UpMeansSeen, RouteSteps
<1>4. QED BY <1>1, <1>2, <1>3, Whose, PTL DEF WindowsSpec
=============================================================================
