--------------------------- MODULE WorkshopProofs ---------------------------
(***************************************************************************)
(* Theorems about WorkshopRegistry and WorkshopUpdates, for any packages,  *)
(* versions, publishers, sources and limits: LockIsSound and               *)
(* AcceptedInBounds.                                                       *)
(***************************************************************************)
EXTENDS WorkshopRegistry, WorkshopUpdates, FiniteSetTheorems, SequenceTheorems,
        WellFoundedInduction, TLAPS

-----------------------------------------------------------------------------
(* Numbers.                                                                 *)
LEMMA LeastOf ==
    ASSUME NEW S, S \subseteq Nat, S # {}
    PROVE  \E x \in S : \A y \in S : x <= y
<1> DEFINE R == {ss \in Nat \X Nat : ss[1] < ss[2]}
<1>1. IsWellFoundedOn(R, Nat)
  BY NatLessThanWellFounded DEF OpToRel
<1>2. \A x, y \in Nat : <<y, x>> \in R <=> y < x
  OBVIOUS
<1> HIDE DEF R
<1>3. PICK x \in S : \A y \in S : ~ (<<y, x>> \in R)
  BY <1>1, WFMin
<1>4. ASSUME NEW y \in S PROVE x <= y
  <2>1. x \in Nat /\ y \in Nat /\ ~ (<<y, x>> \in R)
    BY <1>3
  <2>2. ~ (y < x)
    BY <1>2, <2>1
  <2> QED BY <2>1, <2>2
<1> QED BY <1>3, <1>4

LEMMA GreatestOf ==
    ASSUME NEW n \in Nat, NEW S, S \subseteq 1 .. n, S # {}
    PROVE  \E x \in S : \A y \in S : y <= x
<1> DEFINE T == {n - x : x \in S}
<1>1. T \subseteq Nat /\ T # {}
  <2>1. \A x \in S : x \in Int /\ n - x \in Nat
    OBVIOUS
  <2> QED BY <2>1
<1>2. PICK t \in T : \A u \in T : t <= u
  BY <1>1, LeastOf
<1>3. PICK x \in S : t = n - x
  BY <1>2
<1>4. ASSUME NEW y \in S PROVE y <= x
  <2>1. n - x <= n - y
    BY <1>2, <1>3
  <2> QED BY <2>1
<1> QED BY <1>4

LEMMA ByNumbers ==
    ASSUME NEW n \in Nat, NEW S, 0 \in S, \A i \in 0 .. n - 1 : i \in S => i + 1 \in S
    PROVE  \A i \in 0 .. n : i \in S
<1> DEFINE T == (0 .. n) \ S
<1>1. SUFFICES ASSUME T # {} PROVE FALSE
  OBVIOUS
<1>2. PICK x \in T : \A y \in T : x <= y
  <2>1. T \subseteq Nat
    OBVIOUS
  <2> QED BY <1>1, <2>1, LeastOf
<1>3. x # 0 /\ x - 1 \in 0 .. n - 1 /\ x - 1 \notin T
  BY <1>2
<1>4. (x - 1) + 1 \in S /\ (x - 1) + 1 = x
  BY <1>3
<1> QED BY <1>2, <1>4

-----------------------------------------------------------------------------
(* Loops that copy some elements of a list: Collects says that f is the     *)
(* list after every number of rounds.                                       *)
Collects(f, n, keep, v) ==
    f = [k \in 0 .. n |->
            IF k = 0 THEN <<>>
            ELSE IF keep[k] THEN Append(f[k - 1], v[k])
            ELSE f[k - 1]]

LEMMA CollectionExists ==
    ASSUME NEW n \in Nat, NEW keep, NEW v
    PROVE  \E f : Collects(f, n, keep, v)
<1> DEFINE S == {i \in 0 .. n : \E f : Collects(f, i, keep, v)}
<1>1. 0 \in S
  <2> DEFINE f == [k \in 0 .. 0 |-> <<>>]
  <2>1. f = [k \in 0 .. 0 |-> IF k = 0 THEN <<>>
                              ELSE IF keep[k] THEN Append(f[k - 1], v[k]) ELSE f[k - 1]]
    OBVIOUS
  <2> HIDE DEF f
  <2>2. Collects(f, 0, keep, v)
    BY <2>1 DEF Collects
  <2> QED BY <2>2
<1>2. ASSUME NEW i \in 0 .. n - 1, i \in S
      PROVE  i + 1 \in S
  <2>1. PICK f : Collects(f, i, keep, v)
    BY <1>2
  <2> DEFINE next == IF keep[i + 1] THEN Append(f[i], v[i + 1]) ELSE f[i]
  <2> DEFINE g == [k \in 0 .. i + 1 |-> IF k = i + 1 THEN next ELSE f[k]]
  <2>2. ASSUME NEW k \in 0 .. i + 1
        PROVE  g[k] = IF k = 0 THEN <<>> ELSE IF keep[k] THEN Append(g[k - 1], v[k]) ELSE g[k - 1]
    <3>1. CASE k = i + 1
      <4>1. k # 0 /\ k - 1 = i /\ g[k] = next /\ g[k - 1] = f[i]
        BY <3>1
      <4> HIDE DEF g
      <4> QED BY <3>1, <4>1
    <3>2. CASE k # i + 1
      <4>1. k \in 0 .. i /\ g[k] = f[k] /\ (k # 0 => k - 1 \in 0 .. i + 1 /\ g[k - 1] = f[k - 1])
        BY <3>2
      <4>2. f[k] = IF k = 0 THEN <<>> ELSE IF keep[k] THEN Append(f[k - 1], v[k]) ELSE f[k - 1]
        BY <2>1, <4>1 DEF Collects
      <4> HIDE DEF g
      <4> QED BY <4>1, <4>2
    <3> QED BY <3>1, <3>2
  <2>3. DOMAIN g = 0 .. i + 1 /\ g = [k \in 0 .. i + 1 |-> g[k]]
    OBVIOUS
  <2> HIDE DEF g
  <2>4. Collects(g, i + 1, keep, v)
    BY <2>2, <2>3 DEF Collects
  <2> QED BY <2>4
<1>3. \A i \in 0 .. n : i \in S
  <2> HIDE DEF S
  <2> QED BY <1>1, <1>2, ByNumbers
<1> QED BY <1>3

(* What is copied, and from where: source is the index of each element in   *)
(* the list that is copied from.                                            *)
Copies(t, n, keep, v, source) ==
    /\ source \in [1 .. Len(t) -> 1 .. n]
    /\ \A j \in 1 .. Len(t) : keep[source[j]] /\ t[j] = v[source[j]]
    /\ \A j, l \in 1 .. Len(t) : source[j] = source[l] => j = l
    /\ \A i \in 1 .. n : keep[i] => \E j \in 1 .. Len(t) : source[j] = i

LEMMA CopiesOneMore ==
    ASSUME NEW k \in Nat, NEW T, NEW t \in Seq(T), NEW keep, NEW v, NEW m,
           Copies(t, k, keep, v, m), keep[k + 1], v[k + 1] \in T
    PROVE  \E source : Copies(Append(t, v[k + 1]), k + 1, keep, v, source)
<1>1. PICK l \in Nat : l = Len(t)
  OBVIOUS
<1> DEFINE u == Append(t, v[k + 1])
           source == [j \in 1 .. l + 1 |-> IF j = l + 1 THEN k + 1 ELSE m[j]]
<1>2. /\ Len(u) = l + 1
      /\ \A j \in 1 .. l : u[j] = t[j]
      /\ u[l + 1] = v[k + 1]
  BY <1>1
<1>3. /\ \A j \in 1 .. l : m[j] \in 1 .. k /\ keep[m[j]] /\ t[j] = v[m[j]]
      /\ \A i, j \in 1 .. l : m[i] = m[j] => i = j
      /\ \A i \in 1 .. k : keep[i] => \E j \in 1 .. l : m[j] = i
  BY <1>1 DEF Copies
<1>4. \A j \in 1 .. l + 1 : j = l + 1 \/ j \in 1 .. l
  BY <1>1
<1>5. source[l + 1] = k + 1 /\ l + 1 \in 1 .. l + 1
  BY <1>1
<1>6. \A j \in 1 .. l : j \in 1 .. l + 1 /\ source[j] = m[j]
  BY <1>1
<1>7. source \in [1 .. l + 1 -> 1 .. k + 1]
  BY <1>1, <1>3
<1> HIDE DEF u, source
<1>8. \A j \in 1 .. l + 1 : keep[source[j]] /\ u[j] = v[source[j]]
  BY <1>2, <1>3, <1>4, <1>5, <1>6
<1>9. \A j, i \in 1 .. l + 1 : source[j] = source[i] => j = i
  <2>1. \A x \in 1 .. k : x # k + 1
    OBVIOUS
  <2>2. \A j \in 1 .. l : source[j] # source[l + 1]
    BY <1>3, <1>5, <1>6, <2>1
  <2> SUFFICES ASSUME NEW j \in 1 .. l + 1, NEW i \in 1 .. l + 1, source[j] = source[i]
               PROVE  j = i
    OBVIOUS
  <2>3. CASE j \in 1 .. l /\ i \in 1 .. l
    <3>1. m[j] = m[i]
      BY <1>6, <2>3
    <3> QED BY <1>3, <2>3, <3>1
  <2>4. CASE j = l + 1 \/ i = l + 1
    BY <1>4, <2>2, <2>4
  <2> QED BY <1>4, <2>3, <2>4
<1>10. \A i \in 1 .. k + 1 : keep[i] => \E j \in 1 .. l + 1 : source[j] = i
  <2>1. \A i \in 1 .. k + 1 : i = k + 1 \/ i \in 1 .. k
    OBVIOUS
  <2> SUFFICES ASSUME NEW i \in 1 .. k + 1, keep[i]
               PROVE  \E j \in 1 .. l + 1 : source[j] = i
    OBVIOUS
  <2>2. CASE i = k + 1
    BY <1>5, <2>2
  <2>3. CASE i \in 1 .. k
    <3>1. PICK j \in 1 .. l : m[j] = i
      BY <1>3, <2>3
    <3> QED BY <1>6, <3>1
  <2> QED BY <2>1, <2>2, <2>3
<1>11. Copies(u, k + 1, keep, v, source)
  BY <1>2, <1>7, <1>8, <1>9, <1>10 DEF Copies
<1> QED BY <1>11 DEF u

LEMMA CollectionCopies ==
    ASSUME NEW n \in Nat, NEW keep, NEW T, NEW v \in [1 .. n -> T], NEW f, Collects(f, n, keep, v)
    PROVE  f[n] \in Seq(T) /\ \E source : Copies(f[n], n, keep, v, source)
<1> DEFINE S == {k \in 0 .. n : f[k] \in Seq(T) /\ \E m : Copies(f[k], k, keep, v, m)}
<1>1. 0 \in S
  <2>1. f[0] = <<>> /\ 0 \in 0 .. n
    BY DEF Collects
  <2>2. Len(<<>>) = 0 /\ 1 .. 0 = {}
    OBVIOUS
  <2>3. <<>> \in [{} -> {}]
    OBVIOUS
  <2>4. Copies(<<>>, 0, keep, v, <<>>)
    BY <2>2, <2>3 DEF Copies
  <2>5. f[0] \in Seq(T)
    BY <2>1
  <2>6. \E m : Copies(f[0], 0, keep, v, m)
    BY <2>1, <2>4
  <2> QED BY <2>1, <2>5, <2>6
<1>2. ASSUME NEW k \in 0 .. n - 1, k \in S
      PROVE  k + 1 \in S
  <2>1. f[k] \in Seq(T) /\ k \in Nat /\ k + 1 \in 1 .. n /\ k + 1 \in 0 .. n
    BY <1>2
  <2>2. PICK m : Copies(f[k], k, keep, v, m)
    BY <1>2
  <2>3. f[k + 1] = IF keep[k + 1] THEN Append(f[k], v[k + 1]) ELSE f[k]
    <3>1. k + 1 # 0 /\ (k + 1) - 1 = k
      BY <2>1
    <3>2. f[k + 1] = IF k + 1 = 0 THEN <<>>
                     ELSE IF keep[k + 1] THEN Append(f[(k + 1) - 1], v[k + 1])
                     ELSE f[(k + 1) - 1]
      BY <2>1 DEF Collects
    <3> QED BY <3>1, <3>2
  <2>4. v[k + 1] \in T
    BY <2>1
  <2>5. CASE keep[k + 1]
    <3>1. f[k + 1] \in Seq(T)
      BY <2>1, <2>3, <2>4, <2>5
    <3>2. \E source : Copies(Append(f[k], v[k + 1]), k + 1, keep, v, source)
      BY <2>1, <2>2, <2>4, <2>5, CopiesOneMore
    <3> QED BY <2>1, <2>3, <2>5, <3>1, <3>2
  <2>6. CASE ~keep[k + 1]
    <3>1. m \in [1 .. Len(f[k]) -> 1 .. k + 1]
      BY <2>1, <2>2 DEF Copies
    <3>2. \A i \in 1 .. k + 1 : keep[i] => i \in 1 .. k
      <4>1. \A i \in 1 .. k + 1 : i = k + 1 \/ i \in 1 .. k
        BY <2>1
      <4> QED BY <2>6, <4>1
    <3>3. Copies(f[k], k + 1, keep, v, m)
      BY <2>2, <3>1, <3>2 DEF Copies
    <3>4. f[k + 1] = f[k]
      BY <2>3, <2>6
    <3> QED BY <2>1, <3>3, <3>4
  <2> QED BY <2>5, <2>6
<1>3. \A i \in 0 .. n : i \in S
  <2> HIDE DEF S
  <2> QED BY <1>1, <1>2, ByNumbers
<1>4. n \in S
  BY <1>3
<1> QED BY <1>4

-----------------------------------------------------------------------------
(* Packages.  What the lock file says is what the manifest it was made from *)
(* asks for: each entry answers a dependency of its own, and each           *)
(* dependency on the Workshop has one; and each was released.               *)
Specs == [package : Packages, req : Reqs, source : DepSources]
Releases == [vers : Versions \cup {NoVersion}, yanked : BOOLEAN]
LockEntries == [name : Packages, version : Versions \cup {NoVersion}]

RegistryTyped ==
    /\ registry \in [Packages -> Seq(Releases)]
    /\ deps \in Seq(Specs) /\ resolved \in Seq(Specs)
    /\ lock \in Seq(LockEntries)

NamedOnce(specs) ==
    \A i, j \in 1 .. Len(specs) : specs[i].package = specs[j].package => i = j

Answers(entry, d) ==
    FromWorkshop(d) /\ entry.name = d.package /\ entry.version \in d.req /\ d.req # NoReq

AnswersAll(entries, specs, source) ==
    /\ source \in [1 .. Len(entries) -> 1 .. Len(specs)]
    /\ \A j \in 1 .. Len(entries) : Answers(entries[j], specs[source[j]])
    /\ \A j, l \in 1 .. Len(entries) : source[j] = source[l] => j = l
    /\ \A i \in 1 .. Len(specs) :
          FromWorkshop(specs[i]) => \E j \in 1 .. Len(entries) : source[j] = i

LockAnswers ==
    \E source \in [1 .. Len(lock) -> 1 .. Len(resolved)] : AnswersAll(lock, resolved, source)

(* What is on the registry stays on it.                                     *)
AllReleased(entries) == \A j \in 1 .. Len(entries) : WasReleased(entries[j])

RegistryInv ==
    RegistryTyped /\ NamedOnce(deps) /\ NamedOnce(resolved) /\ LockAnswers /\ AllReleased(lock)

-----------------------------------------------------------------------------
(* resolve writes such a lock file.                                         *)
LEMMA ChosenAnswers ==
    ASSUME RegistryTyped, NEW d \in Specs, FromWorkshop(d), Resolvable(d)
    PROVE  Chosen(d) \in LockEntries /\ Answers(Chosen(d), d) /\ WasReleased(Chosen(d))
<1> DEFINE log == registry[d.package]
<1>1. d.package \in Packages /\ log \in Seq(Releases)
  BY DEF RegistryTyped, Specs
<1>2. PICK n \in Nat : n = Len(log) /\ DOMAIN log = 1 .. n
  BY <1>1
<1>3. MatchingEntries(d) \subseteq 1 .. n /\ MatchingEntries(d) # {}
  BY <1>2 DEF MatchingEntries, Resolvable
<1>4. \E i \in MatchingEntries(d) : \A j \in MatchingEntries(d) : j <= i
  BY <1>3, GreatestOf
<1> DEFINE i == CHOOSE i \in MatchingEntries(d) : \A j \in MatchingEntries(d) : j <= i
<1>5. i \in MatchingEntries(d)
  BY <1>4
<1>6. Chosen(d) = [name |-> d.package, version |-> log[i].vers]
  BY DEF Chosen
<1> HIDE DEF i
<1>7. i \in 1 .. n /\ log[i].vers \in d.req
  BY <1>3, <1>5 DEF MatchingEntries
<1>8. log[i] \in Releases
  BY <1>1, <1>2, <1>7
<1>9. WasReleased(Chosen(d))
  BY <1>2, <1>6, <1>7 DEF WasReleased, ToSet
<1> QED BY <1>1, <1>6, <1>7, <1>8, <1>9 DEF Answers, LockEntries, Releases, Resolvable

LEMMA ResolveAnswers ==
    ASSUME RegistryTyped, \A d \in ToSet(deps) : FromWorkshop(d) => Resolvable(d)
    PROVE  LET entries == LockedUpTo(deps)[Len(deps)]
           IN  /\ entries \in Seq(LockEntries)
               /\ \E source : AnswersAll(entries, deps, source)
               /\ AllReleased(entries)
<1> DEFINE n == Len(deps)
           keep == [i \in 1 .. n |-> FromWorkshop(deps[i])]
           v == [i \in 1 .. n |-> IF FromWorkshop(deps[i]) THEN Chosen(deps[i])
                                  ELSE [name |-> deps[i].package, version |-> NoVersion]]
           f == LockedUpTo(deps)
<1>1. n \in Nat /\ DOMAIN deps = 1 .. n /\ \A i \in 1 .. n : deps[i] \in Specs /\ deps[i] \in ToSet(deps)
  BY DEF RegistryTyped, ToSet
<1>2. v \in [1 .. n -> LockEntries]
  <2>1. ASSUME NEW i \in 1 .. n PROVE v[i] \in LockEntries
    <3>1. CASE FromWorkshop(deps[i])
      BY <1>1, <3>1, ChosenAnswers
    <3>2. CASE ~FromWorkshop(deps[i])
      BY <1>1, <3>2 DEF LockEntries, Specs
    <3> QED BY <3>1, <3>2
  <2> QED BY <2>1
<1>3. Collects(f, n, keep, v)
  <2>1. PICK g : Collects(g, n, keep, v)
    BY <1>1, CollectionExists
  <2> DEFINE step(h) == [k \in 0 .. n |->
                           IF k = 0 THEN <<>>
                           ELSE IF FromWorkshop(deps[k]) THEN Append(h[k - 1], Chosen(deps[k]))
                           ELSE h[k - 1]]
  <2>2. ASSUME NEW h PROVE Collects(h, n, keep, v) <=> h = step(h)
    <3>1. \A k \in 0 .. n : k = 0 \/ k \in 1 .. n
      BY <1>1
    <3>2. \A k \in 1 .. n : /\ keep[k] = FromWorkshop(deps[k])
                            /\ FromWorkshop(deps[k]) => v[k] = Chosen(deps[k])
      OBVIOUS
    <3> HIDE DEF keep, v, n
    <3> QED BY <3>1, <3>2 DEF Collects
  <2>3. f = CHOOSE h : h = step(h)
    BY DEF LockedUpTo
  <2>4. g = step(g)
    BY <2>1, <2>2
  <2> HIDE DEF step, f, keep, v, n
  <2>5. f = step(f)
    BY <2>3, <2>4
  <2> QED BY <2>2, <2>5
<1> HIDE DEF f
<1>4. /\ f[n] \in Seq(LockEntries)
      /\ \E source : Copies(f[n], n, keep, v, source)
  <2> HIDE DEF keep, v
  <2> QED BY <1>1, <1>2, <1>3, CollectionCopies
<1>5. PICK source : Copies(f[n], n, keep, v, source)
  BY <1>4
<1>6. ASSUME NEW i \in 1 .. n, keep[i]
      PROVE  Answers(v[i], deps[i]) /\ WasReleased(v[i])
  <2>1. FromWorkshop(deps[i]) /\ v[i] = Chosen(deps[i])
    BY <1>6
  <2> QED BY <1>1, <2>1, ChosenAnswers
<1>7. \A i \in 1 .. n : keep[i] <=> FromWorkshop(deps[i])
  OBVIOUS
<1>8. AnswersAll(f[n], deps, source)
  <2> HIDE DEF keep, v
  <2> QED BY <1>5, <1>6, <1>7 DEF AnswersAll, Copies
<1>9. AllReleased(f[n])
  <2> HIDE DEF keep, v
  <2> QED BY <1>5, <1>6 DEF AllReleased, Copies
<1> QED BY <1>4, <1>8, <1>9 DEF f

LEMMA RegistryStart == RegistryInit => RegistryInv
<1> SUFFICES ASSUME RegistryInit PROVE RegistryInv
  OBVIOUS
<1>1. <<>> \in Seq(Specs) /\ <<>> \in Seq(LockEntries) /\ <<>> \in Seq(Releases)
      /\ Len(<<>>) = 0 /\ 1 .. 0 = {} /\ <<>> \in [{} -> {}]
  OBVIOUS
<1>2. RegistryTyped
  BY <1>1 DEF RegistryInit, RegistryTyped
<1>3. NamedOnce(deps) /\ NamedOnce(resolved)
  BY <1>1 DEF RegistryInit, NamedOnce
<1>4. AnswersAll(lock, resolved, <<>>)
  BY <1>1 DEF RegistryInit, AnswersAll
<1>5. LockAnswers
  BY <1>4 DEF LockAnswers, AnswersAll
<1>6. AllReleased(lock)
  BY <1>1 DEF RegistryInit, AllReleased
<1> QED BY <1>2, <1>3, <1>5, <1>6 DEF RegistryInv

(* A registry whose entries keep their versions keeps what was released.    *)
LEMMA RegistryGrows ==
    ASSUME RegistryInv, registry' \in [Packages -> Seq(Releases)],
           UNCHANGED <<deps, lock, resolved>>,
           \A p \in Packages : \A i \in DOMAIN registry[p] :
              i \in DOMAIN registry'[p] /\ registry'[p][i].vers = registry[p][i].vers
    PROVE  RegistryInv'
<1>1. AllReleased(lock)'
  <2> SUFFICES ASSUME NEW j \in 1 .. Len(lock)
               PROVE  \E e \in ToSet(registry'[lock[j].name]) : e.vers = lock[j].version
    BY DEF AllReleased, WasReleased
  <2>1. lock[j].name \in Packages
    <3>1. lock[j] \in LockEntries
      BY DEF RegistryInv, RegistryTyped
    <3> QED BY <3>1 DEF LockEntries
  <2>2. PICK i \in DOMAIN registry[lock[j].name] : registry[lock[j].name][i].vers = lock[j].version
    BY DEF RegistryInv, AllReleased, WasReleased, ToSet
  <2> QED BY <2>1, <2>2 DEF ToSet
<1>2. RegistryTyped'
  BY DEF RegistryInv, RegistryTyped
<1> QED BY <1>1, <1>2 DEF RegistryInv, NamedOnce, LockAnswers

LEMMA AddKeeps ==
    ASSUME RegistryInv, NEW p \in Packages, AddEntry(p)
    PROVE  RegistryInv'
<1>1. PICK v \in Versions \cup {NoVersion} :
         registry' = [registry EXCEPT ![p] = Append(@, Entry(v, FALSE))]
  BY DEF AddEntry
<1>2. Entry(v, FALSE) \in Releases
  BY DEF Entry, Releases
<1>3. registry \in [Packages -> Seq(Releases)] /\ registry[p] \in Seq(Releases)
  BY DEF RegistryInv, RegistryTyped
<1>4. PICK longer : longer = Append(registry[p], Entry(v, FALSE))
  OBVIOUS
<1>5. /\ longer \in Seq(Releases)
      /\ \A i \in DOMAIN registry[p] : i \in DOMAIN longer /\ longer[i] = registry[p][i]
  <2>1. PICK e \in Releases, log \in Seq(Releases) : e = Entry(v, FALSE) /\ log = registry[p]
    BY <1>2, <1>3
  <2>2. longer = Append(log, e)
    BY <1>4, <2>1
  <2>3. /\ longer \in Seq(Releases) /\ Len(longer) = Len(log) + 1
        /\ \A i \in 1 .. Len(log) : longer[i] = log[i]
    <3>1. /\ Append(log, e) \in Seq(Releases) /\ Len(Append(log, e)) = Len(log) + 1
          /\ \A i \in 1 .. Len(log) : Append(log, e)[i] = log[i]
      BY AppendProperties
    <3> QED BY <2>2, <3>1
  <2>4. DOMAIN longer = 1 .. Len(log) + 1 /\ DOMAIN log = 1 .. Len(log) /\ Len(log) \in Nat
    BY <2>3
  <2>5. \A i \in 1 .. Len(log) : i \in 1 .. Len(log) + 1
    BY <2>4
  <2> QED BY <2>1, <2>3, <2>4, <2>5, Zenon
<1>6. registry' = [registry EXCEPT ![p] = longer]
  BY <1>1, <1>4
<1>7. UNCHANGED <<deps, lock, resolved>>
  BY DEF AddEntry
<1> QED BY <1>3, <1>5, <1>6, <1>7, RegistryGrows

LEMMA YankKeeps ==
    ASSUME RegistryInv, NEW p \in Packages, NEW i \in DOMAIN registry[p], Yank(p, i)
    PROVE  RegistryInv'
<1>1. registry \in [Packages -> Seq(Releases)] /\ registry[p] \in Seq(Releases)
  BY DEF RegistryInv, RegistryTyped
<1>2. PICK e : e = [registry[p][i] EXCEPT !.yanked = TRUE]
  OBVIOUS
<1>3. registry[p][i] \in Releases
  BY <1>1
<1>4. e \in Releases /\ e.vers = registry[p][i].vers
  BY <1>2, <1>3 DEF Releases
<1>5. PICK log : log = [registry[p] EXCEPT ![i] = e]
  OBVIOUS
<1>6. /\ log \in Seq(Releases) /\ Len(log) = Len(registry[p])
      /\ \A j \in 1 .. Len(registry[p]) : log[j] = IF j = i THEN e ELSE registry[p][j]
  BY <1>1, <1>4, <1>5, ExceptSeq
<1>7. \A j \in DOMAIN registry[p] : j \in DOMAIN log /\ log[j].vers = registry[p][j].vers
  BY <1>1, <1>4, <1>6
<1>8. registry' = [registry EXCEPT ![p] = log]
  BY <1>2, <1>5 DEF Yank
<1>9. UNCHANGED <<deps, lock, resolved>>
  BY DEF Yank
<1> QED BY <1>1, <1>6, <1>7, <1>8, <1>9, RegistryGrows

(* A dependency removed from a list leaves the others.                      *)
LEMMA RemovedSpec ==
    ASSUME NEW specs \in Seq(Specs), NEW i \in 1 .. Len(specs)
    PROVE  /\ RemoveAt(specs, i) \in Seq(Specs)
           /\ NamedOnce(specs) => NamedOnce(RemoveAt(specs, i))
<1> DEFINE left == SubSeq(specs, 1, i - 1)
           right == SubSeq(specs, i + 1, Len(specs))
           rest == RemoveAt(specs, i)
<1>1. PICK n \in Nat : n = Len(specs) /\ i \in 1 .. n
  OBVIOUS
<1>2. \A j \in 1 .. n : specs[j] \in Specs
  BY <1>1
<1>3. /\ left \in Seq(Specs) /\ Len(left) = i - 1
      /\ \A j \in 1 .. i - 1 : left[j] = specs[j]
  <2>1. i - 1 \in Int /\ \A j \in 1 .. i - 1 : j \in 1 .. n
    BY <1>1
  <2>2. /\ left \in Seq(Specs) /\ Len(left) = IF 1 <= i - 1 THEN (i - 1) - 1 + 1 ELSE 0
        /\ \A j \in 1 .. (i - 1) - 1 + 1 : left[j] = specs[1 + j - 1]
    BY <1>2, <2>1, SubSeqProperties
  <2> QED BY <1>1, <2>2
<1>4. /\ right \in Seq(Specs) /\ Len(right) = n - i
      /\ \A j \in 1 .. n - i : right[j] = specs[j + i]
  <2>1. i + 1 \in Int /\ n \in Int /\ \A j \in i + 1 .. n : j \in 1 .. n
    BY <1>1
  <2>2. /\ right \in Seq(Specs) /\ Len(right) = IF i + 1 <= n THEN n - (i + 1) + 1 ELSE 0
        /\ \A j \in 1 .. n - (i + 1) + 1 : right[j] = specs[i + 1 + j - 1]
    BY <1>1, <1>2, <2>1, SubSeqProperties
  <2> QED BY <1>1, <2>2
<1> HIDE DEF left, right
<1>5. /\ rest \in Seq(Specs) /\ Len(rest) = n - 1
      /\ \A j \in 1 .. n - 1 : rest[j] = IF j <= i - 1 THEN specs[j] ELSE specs[j + 1]
  <2>1. /\ rest \in Seq(Specs) /\ Len(rest) = Len(left) + Len(right)
        /\ \A j \in 1 .. Len(left) + Len(right) :
               rest[j] = IF j <= Len(left) THEN left[j] ELSE right[j - Len(left)]
    BY <1>3, <1>4, ConcatProperties DEF RemoveAt, left, right
  <2>2. Len(left) + Len(right) = n - 1
    BY <1>1, <1>3, <1>4
  <2>3. ASSUME NEW j \in 1 .. n - 1
        PROVE  rest[j] = IF j <= i - 1 THEN specs[j] ELSE specs[j + 1]
    <3>1. CASE j <= i - 1
      BY <1>1, <1>3, <2>1, <2>2, <3>1, SMTT(30)
    <3>2. CASE ~(j <= i - 1)
      <4>1. j - (i - 1) \in 1 .. n - i /\ (j - (i - 1)) + i = j + 1
        BY <1>1, <3>2
      <4>2. right[j - (i - 1)] = specs[j + 1]
        BY <1>4, <4>1
      <4> QED BY <1>3, <2>1, <2>2, <3>2, <4>2
    <3> QED BY <3>1, <3>2
  <2> QED BY <2>1, <2>2, <2>3
<1> HIDE DEF rest
<1>6. ASSUME NamedOnce(specs) PROVE NamedOnce(rest)
  <2> SUFFICES ASSUME NEW j \in 1 .. n - 1, NEW l \in 1 .. n - 1,
                      rest[j].package = rest[l].package
               PROVE  j = l
    BY <1>5 DEF NamedOnce
  <2> DEFINE at(x) == IF x <= i - 1 THEN x ELSE x + 1
  <2>1. at(j) \in 1 .. n /\ at(l) \in 1 .. n /\ rest[j] = specs[at(j)] /\ rest[l] = specs[at(l)]
    BY <1>1, <1>5
  <2>2. at(j) = at(l)
    <3> HIDE DEF at
    <3> QED BY <1>1, <1>6, <2>1 DEF NamedOnce
  <2> QED BY <1>1, <2>2
<1> QED BY <1>5, <1>6 DEF rest

LEMMA EditKeeps ==
    ASSUME RegistryInv, Edit
    PROVE  RegistryInv'
<1>1. deps \in Seq(Specs) /\ NamedOnce(deps) /\ DOMAIN deps = 1 .. Len(deps)
  BY DEF RegistryInv, RegistryTyped
<1>2. PICK n \in Nat : n = Len(deps)
  BY <1>1, LenProperties, Zenon
<1>3. deps' \in Seq(Specs) /\ NamedOnce(deps')
  <2>1. ASSUME NEW p \in Packages, NEW source \in DepSources, NEW req \in Reqs,
               \A i \in DOMAIN deps : deps[i].package # p,
               deps' = Append(deps, Dep(p, req, source))
        PROVE  deps' \in Seq(Specs) /\ NamedOnce(deps')
    <3>1. Dep(p, req, source) \in Specs /\ Dep(p, req, source).package = p
      BY DEF Dep, Specs
    <3>2. /\ deps' \in Seq(Specs) /\ Len(deps') = n + 1
          /\ \A i \in 1 .. n : deps'[i] = deps[i]
          /\ deps'[n + 1] = Dep(p, req, source)
      BY <1>1, <1>2, <2>1, <3>1
    <3>3. \A i \in 1 .. n : deps'[i].package # p
      BY <1>1, <1>2, <2>1, <3>2
    <3>4. \A i \in 1 .. n + 1 : i \in 1 .. n \/ i = n + 1
      BY <1>2
    <3> QED BY <1>1, <1>2, <3>1, <3>2, <3>3, <3>4 DEF NamedOnce
  <2>2. ASSUME NEW i \in DOMAIN deps, NEW source \in DepSources, NEW req \in Reqs,
               deps' = [deps EXCEPT ![i] = Dep(@.package, req, source)]
        PROVE  deps' \in Seq(Specs) /\ NamedOnce(deps')
    <3> DEFINE d == Dep(deps[i].package, req, source)
    <3>1. deps[i] \in Specs
      BY <1>1
    <3>2. d \in Specs /\ d.package = deps[i].package
      BY <3>1 DEF Specs, Dep
    <3>3. deps' = [deps EXCEPT ![i] = d]
      BY <2>2
    <3> HIDE DEF d
    <3>4. /\ deps' \in Seq(Specs) /\ Len(deps') = Len(deps)
          /\ \A j \in 1 .. Len(deps) : deps'[j] = IF j = i THEN d ELSE deps[j]
      BY <1>1, <3>2, <3>3, ExceptSeq
    <3> QED BY <1>1, <3>2, <3>4 DEF NamedOnce
  <2>3. ASSUME NEW i \in DOMAIN deps, deps' = RemoveAt(deps, i)
        PROVE  deps' \in Seq(Specs) /\ NamedOnce(deps')
    BY <1>1, <2>3, RemovedSpec
  <2> QED BY <2>1, <2>2, <2>3 DEF Edit
<1>4. UNCHANGED <<registry, lock, resolved>>
  BY DEF Edit
<1>5. RegistryTyped'
  BY <1>3, <1>4 DEF RegistryInv, RegistryTyped
<1> QED BY <1>3, <1>4, <1>5 DEF RegistryInv, NamedOnce, LockAnswers, AllReleased, WasReleased

LEMMA ResolveKeeps ==
    ASSUME RegistryInv, ResolveOk
    PROVE  RegistryInv'
<1>1. /\ \A d \in ToSet(deps) : FromWorkshop(d) => Resolvable(d)
      /\ lock' = LockedUpTo(deps)[Len(deps)]
      /\ resolved' = deps /\ UNCHANGED <<registry, deps>>
  BY DEF ResolveOk
<1>2. /\ lock' \in Seq(LockEntries) /\ \E source : AnswersAll(lock', resolved', source)
      /\ AllReleased(lock')
  BY <1>1, ResolveAnswers DEF RegistryInv
<1>3. RegistryTyped'
  BY <1>1, <1>2 DEF RegistryInv, RegistryTyped
<1>4. LockAnswers'
  BY <1>2 DEF LockAnswers, AnswersAll
<1>5. AllReleased(lock)'
  BY <1>1, <1>2 DEF AllReleased, WasReleased
<1> QED BY <1>1, <1>3, <1>4, <1>5 DEF RegistryInv, NamedOnce

LEMMA RegistryStep == RegistryInv /\ [RegistryNext]_registryVars => RegistryInv'
<1> SUFFICES ASSUME RegistryInv, [RegistryNext]_registryVars PROVE RegistryInv'
  OBVIOUS
<1>1. ASSUME UNCHANGED registryVars PROVE RegistryInv'
  BY <1>1 DEF registryVars, RegistryInv, RegistryTyped, NamedOnce, LockAnswers, AllReleased, WasReleased
<1> QED
  BY <1>1, AddKeeps, YankKeeps, EditKeeps, ResolveKeeps DEF RegistryNext, ResolveFails

-----------------------------------------------------------------------------
(* The check of the lock file.                                              *)
LEMMA LockedVersionIsThere ==
    ASSUME RegistryInv, NEW name \in LockedNames
    PROVE  \E j \in 1 .. Len(lock) : lock[j].name = name /\ LockedVersion(name) = lock[j]
<1>1. DOMAIN lock = 1 .. Len(lock) /\ Len(lock) \in Nat
  BY DEF RegistryInv, RegistryTyped
<1> DEFINE S == {i \in 1 .. Len(lock) : lock[i].name = name}
<1>2. S \subseteq Nat /\ S # {}
  BY <1>1 DEF LockedNames
<1>3. PICK i \in S : \A j \in S : i <= j
  <2> HIDE DEF S
  <2> QED BY <1>2, LeastOf
<1>4. i \in DOMAIN lock /\ lock[i].name = name /\ \A j \in 1 .. (i - 1) : lock[j].name # name
  BY <1>1, <1>3
<1> DEFINE k == CHOOSE k \in DOMAIN lock :
                   lock[k].name = name /\ \A j \in 1 .. (k - 1) : lock[j].name # name
<1>5. k \in DOMAIN lock /\ lock[k].name = name
  BY <1>4
<1>6. LockedVersion(name) = lock[k]
  BY DEF LockedVersion
<1> HIDE DEF k
<1> QED BY <1>1, <1>5, <1>6

LEMMA ConsistentIsCovered ==
    ASSUME RegistryInv, IsConsistent
    PROVE  \A i \in DOMAIN deps : \E j \in DOMAIN lock :
              /\ lock[j].name = deps[i].package /\ WasReleased(lock[j])
              /\ deps[i].req # NoReq => lock[j].version \in deps[i].req
<1> SUFFICES ASSUME NEW i \in DOMAIN deps
             PROVE  \E j \in DOMAIN lock :
                       /\ lock[j].name = deps[i].package /\ WasReleased(lock[j])
                       /\ deps[i].req # NoReq => lock[j].version \in deps[i].req
  OBVIOUS
<1>1. deps[i] \in ToSet(deps)
  BY DEF ToSet
<1>2. deps[i].package \in LockedNames
  BY <1>1 DEF IsConsistent, Added
<1>3. deps[i].req # NoReq => LockedVersion(deps[i].package).version \in deps[i].req
  BY <1>1, <1>2 DEF IsConsistent, Changed
<1>4. DOMAIN lock = 1 .. Len(lock) /\ AllReleased(lock)
  BY DEF RegistryInv, RegistryTyped
<1>5. PICK j \in 1 .. Len(lock) : /\ lock[j].name = deps[i].package
                                  /\ LockedVersion(deps[i].package) = lock[j]
  BY <1>2, LockedVersionIsThere
<1> QED BY <1>3, <1>4, <1>5 DEF AllReleased

(* Names that occur once are as many as their list is long.                 *)
LEMMA AsManyNames ==
    ASSUME NEW n \in Nat, NEW f, DOMAIN f = 1 .. n,
           \A i, j \in 1 .. n : f[i] = f[j] => i = j
    PROVE  Cardinality({f[i] : i \in 1 .. n}) = n
<1> DEFINE names == {f[i] : i \in 1 .. n}
<1>1. IsFiniteSet(1 .. n) /\ Cardinality(1 .. n) = n
  BY FS_Interval
<1> DEFINE g == [i \in 1 .. n |-> f[i]]
<1>2. g \in Surjection(1 .. n, names) /\ g \in Injection(1 .. n, names)
  BY DEF Surjection, Injection, IsInjective
<1> HIDE DEF g, names
<1>3. Cardinality(names) = Cardinality(1 .. n)
  BY <1>1, <1>2, FS_Surjection
<1> QED BY <1>1, <1>3 DEF names

LEMMA ConsistentIsExact ==
    ASSUME RegistryInv, IsConsistent
    PROVE  Len(lock) = Len(deps)
<1>1. PICK source \in [1 .. Len(lock) -> 1 .. Len(resolved)] : AnswersAll(lock, resolved, source)
  BY DEF RegistryInv, LockAnswers
<1>2. PICK n \in Nat, m \in Nat : n = Len(lock) /\ m = Len(deps) /\ DOMAIN lock = 1 .. n /\ DOMAIN deps = 1 .. m
  BY DEF RegistryInv, RegistryTyped
<1> DEFINE f == [i \in 1 .. n |-> lock[i].name]
           g == [i \in 1 .. m |-> deps[i].package]
<1>3. ASSUME NEW i \in 1 .. n, NEW j \in 1 .. n, lock[i].name = lock[j].name
      PROVE  i = j
  <2>1. source[i] = source[j]
    BY <1>1, <1>2, <1>3, SMTT(30) DEF AnswersAll, Answers, RegistryInv, NamedOnce
  <2> QED BY <1>1, <1>2, <2>1 DEF AnswersAll
<1>4. \A i, j \in 1 .. n : f[i] = f[j] => i = j
  BY <1>3
<1>5. \A i, j \in 1 .. m : g[i] = g[j] => i = j
  BY <1>2 DEF RegistryInv, NamedOnce
<1>6. {f[i] : i \in 1 .. n} = LockedNames /\ {g[i] : i \in 1 .. m} = DepNames
  BY <1>2 DEF LockedNames, DepNames
<1>7. LockedNames = DepNames
  BY DEF IsConsistent, Added, Gone, DepNames, ToSet
<1>8. DOMAIN f = 1 .. n /\ DOMAIN g = 1 .. m
  OBVIOUS
<1> HIDE DEF f, g
<1>9. Cardinality({f[i] : i \in 1 .. n}) = n /\ Cardinality({g[i] : i \in 1 .. m}) = m
  BY <1>4, <1>5, <1>8, AsManyNames
<1> QED BY <1>2, <1>6, <1>7, <1>9

LEMMA JustWrittenPasses ==
    ASSUME RegistryInv, deps = resolved
    PROVE  Gone = {} /\ Changed = {} /\ Added = {d \in ToSet(deps) : ~FromWorkshop(d)}
<1>1. PICK source \in [1 .. Len(lock) -> 1 .. Len(deps)] : AnswersAll(lock, deps, source)
  BY DEF RegistryInv, LockAnswers
<1>2. DOMAIN lock = 1 .. Len(lock) /\ DOMAIN deps = 1 .. Len(deps) /\ NamedOnce(deps)
  BY DEF RegistryInv, RegistryTyped
<1>3. Gone = {}
  BY <1>1, <1>2 DEF Gone, LockedNames, DepNames, AnswersAll, Answers
<1>4. Changed = {}
  <2> SUFFICES ASSUME NEW i \in 1 .. Len(deps), deps[i].package \in LockedNames
               PROVE  LockedVersion(deps[i].package).version \in deps[i].req
    BY <1>2 DEF Changed, ToSet
  <2>1. PICK j \in 1 .. Len(lock) : /\ lock[j].name = deps[i].package
                                    /\ LockedVersion(deps[i].package) = lock[j]
    BY LockedVersionIsThere
  <2>2. source[j] \in 1 .. Len(deps) /\ Answers(lock[j], deps[source[j]])
    BY <1>1 DEF AnswersAll
  <2>3. source[j] = i
    BY <1>2, <2>1, <2>2 DEF Answers, NamedOnce
  <2> QED BY <2>1, <2>2, <2>3 DEF Answers
<1>5. ASSUME NEW d \in Added PROVE ~FromWorkshop(d)
  <2>1. PICK i \in 1 .. Len(deps) : d = deps[i]
    BY <1>2 DEF Added, ToSet
  <2> SUFFICES ASSUME FromWorkshop(d) PROVE FALSE
    OBVIOUS
  <2>2. PICK j \in 1 .. Len(lock) : source[j] = i
    BY <1>1, <2>1 DEF AnswersAll
  <2>3. lock[j].name = d.package
    BY <1>1, <2>1, <2>2 DEF AnswersAll, Answers
  <2> QED BY <1>2, <2>3 DEF Added, LockedNames
<1>6. ASSUME NEW d \in ToSet(deps), ~FromWorkshop(d) PROVE d \in Added
  <2>1. PICK i \in 1 .. Len(deps) : d = deps[i]
    BY <1>2 DEF ToSet
  <2> SUFFICES ASSUME NEW j \in 1 .. Len(lock), lock[j].name = d.package PROVE FALSE
    BY <1>2 DEF Added, LockedNames
  <2>2. source[j] \in 1 .. Len(deps) /\ Answers(lock[j], deps[source[j]])
    BY <1>1 DEF AnswersAll
  <2>3. source[j] = i
    BY <1>2, <2>1, <2>2 DEF Answers, NamedOnce
  <2> QED BY <1>6, <2>1, <2>2, <2>3 DEF Answers
<1>7. Added \subseteq ToSet(deps)
  BY DEF Added
<1> QED BY <1>3, <1>4, <1>5, <1>6, <1>7

(* For any packages, releases, yanks and edits, a lock file that passes the *)
(* check has a released version for every dependency of the manifest as it  *)
(* is, one that a requirement which parses admits, and nothing else; one    *)
(* just written lacks the dependencies from elsewhere, and is right about   *)
(* the others (resolve, is_consistent_with).                                *)
THEOREM LockHolds == RegistrySpec => []LockIsSound
<1>1. RegistryInv => LockIsSound
  BY ConsistentIsCovered, ConsistentIsExact, JustWrittenPasses DEF LockIsSound
<1> QED BY RegistryStart, RegistryStep, <1>1, PTL DEF RegistrySpec

-----------------------------------------------------------------------------
(* Announcements.  The log of a publisher counts what was accepted of it    *)
(* since any time that the window still reaches; what is known of a         *)
(* resource is the last number that was accepted.                           *)
Announcements ==
    [publisher : Publishers, resource : Resources, sequence : Nat, timestamp : Nat,
     signed : BOOLEAN]
Acceptances == [a : Announcements, at : Nat]

UpdatesTyped ==
    /\ clock \in Nat
    /\ issued \in [StreamKeys -> Nat]
    /\ held \in [Sources -> SUBSET Announcements]
    /\ knownSequences \in [StreamKeys -> Nat]
    /\ rateLog \in [Publishers -> Seq(Nat)]
    /\ accepted \in Seq(Acceptances)

Heard(i, k) == accepted[i].a.publisher = k[1] /\ accepted[i].a.resource = k[2]

(* Each was judged by the clock of its time.                                *)
WasGenuine ==
    \A i \in 1 .. Len(accepted) :
        /\ accepted[i].at <= clock
        /\ accepted[i].a.signed /\ accepted[i].a.sequence > 0
        /\ accepted[i].a.timestamp <= accepted[i].at + MaxDrift

KnownIsLast ==
    \A k \in StreamKeys :
        /\ \A i \in 1 .. Len(accepted) :
              Heard(i, k) => accepted[i].a.sequence <= knownSequences[k]
        /\ knownSequences[k] > 0 =>
              \E i \in 1 .. Len(accepted) :
                  Heard(i, k) /\ accepted[i].a.sequence = knownSequences[k]

SameStream(i, j) ==
    /\ accepted[j].a.publisher = accepted[i].a.publisher
    /\ accepted[j].a.resource = accepted[i].a.resource

InOrder ==
    \A i \in 1 .. Len(accepted) :
        /\ \A j \in 1 .. i - 1 :
              SameStream(i, j) => accepted[j].a.sequence < accepted[i].a.sequence
        /\ (\E j \in 1 .. i - 1 : SameStream(i, j)) =>
              \E j \in 1 .. i - 1 :
                  SameStream(i, j) /\ accepted[i].a.sequence - accepted[j].a.sequence <= MaxJump

AcceptedSince(p, t) ==
    {j \in 1 .. Len(accepted) : accepted[j].a.publisher = p /\ accepted[j].at >= t}
Since(log, t) == {i \in 1 .. Len(log) : log[i] >= t}

LogCounts ==
    \A p \in Publishers : \A t \in Int : t >= clock - Window =>
        Cardinality(AcceptedSince(p, t)) = Cardinality(Since(rateLog[p], t))

Near(p, c) ==
    {j \in 1 .. Len(accepted) : accepted[j].a.publisher = p /\ accepted[j].at \in (c - Window) .. c}

FewAtATime ==
    \A i \in 1 .. Len(accepted) :
        Cardinality(Near(accepted[i].a.publisher, accepted[i].at)) <= MaxCount

UpdatesInv ==
    UpdatesTyped /\ WasGenuine /\ KnownIsLast /\ InOrder /\ LogCounts /\ FewAtATime

LEMMA UpdateNumbers ==
    NumSources \in Nat /\ MaxDrift \in Nat /\ MaxJump \in Nat /\ MaxCount \in Nat /\ Window \in Nat
BY UpdatesAssumption

-----------------------------------------------------------------------------
(* What retain leaves of a log, and how much.                               *)
LEMMA RetainedCopies ==
    ASSUME NEW log \in Seq(Nat), NEW start \in Int
    PROVE  /\ Retained(log, start) \in Seq(Nat)
           /\ \E source : Copies(Retained(log, start), Len(log),
                                [i \in 1 .. Len(log) |-> log[i] >= start], log, source)
<1> DEFINE n == Len(log)
           keep == [i \in 1 .. n |-> log[i] >= start]
           step(h) == [k \in 0 .. n |->
                          IF k = 0 THEN <<>>
                          ELSE IF log[k] >= start THEN Append(h[k - 1], log[k])
                          ELSE h[k - 1]]
           f == CHOOSE h : h = step(h)
<1>1. n \in Nat /\ log \in [1 .. n -> Nat]
  BY LenProperties
<1>2. PICK g : Collects(g, n, keep, log)
  BY <1>1, CollectionExists
<1>3. ASSUME NEW h PROVE Collects(h, n, keep, log) <=> h = step(h)
  <2>1. \A k \in 0 .. n : k = 0 \/ k \in 1 .. n
    BY <1>1
  <2>2. \A k \in 1 .. n : keep[k] = (log[k] >= start)
    OBVIOUS
  <2> HIDE DEF keep, n
  <2> QED BY <2>1, <2>2 DEF Collects
<1>4. Retained(log, start) = f[n]
  BY DEF Retained
<1>5. Collects(f, n, keep, log)
  <2>1. g = step(g)
    BY <1>2, <1>3
  <2> HIDE DEF step, keep, n
  <2>2. f = step(f)
    BY <2>1
  <2> QED BY <1>3, <2>2
<1> HIDE DEF f, keep
<1>6. f[n] \in Seq(Nat) /\ \E source : Copies(f[n], n, keep, log, source)
  BY <1>1, <1>5, CollectionCopies
<1> QED BY <1>4, <1>6 DEF keep

LEMMA RetainedCounts ==
    ASSUME NEW log \in Seq(Nat), NEW start \in Int, NEW t \in Int, t >= start
    PROVE  /\ Retained(log, start) \in Seq(Nat)
           /\ Cardinality(Since(Retained(log, start), t)) = Cardinality(Since(log, t))
           /\ Len(Retained(log, start)) = Cardinality(Since(log, start))
<1> DEFINE n == Len(log)
           keep == [i \in 1 .. n |-> log[i] >= start]
           r == Retained(log, start)
<1>1. n \in Nat /\ r \in Seq(Nat)
  BY LenProperties, RetainedCopies
<1>2. PICK m \in Nat : m = Len(r)
  BY <1>1, LenProperties
<1>3. PICK source : Copies(r, n, keep, log, source)
  BY RetainedCopies
<1>4. /\ source \in [1 .. m -> 1 .. n]
      /\ \A j \in 1 .. m : log[source[j]] >= start /\ r[j] = log[source[j]]
      /\ \A j, l \in 1 .. m : source[j] = source[l] => j = l
      /\ \A i \in 1 .. n : log[i] >= start => \E j \in 1 .. m : source[j] = i
  BY <1>2, <1>3 DEF Copies
<1>5. \A i \in 1 .. n : log[i] \in Nat
  BY LenProperties
<1> HIDE DEF r, keep, n
<1>6. ASSUME NEW u \in Int, u >= start
      PROVE  Cardinality(Since(r, u)) = Cardinality(Since(log, u))
  <2> DEFINE A == {j \in 1 .. m : r[j] >= u}
             B == {i \in 1 .. n : log[i] >= u}
             f == [j \in A |-> source[j]]
  <2>1. IsFiniteSet(A)
    <3>1. IsFiniteSet(1 .. m)
      BY FS_Interval
    <3>2. A \subseteq 1 .. m
      OBVIOUS
    <3> HIDE DEF A
    <3> QED BY <3>1, <3>2, FS_Subset
  <2>2. f \in [A -> B]
    BY <1>4
  <2>3. \A i, j \in A : f[i] = f[j] => i = j
    BY <1>4
  <2>4. \A i \in B : \E j \in A : f[j] = i
    <3> SUFFICES ASSUME NEW i \in 1 .. n, log[i] >= u
                 PROVE  \E j \in A : f[j] = i
      OBVIOUS
    <3>1. log[i] >= start
      BY <1>5, <1>6
    <3>2. PICK j \in 1 .. m : source[j] = i
      BY <1>4, <3>1
    <3>3. r[j] >= u
      BY <1>4, <3>2
    <3> QED BY <3>2, <3>3
  <2> HIDE DEF f, A, B
  <2>5. f \in Surjection(A, B) /\ f \in Injection(A, B)
    BY <2>2, <2>3, <2>4 DEF Surjection, Injection, IsInjective
  <2>6. Cardinality(B) = Cardinality(A)
    BY <2>1, <2>5, FS_Surjection
  <2> QED BY <1>2, <2>6 DEF Since, A, B, n
<1>7. Since(r, start) = 1 .. m
  BY <1>2, <1>4 DEF Since
<1>8. Cardinality(1 .. m) = m
  BY FS_Interval
<1> QED BY <1>1, <1>2, <1>6, <1>7, <1>8 DEF r

LEMMA SinceGrows ==
    ASSUME NEW log \in Seq(Nat), NEW c \in Nat, NEW t \in Int
    PROVE  Cardinality(Since(Append(log, c), t)) =
             IF c >= t THEN Cardinality(Since(log, t)) + 1 ELSE Cardinality(Since(log, t))
<1>1. PICK n \in Nat : n = Len(log)
  BY LenProperties
<1>2. /\ Len(Append(log, c)) = n + 1
      /\ \A i \in 1 .. n : Append(log, c)[i] = log[i]
      /\ Append(log, c)[n + 1] = c
  BY <1>1, AppendProperties
<1>3. IsFiniteSet(Since(log, t)) /\ n + 1 \notin Since(log, t)
  <2>1. IsFiniteSet(1 .. n) /\ Since(log, t) \subseteq 1 .. n
    BY <1>1, FS_Interval DEF Since
  <2> QED BY <2>1, FS_Subset
<1>4. Since(Append(log, c), t) =
        IF c >= t THEN Since(log, t) \cup {n + 1} ELSE Since(log, t)
  <2> DEFINE new == Append(log, c)
  <2> HIDE DEF new
  <2>1. 1 .. n + 1 = (1 .. n) \cup {n + 1}
    OBVIOUS
  <2>2. Since(new, t) = {i \in (1 .. n) \cup {n + 1} : new[i] >= t}
    BY <1>2, <2>1 DEF Since, new
  <2>3. Since(log, t) = {i \in 1 .. n : new[i] >= t}
    BY <1>1, <1>2 DEF Since, new
  <2> QED BY <1>2, <2>2, <2>3 DEF new
<1> QED BY <1>3, <1>4, FS_AddElement

-----------------------------------------------------------------------------
LEMMA UpdatesStart == UpdatesInit => UpdatesInv
<1> SUFFICES ASSUME UpdatesInit PROVE UpdatesInv
  OBVIOUS
<1>1. UpdatesTyped
  BY DEF UpdatesInit, UpdatesTyped
<1>2. Len(accepted) = 0 /\ 1 .. 0 = {}
  BY DEF UpdatesInit
<1>3. \A k \in StreamKeys : knownSequences[k] = 0
  BY DEF UpdatesInit
<1>4. LogCounts
  <2>1. ASSUME NEW p \in Publishers, NEW t \in Int
        PROVE  AcceptedSince(p, t) = {} /\ Since(rateLog[p], t) = {}
    <3>1. Len(rateLog[p]) = 0
      BY DEF UpdatesInit
    <3> QED BY <1>2, <3>1 DEF AcceptedSince, Since
  <2> QED BY <2>1 DEF LogCounts
<1> QED BY <1>1, <1>2, <1>3, <1>4 DEF UpdatesInv, WasGenuine, KnownIsLast, InOrder, FewAtATime

(* Whatever leaves the validator alone, but for time that passes.           *)
LEMMA NothingJudged ==
    ASSUME UpdatesInv, UpdatesTyped', UNCHANGED <<knownSequences, rateLog, accepted>>,
           clock' >= clock
    PROVE  UpdatesInv'
<1>1. clock \in Nat /\ clock' \in Nat /\ Window \in Nat
  BY UpdateNumbers DEF UpdatesInv, UpdatesTyped
<1>7. clock' - Window >= clock - Window /\ clock' - Window \in Int /\ clock - Window \in Int
  <2>1. \A now, later, w \in Nat : later >= now =>
          later - w >= now - w /\ later - w \in Int /\ now - w \in Int
    OBVIOUS
  <2> QED BY <1>1, <2>1, Zenon
<1>2. \A i \in 1 .. Len(accepted) : accepted[i].at \in Nat
  <2>1. accepted \in Seq(Acceptances)
    BY DEF UpdatesInv, UpdatesTyped
  <2>2. \A i \in 1 .. Len(accepted) : accepted[i] \in Acceptances
    BY <2>1, ElementOfSeq
  <2> QED BY <2>2 DEF Acceptances
<1>3. WasGenuine'
  BY <1>1, <1>2 DEF UpdatesInv, WasGenuine
<1>4. KnownIsLast' /\ InOrder'
  BY DEF UpdatesInv, KnownIsLast, Heard, InOrder, SameStream
<1>5. LogCounts'
  <2> SUFFICES ASSUME NEW p \in Publishers, NEW t \in Int, t >= clock' - Window
               PROVE  Cardinality(AcceptedSince(p, t)') = Cardinality(Since(rateLog'[p], t))
    BY DEF LogCounts, Since
  <2>1. t >= clock - Window
    BY <1>7
  <2>2. AcceptedSince(p, t)' = AcceptedSince(p, t)
    BY DEF AcceptedSince
  <2> QED BY <2>1, <2>2 DEF UpdatesInv, LogCounts
<1>6. FewAtATime'
  BY DEF UpdatesInv, FewAtATime, Near
<1> QED BY <1>3, <1>4, <1>5, <1>6 DEF UpdatesInv

LEMMA PublishKeeps ==
    ASSUME UpdatesInv, NEW p \in Publishers, NEW r \in Resources, Publish(p, r)
    PROVE  UpdatesInv'
<1> DEFINE number == issued[<<p, r>>] + 1
<1>1. /\ clock \in Nat /\ issued \in [StreamKeys -> Nat]
      /\ held \in [Sources -> SUBSET Announcements] /\ MaxDrift \in Nat
  BY UpdateNumbers DEF UpdatesInv, UpdatesTyped
<1>2. number \in Nat
  <2>1. <<p, r>> \in StreamKeys
    BY DEF StreamKeys
  <2> QED BY <1>1, <2>1
<1>3. /\ issued' = [issued EXCEPT ![<<p, r>>] = number]
      /\ \E time \in {clock, clock + MaxDrift + 1}, signed \in BOOLEAN, takers \in SUBSET Sources :
            AnnounceTo(Announcement(p, r, number, time, signed), takers)
  BY Zenon DEF Publish
<1> HIDE DEF number
<1>9. PICK time \in Nat, signed \in BOOLEAN, takers \in SUBSET Sources :
        AnnounceTo(Announcement(p, r, number, time, signed), takers)
  <2>1. {clock, clock + MaxDrift + 1} \subseteq Nat
    BY <1>1
  <2> QED BY <1>3, <2>1
<1>4. Announcement(p, r, number, time, signed) \in Announcements
  BY <1>2 DEF Announcement, Announcements
<1>5. held' \in [Sources -> SUBSET Announcements]
  BY <1>1, <1>9, <1>4 DEF AnnounceTo
<1>6. issued' \in [StreamKeys -> Nat]
  BY <1>1, <1>2, <1>3
<1>7. UNCHANGED <<clock, knownSequences, revoked, rateLog, accepted>>
  BY DEF Publish
<1>8. UpdatesTyped'
  BY <1>5, <1>6, <1>7 DEF UpdatesInv, UpdatesTyped
<1> QED BY <1>1, <1>7, <1>8, NothingJudged

LEMMA RefusalKeeps ==
    ASSUME UpdatesInv, NEW a \in Announcements, ValidateFails(a)
    PROVE  UpdatesInv'
<1>1. /\ clock \in Nat /\ rateLog \in [Publishers -> Seq(Nat)] /\ Window \in Nat
      /\ a.publisher \in Publishers
  BY UpdateNumbers DEF UpdatesInv, UpdatesTyped, Announcements
<1>2. CASE UNCHANGED rateLog
  <2>1. UpdatesTyped'
    BY <1>2 DEF UpdatesInv, UpdatesTyped, ValidateFails
  <2> QED BY <1>1, <1>2, <2>1, NothingJudged DEF ValidateFails
<1>3. CASE rateLog' = [rateLog EXCEPT ![a.publisher] = Recent(a.publisher)]
  <2> DEFINE start == clock - Window
             log == rateLog[a.publisher]
  <2>1. start \in Int /\ log \in Seq(Nat) /\ Recent(a.publisher) = Retained(log, start)
    BY <1>1 DEF Recent
  <2>2. UNCHANGED <<clock, issued, held, knownSequences, revoked, accepted>>
    BY DEF ValidateFails
  <2> HIDE DEF start, log
  <2>3. Recent(a.publisher) \in Seq(Nat)
    BY <2>1, RetainedCopies
  <2>4. UpdatesTyped'
    BY <1>1, <1>3, <2>2, <2>3 DEF UpdatesInv, UpdatesTyped
  <2>5. WasGenuine' /\ KnownIsLast' /\ InOrder' /\ FewAtATime'
    BY <2>2 DEF UpdatesInv, WasGenuine, KnownIsLast, Heard, InOrder, SameStream, FewAtATime, Near
  <2>6. LogCounts'
    <3> SUFFICES ASSUME NEW p \in Publishers, NEW t \in Int, t >= clock' - Window
                 PROVE  Cardinality(AcceptedSince(p, t)') = Cardinality(Since(rateLog'[p], t))
      BY DEF LogCounts, Since
    <3>1. AcceptedSince(p, t)' = AcceptedSince(p, t) /\ t >= start
      BY <2>2 DEF AcceptedSince, start
    <3>2. Cardinality(AcceptedSince(p, t)) = Cardinality(Since(rateLog[p], t))
      BY <3>1 DEF UpdatesInv, LogCounts, start
    <3>3. CASE p = a.publisher
      <4>1. rateLog'[p] = Retained(log, start)
        BY <1>1, <1>3, <2>1, <3>3
      <4>2. Cardinality(Since(Retained(log, start), t)) = Cardinality(Since(log, t))
        BY <2>1, <3>1, RetainedCounts
      <4> QED BY <3>1, <3>2, <3>3, <4>1, <4>2 DEF log
    <3>4. CASE p # a.publisher
      <4>1. rateLog'[p] = rateLog[p]
        BY <1>1, <1>3, <3>4
      <4> QED BY <3>1, <3>2, <4>1
    <3> QED BY <3>3, <3>4
  <2> QED BY <2>4, <2>5, <2>6 DEF UpdatesInv
<1> QED BY <1>2, <1>3 DEF ValidateFails

(* The history after one more is let through.                               *)
LEMMA OneMoreAccepted ==
    ASSUME UpdatesInv, NEW a \in Announcements, ValidateOk(a)
    PROVE  /\ \E n \in Nat :
                /\ n = Len(accepted) /\ Len(accepted') = n + 1
                /\ \A i \in 1 .. n : accepted'[i] = accepted[i] /\ accepted[i] \in Acceptances
                /\ accepted'[n + 1] = [a |-> a, at |-> clock]
                /\ 1 .. n + 1 = (1 .. n) \cup {n + 1}
           /\ UpdatesTyped'
<1>1. /\ accepted \in Seq(Acceptances) /\ [a |-> a, at |-> clock] \in Acceptances
      /\ clock \in Nat /\ Window \in Nat
      /\ a.publisher \in Publishers /\ a.resource \in Resources /\ a.sequence \in Nat
      /\ rateLog \in [Publishers -> Seq(Nat)] /\ knownSequences \in [StreamKeys -> Nat]
  BY UpdateNumbers DEF UpdatesInv, UpdatesTyped, Acceptances, Announcements
<1>2. /\ accepted' = Append(accepted, [a |-> a, at |-> clock])
      /\ knownSequences' = [knownSequences EXCEPT ![<<a.publisher, a.resource>>] = a.sequence]
      /\ rateLog' = [rateLog EXCEPT ![a.publisher] = Append(Recent(a.publisher), clock)]
      /\ UNCHANGED <<clock, issued, held, revoked>>
  BY DEF ValidateOk
<1> DEFINE e == [a |-> a, at |-> clock]
<1> HIDE DEF e
<1>3. PICK n \in Nat : n = Len(accepted)
  BY <1>1, LenProperties
<1>4. /\ Len(accepted') = n + 1 /\ accepted'[n + 1] = e /\ accepted' \in Seq(Acceptances)
      /\ \A i \in 1 .. n : accepted'[i] = accepted[i]
  BY <1>1, <1>2, <1>3, AppendProperties DEF e
<1>5. \A i \in 1 .. n : accepted[i] \in Acceptances
  BY <1>1, <1>3, ElementOfSeq
<1>6. 1 .. n + 1 = (1 .. n) \cup {n + 1}
  OBVIOUS
<1>7. Append(Recent(a.publisher), clock) \in Seq(Nat)
  <2>1. clock - Window \in Int /\ rateLog[a.publisher] \in Seq(Nat)
    BY <1>1
  <2>2. Recent(a.publisher) \in Seq(Nat)
    BY <2>1, RetainedCopies DEF Recent
  <2> QED BY <1>1, <2>2, AppendProperties
<1>8. UpdatesTyped'
  <2>1. rateLog' \in [Publishers -> Seq(Nat)]
    BY <1>1, <1>2, <1>7
  <2>2. knownSequences' \in [StreamKeys -> Nat]
    BY <1>1, <1>2
  <2> QED BY <1>2, <1>4, <2>1, <2>2 DEF UpdatesInv, UpdatesTyped
<1> QED BY <1>3, <1>4, <1>5, <1>6, <1>8 DEF e

LEMMA AcceptedSinceGrows ==
    ASSUME UpdatesInv, NEW a \in Announcements, ValidateOk(a), NEW p \in Publishers, NEW t \in Int
    PROVE  Cardinality(AcceptedSince(p, t)') =
             IF p = a.publisher /\ clock >= t
             THEN Cardinality(AcceptedSince(p, t)) + 1 ELSE Cardinality(AcceptedSince(p, t))
<1>1. PICK n \in Nat :
        /\ n = Len(accepted) /\ Len(accepted') = n + 1
        /\ \A i \in 1 .. n : accepted'[i] = accepted[i] /\ accepted[i] \in Acceptances
        /\ accepted'[n + 1] = [a |-> a, at |-> clock]
        /\ 1 .. n + 1 = (1 .. n) \cup {n + 1}
  BY OneMoreAccepted
<1>2. AcceptedSince(p, t) = {j \in 1 .. n : accepted'[j].a.publisher = p /\ accepted'[j].at >= t}
  BY <1>1 DEF AcceptedSince
<1>3. AcceptedSince(p, t)' =
        {j \in (1 .. n) \cup {n + 1} : accepted'[j].a.publisher = p /\ accepted'[j].at >= t}
  BY <1>1 DEF AcceptedSince
<1>4. accepted'[n + 1].a.publisher = a.publisher /\ accepted'[n + 1].at = clock
  BY <1>1
<1>5. AcceptedSince(p, t)' =
        IF p = a.publisher /\ clock >= t
        THEN AcceptedSince(p, t) \cup {n + 1} ELSE AcceptedSince(p, t)
  BY <1>2, <1>3, <1>4
<1>6. IsFiniteSet(AcceptedSince(p, t)) /\ n + 1 \notin AcceptedSince(p, t)
  <2>1. IsFiniteSet(1 .. n) /\ AcceptedSince(p, t) \subseteq 1 .. n
    BY <1>2, FS_Interval
  <2> QED BY <2>1, FS_Subset
<1> QED BY <1>5, <1>6, FS_AddElement

LEMMA AcceptanceCounts ==
    ASSUME UpdatesInv, NEW a \in Announcements, ValidateOk(a)
    PROVE  LogCounts'
<1>1. /\ clock \in Nat /\ rateLog \in [Publishers -> Seq(Nat)] /\ Window \in Nat
      /\ a.publisher \in Publishers
  BY UpdateNumbers DEF UpdatesInv, UpdatesTyped, Announcements
<1>2. /\ rateLog' = [rateLog EXCEPT ![a.publisher] = Append(Recent(a.publisher), clock)]
      /\ UNCHANGED clock
  BY DEF ValidateOk
<1> SUFFICES ASSUME NEW p \in Publishers, NEW t \in Int, t >= clock - Window
             PROVE  Cardinality(AcceptedSince(p, t)') = Cardinality(Since(rateLog'[p], t))
  BY <1>2 DEF LogCounts, Since
<1>3. Cardinality(AcceptedSince(p, t)) = Cardinality(Since(rateLog[p], t))
  BY DEF UpdatesInv, LogCounts
<1>4. CASE p = a.publisher
  <2> DEFINE start == clock - Window
             log == rateLog[p]
  <2>1. start \in Int /\ log \in Seq(Nat) /\ Recent(p) = Retained(log, start) /\ t >= start
    BY <1>1, <1>4 DEF Recent
  <2>2. rateLog'[p] = Append(Recent(p), clock)
    BY <1>1, <1>2, <1>4
  <2> HIDE DEF start, log
  <2>3. /\ Retained(log, start) \in Seq(Nat)
        /\ Cardinality(Since(Retained(log, start), t)) = Cardinality(Since(log, t))
    BY <2>1, RetainedCounts
  <2>4. Cardinality(Since(rateLog'[p], t)) =
          IF clock >= t THEN Cardinality(Since(log, t)) + 1 ELSE Cardinality(Since(log, t))
    BY <1>1, <2>1, <2>2, <2>3, SinceGrows
  <2>5. Cardinality(AcceptedSince(p, t)') =
          IF clock >= t THEN Cardinality(AcceptedSince(p, t)) + 1
          ELSE Cardinality(AcceptedSince(p, t))
    BY <1>4, AcceptedSinceGrows
  <2> QED BY <1>3, <2>4, <2>5 DEF log
<1>5. CASE p # a.publisher
  <2>1. rateLog'[p] = rateLog[p]
    BY <1>1, <1>2, <1>5
  <2>2. Cardinality(AcceptedSince(p, t)') = Cardinality(AcceptedSince(p, t))
    BY <1>5, AcceptedSinceGrows
  <2> QED BY <1>3, <2>1, <2>2
<1> QED BY <1>4, <1>5

LEMMA AcceptanceInOrder ==
    ASSUME UpdatesInv, NEW a \in Announcements, ValidateOk(a)
    PROVE  WasGenuine' /\ KnownIsLast' /\ InOrder'
<1> DEFINE key == <<a.publisher, a.resource>>
           last == knownSequences[key]
<1>1. PICK n \in Nat :
        /\ n = Len(accepted) /\ Len(accepted') = n + 1
        /\ \A i \in 1 .. n : accepted'[i] = accepted[i] /\ accepted[i] \in Acceptances
        /\ accepted'[n + 1] = [a |-> a, at |-> clock]
        /\ 1 .. n + 1 = (1 .. n) \cup {n + 1}
  BY OneMoreAccepted
<1>2. /\ key \in StreamKeys /\ knownSequences \in [StreamKeys -> Nat] /\ last \in Nat
      /\ clock \in Nat /\ a.sequence \in Nat /\ a.timestamp \in Nat /\ MaxDrift \in Nat
      /\ MaxJump \in Nat
  BY UpdateNumbers DEF UpdatesInv, UpdatesTyped, Announcements, StreamKeys
<1>3. /\ a.timestamp <= clock + MaxDrift /\ a.signed /\ a.sequence > last
      /\ last > 0 => a.sequence - last <= MaxJump
      /\ knownSequences' = [knownSequences EXCEPT ![key] = a.sequence]
      /\ clock' = clock
  BY DEF ValidateOk, Acceptable
<1>4. /\ accepted'[n + 1].a = a /\ accepted'[n + 1].at = clock
  BY <1>1
<1>5. \A i \in 1 .. n : accepted[i].a.sequence \in Nat
  BY <1>1 DEF Acceptances, Announcements
<1>6. \A i \in 1 .. n :
        accepted[i].a.publisher = a.publisher /\ accepted[i].a.resource = a.resource
          => accepted[i].a.sequence <= last
  BY <1>1, <1>2 DEF UpdatesInv, KnownIsLast, Heard
<1> HIDE DEF last
<1>7. WasGenuine'
  <2>1. \A i \in 1 .. n : /\ accepted'[i].at <= clock
                          /\ accepted'[i].a.signed /\ accepted'[i].a.sequence > 0
                          /\ accepted'[i].a.timestamp <= accepted'[i].at + MaxDrift
    BY <1>1 DEF UpdatesInv, WasGenuine
  <2>2. a.sequence > 0
    BY <1>2, <1>3
  <2> QED BY <1>1, <1>2, <1>3, <1>4, <2>1, <2>2 DEF WasGenuine
<1>8. KnownIsLast'
  <2> SUFFICES ASSUME NEW k \in StreamKeys
               PROVE  /\ \A i \in 1 .. n + 1 :
                            Heard(i, k)' => accepted'[i].a.sequence <= knownSequences'[k]
                      /\ knownSequences'[k] > 0 =>
                            \E i \in 1 .. n + 1 :
                                Heard(i, k)' /\ accepted'[i].a.sequence = knownSequences'[k]
    BY <1>1 DEF KnownIsLast
  <2>1. Heard(n + 1, k)' <=> k = key
    BY <1>4 DEF Heard, StreamKeys
  <2>2. \A i \in 1 .. n : Heard(i, k)' <=> Heard(i, k)
    BY <1>1 DEF Heard
  <2>3. CASE k = key
    <3>1. knownSequences'[k] = a.sequence
      BY <1>2, <1>3, <2>3
    <3>2. \A i \in 1 .. n : Heard(i, k)' => accepted'[i].a.sequence <= a.sequence
      <4> SUFFICES ASSUME NEW i \in 1 .. n, Heard(i, k)'
                   PROVE  accepted'[i].a.sequence <= a.sequence
        OBVIOUS
      <4>1. accepted[i].a.publisher = a.publisher /\ accepted[i].a.resource = a.resource
        BY <2>2, <2>3 DEF Heard
      <4>2. accepted[i].a.sequence <= last /\ accepted[i].a.sequence \in Nat
        BY <1>5, <1>6, <4>1
      <4>3. accepted'[i].a.sequence = accepted[i].a.sequence
        BY <1>1
      <4> QED BY <1>2, <1>3, <4>2, <4>3
    <3>3. n + 1 \in 1 .. n + 1 /\ a.sequence <= a.sequence
      BY <1>2
    <3> QED BY <1>1, <1>4, <2>1, <2>3, <3>1, <3>2, <3>3
  <2>4. CASE k # key
    <3>1. knownSequences'[k] = knownSequences[k]
      BY <1>2, <1>3, <2>4
    <3>2. /\ \A i \in 1 .. n : Heard(i, k) => accepted[i].a.sequence <= knownSequences[k]
          /\ knownSequences[k] > 0 =>
                \E i \in 1 .. n : Heard(i, k) /\ accepted[i].a.sequence = knownSequences[k]
      BY <1>1 DEF UpdatesInv, KnownIsLast
    <3> QED BY <1>1, <2>1, <2>2, <2>4, <3>1, <3>2
  <2> QED BY <2>3, <2>4
<1>9. InOrder'
  <2>1. \A i, j \in 1 .. n : SameStream(i, j)' <=> SameStream(i, j)
    BY <1>1 DEF SameStream
  <2>2. ASSUME NEW i \in 1 .. n
        PROVE  /\ \A j \in 1 .. i - 1 :
                     SameStream(i, j)' => accepted'[j].a.sequence < accepted'[i].a.sequence
               /\ (\E j \in 1 .. i - 1 : SameStream(i, j)') =>
                     \E j \in 1 .. i - 1 :
                         /\ SameStream(i, j)'
                         /\ accepted'[i].a.sequence - accepted'[j].a.sequence <= MaxJump
    <3>1. \A j \in 1 .. i - 1 : j \in 1 .. n
      OBVIOUS
    <3>2. /\ \A j \in 1 .. i - 1 :
                SameStream(i, j) => accepted[j].a.sequence < accepted[i].a.sequence
          /\ (\E j \in 1 .. i - 1 : SameStream(i, j)) =>
                \E j \in 1 .. i - 1 :
                    SameStream(i, j) /\ accepted[i].a.sequence - accepted[j].a.sequence <= MaxJump
      BY <1>1 DEF UpdatesInv, InOrder
    <3> QED BY <1>1, <2>1, <3>1, <3>2
  <2>3. \A j \in 1 .. n :
          SameStream(n + 1, j)' <=> /\ accepted[j].a.publisher = a.publisher
                                    /\ accepted[j].a.resource = a.resource
    BY <1>1, <1>4 DEF SameStream
  <2>4. \A j \in 1 .. n : SameStream(n + 1, j)' => accepted'[j].a.sequence < a.sequence
    <3> SUFFICES ASSUME NEW j \in 1 .. n, SameStream(n + 1, j)'
                 PROVE  accepted'[j].a.sequence < a.sequence
      OBVIOUS
    <3>1. accepted[j].a.sequence <= last /\ accepted[j].a.sequence \in Nat
      BY <1>5, <1>6, <2>3
    <3> QED BY <1>1, <1>2, <1>3, <3>1
  <2>5. ASSUME NEW j \in 1 .. n, SameStream(n + 1, j)'
        PROVE  \E i \in 1 .. n :
                   SameStream(n + 1, i)' /\ a.sequence - accepted'[i].a.sequence <= MaxJump
    <3>1. accepted[j].a.sequence <= last /\ accepted[j].a.sequence > 0
            /\ accepted[j].a.sequence \in Nat
      BY <1>1, <1>5, <1>6, <2>3, <2>5 DEF UpdatesInv, WasGenuine
    <3>2. last > 0
      BY <1>2, <3>1
    <3>3. PICK i \in 1 .. n : Heard(i, key) /\ accepted[i].a.sequence = last
      BY <1>1, <1>2, <3>2 DEF UpdatesInv, KnownIsLast, last
    <3>4. SameStream(n + 1, i)' /\ accepted'[i].a.sequence = last
      BY <1>1, <2>3, <3>3 DEF Heard
    <3> QED BY <1>3, <3>2, <3>4
  <2>6. 1 .. (n + 1) - 1 = 1 .. n
    OBVIOUS
  <2>7. /\ \A j \in 1 .. (n + 1) - 1 :
              SameStream(n + 1, j)' => accepted'[j].a.sequence < accepted'[n + 1].a.sequence
        /\ (\E j \in 1 .. (n + 1) - 1 : SameStream(n + 1, j)') =>
              \E j \in 1 .. (n + 1) - 1 :
                  /\ SameStream(n + 1, j)'
                  /\ accepted'[n + 1].a.sequence - accepted'[j].a.sequence <= MaxJump
    BY <1>4, <2>4, <2>5, <2>6
  <2> QED BY <1>1, <2>2, <2>7 DEF InOrder
<1> QED BY <1>7, <1>8, <1>9

LEMMA AcceptanceIsRationed ==
    ASSUME UpdatesInv, NEW a \in Announcements, ValidateOk(a)
    PROVE  FewAtATime'
<1> DEFINE p == a.publisher
<1>0. clock \in Nat /\ Window \in Nat
  BY UpdateNumbers DEF UpdatesInv, UpdatesTyped
<1>10. PICK start \in Int : start = clock - Window
  BY <1>0
<1>1. PICK n \in Nat :
        /\ n = Len(accepted) /\ Len(accepted') = n + 1
        /\ \A i \in 1 .. n : accepted'[i] = accepted[i] /\ accepted[i] \in Acceptances
        /\ accepted'[n + 1] = [a |-> a, at |-> clock]
        /\ 1 .. n + 1 = (1 .. n) \cup {n + 1}
  BY OneMoreAccepted
<1>2. /\ clock \in Nat /\ Window \in Nat /\ start \in Int /\ MaxCount \in Nat /\ p \in Publishers
      /\ clock >= start /\ rateLog[p] \in Seq(Nat)
  BY <1>0, <1>10, UpdateNumbers DEF UpdatesInv, UpdatesTyped, Announcements
<1>3. /\ Len(Recent(p)) < MaxCount /\ UNCHANGED clock
      /\ Recent(p) = Retained(rateLog[p], start)
  BY <1>10 DEF ValidateOk, Recent
<1>4. accepted'[n + 1].a.publisher = p /\ accepted'[n + 1].at = clock
  BY <1>1
<1>5. \A i \in 1 .. n : accepted'[i].at <= clock /\ accepted'[i].at \in Nat
  BY <1>1 DEF UpdatesInv, WasGenuine, Acceptances
<1> HIDE DEF p
<1>6. Cardinality(AcceptedSince(p, start)') <= MaxCount
  <2>1. /\ Len(Recent(p)) = Cardinality(Since(rateLog[p], start)) /\ Len(Recent(p)) \in Nat
    <3>1. Recent(p) \in Seq(Nat) /\ Len(Recent(p)) = Cardinality(Since(rateLog[p], start))
      <4>1. start >= start
        BY <1>2
      <4> QED BY <1>2, <1>3, <4>1, RetainedCounts
    <3> QED BY <3>1, LenProperties
  <2>2. Cardinality(AcceptedSince(p, start)) = Cardinality(Since(rateLog[p], start))
    <3>1. start >= clock - Window
      BY <1>0, <1>10
    <3> QED BY <1>2, <3>1 DEF UpdatesInv, LogCounts
  <2>3. Cardinality(AcceptedSince(p, start)') = Cardinality(AcceptedSince(p, start)) + 1
    BY <1>2, AcceptedSinceGrows DEF p
  <2> QED BY <1>2, <1>3, <2>1, <2>2, <2>3
<1>7. Near(p, clock)' = AcceptedSince(p, start)'
  <2>1. \A j \in 1 .. n + 1 : accepted'[j].at \in start .. clock <=> accepted'[j].at >= start
    <3>1. \A j \in 1 .. n : accepted'[j].at \in start .. clock <=> accepted'[j].at >= start
      BY <1>2, <1>5
    <3>2. clock \in start .. clock
      BY <1>2
    <3> QED BY <1>1, <1>2, <1>4, <3>1, <3>2
  <2>2. Near(p, clock)' =
          {j \in 1 .. n + 1 : accepted'[j].a.publisher = p /\ accepted'[j].at \in start .. clock}
    BY <1>1, <1>3, <1>10 DEF Near, p
  <2>3. AcceptedSince(p, start)' =
          {j \in 1 .. n + 1 : accepted'[j].a.publisher = p /\ accepted'[j].at >= start}
    BY <1>1, <1>3 DEF AcceptedSince, p
  <2> QED BY <2>1, <2>2, <2>3
<1>8. ASSUME NEW i \in 1 .. n
      PROVE  Cardinality(Near(accepted[i].a.publisher, accepted[i].at)') <= MaxCount
  <2> DEFINE x == accepted[i]
  <2>1. CASE x.a.publisher = p /\ x.at = clock
    <3>1. Near(x.a.publisher, x.at)' = Near(p, clock)'
      BY <1>1, <1>3, <2>1 DEF Near, p
    <3> QED BY <1>6, <1>7, <3>1
  <2>2. CASE ~(x.a.publisher = p /\ x.at = clock)
    <3>1. x.at \in Nat /\ x.at <= clock /\ x.at - Window \in Int
      BY <1>1, <1>2, <1>5
    <3>2. ~(/\ accepted'[n + 1].a.publisher = x.a.publisher
            /\ accepted'[n + 1].at \in (x.at - Window) .. x.at)
      BY <1>2, <1>4, <2>2, <3>1
    <3>3. accepted'[i] = x
      BY <1>1
    <3>4. Near(x.a.publisher, x.at)' =
            {j \in (1 .. n) \cup {n + 1} : /\ accepted'[j].a.publisher = x.a.publisher
                                           /\ accepted'[j].at \in (x.at - Window) .. x.at}
      BY <1>1, <3>3 DEF Near
    <3>5. Near(x.a.publisher, x.at) =
            {j \in 1 .. n : /\ accepted'[j].a.publisher = x.a.publisher
                            /\ accepted'[j].at \in (x.at - Window) .. x.at}
      BY <1>1 DEF Near
    <3>6. Near(x.a.publisher, x.at)' = Near(x.a.publisher, x.at)
      BY <3>2, <3>4, <3>5
    <3> QED BY <1>1, <3>6 DEF UpdatesInv, FewAtATime
  <2> QED BY <2>1, <2>2
<1>9. ASSUME NEW i \in 1 .. n + 1
      PROVE  Cardinality(Near(accepted[i].a.publisher, accepted[i].at)') <= MaxCount
  <2>1. CASE i \in 1 .. n
    BY <1>8, <2>1
  <2>2. CASE i = n + 1
    <3>1. Near(accepted[i].a.publisher, accepted[i].at)' = Near(p, clock)'
      BY <1>3, <1>4, <2>2 DEF Near, p
    <3> QED BY <1>6, <1>7, <3>1
  <2> QED BY <1>1, <2>1, <2>2
<1> QED BY <1>1, <1>9 DEF FewAtATime

LEMMA ValidateKeeps ==
    ASSUME UpdatesInv, NEW a \in Announcements, Validate(a)
    PROVE  UpdatesInv'
<1>1. CASE ValidateOk(a)
  BY <1>1, OneMoreAccepted, AcceptanceCounts, AcceptanceInOrder, AcceptanceIsRationed
     DEF UpdatesInv
<1> QED BY <1>1, RefusalKeeps DEF Validate

(* What the first source that is up answers is something it was told.       *)
LEMMA LatestIsHeld ==
    ASSUME UpdatesInv, NEW up \in SUBSET Sources, up # {}, NEW r, NEW a \in Latest(up, r)
    PROVE  a \in Announcements
<1> DEFINE first == CHOOSE s \in up : \A q \in up : s <= q
<1>1. \E s \in up : \A q \in up : s <= q
  <2>1. up \subseteq Nat
    BY UpdateNumbers DEF Sources
  <2> QED BY <2>1, LeastOf
<1>2. first \in Sources
  BY <1>1
<1>3. a \in held[first]
  BY Zenon DEF Latest, AllVersions
<1> QED BY <1>2, <1>3 DEF UpdatesInv, UpdatesTyped

LEMMA UpdatesStep == UpdatesInv /\ [UpdatesNext]_updateVars => UpdatesInv'
<1> SUFFICES ASSUME UpdatesInv, [UpdatesNext]_updateVars PROVE UpdatesInv'
  OBVIOUS
<1>1. ASSUME NEW p \in Publishers, NEW r \in Resources, Publish(p, r) PROVE UpdatesInv'
  BY <1>1, PublishKeeps
<1>2. ASSUME NEW r \in Resources, Poll(r) PROVE UpdatesInv'
  <2>1. PICK up \in (SUBSET Sources) \ {{}} : \E a \in Latest(up, r) : Validate(a)
    BY <1>2 DEF Poll
  <2>2. PICK a \in Latest(up, r) : Validate(a)
    BY <2>1
  <2>3. a \in Announcements
    BY LatestIsHeld
  <2> QED BY <2>2, <2>3, ValidateKeeps
<1>3. CASE Gossip
  <2>1. PICK s \in Sources : \E a \in held[s] : Validate(a)
    BY <1>3 DEF Gossip
  <2>2. PICK a \in held[s] : Validate(a)
    BY <2>1
  <2>3. a \in Announcements
    BY DEF UpdatesInv, UpdatesTyped
  <2> QED BY <2>2, <2>3, ValidateKeeps
<1>4. ASSUME NEW p \in Publishers, RevokePublisher(p) PROVE UpdatesInv'
  <2>1. UNCHANGED <<clock, issued, held, knownSequences, rateLog, accepted>>
    BY <1>4 DEF RevokePublisher
  <2>2. UpdatesTyped' /\ clock' >= clock
    BY <2>1 DEF UpdatesInv, UpdatesTyped
  <2> QED BY <2>1, <2>2, NothingJudged
<1>5. CASE Second
  <2>1. UNCHANGED <<issued, held, knownSequences, rateLog, accepted>> /\ clock' = clock + 1
    BY <1>5 DEF Second
  <2>2. UpdatesTyped' /\ clock' >= clock
    BY <2>1 DEF UpdatesInv, UpdatesTyped
  <2> QED BY <2>1, <2>2, NothingJudged
<1>6. CASE UNCHANGED updateVars
  <2>1. UNCHANGED <<clock, issued, held, knownSequences, rateLog, accepted>>
    BY <1>6 DEF updateVars
  <2>2. UpdatesTyped' /\ clock' >= clock
    BY <2>1 DEF UpdatesInv, UpdatesTyped
  <2> QED BY <2>1, <2>2, NothingJudged
<1> QED BY <1>1, <1>2, <1>3, <1>4, <1>5, <1>6 DEF UpdatesNext

LEMMA InvBoundsAccepted == UpdatesInv => AcceptedInBounds
<1> SUFFICES ASSUME UpdatesInv PROVE AcceptedInBounds
  OBVIOUS
<1>1. PICK n \in Nat : n = Len(accepted) /\ DOMAIN accepted = 1 .. n
  <2>1. accepted \in Seq(Acceptances)
    BY DEF UpdatesInv, UpdatesTyped
  <2> QED BY <2>1, LenProperties
<1> SUFFICES ASSUME NEW i \in 1 .. n
             PROVE  LET x == accepted[i]
                        near == {j \in 1 .. n : /\ accepted[j].a.publisher = x.a.publisher
                                                /\ accepted[j].at \in (x.at - Window)..x.at}
                        sooner == {j \in 1..(i - 1) :
                                     /\ accepted[j].a.publisher = x.a.publisher
                                     /\ accepted[j].a.resource = x.a.resource}
                    IN  /\ Cardinality(near) <= MaxCount
                        /\ x.a.signed /\ x.a.timestamp <= x.at + MaxDrift
                        /\ \A j \in sooner : accepted[j].a.sequence < x.a.sequence
                        /\ sooner # {} =>
                              \E j \in sooner : x.a.sequence - accepted[j].a.sequence <= MaxJump
  BY <1>1 DEF AcceptedInBounds
<1> DEFINE x == accepted[i]
           sooner == {j \in 1..(i - 1) : /\ accepted[j].a.publisher = x.a.publisher
                                         /\ accepted[j].a.resource = x.a.resource}
<1>2. Cardinality(Near(x.a.publisher, x.at)) <= MaxCount
  BY <1>1 DEF UpdatesInv, FewAtATime
<1>3. Near(x.a.publisher, x.at) = {j \in 1 .. n : /\ accepted[j].a.publisher = x.a.publisher
                                                  /\ accepted[j].at \in (x.at - Window)..x.at}
  BY <1>1 DEF Near
<1>4. x.a.signed /\ x.a.timestamp <= x.at + MaxDrift
  BY <1>1 DEF UpdatesInv, WasGenuine
<1>5. /\ \A j \in sooner : accepted[j].a.sequence < x.a.sequence
      /\ sooner # {} => \E j \in sooner : x.a.sequence - accepted[j].a.sequence <= MaxJump
  BY <1>1 DEF UpdatesInv, InOrder, SameStream
<1> QED BY <1>2, <1>3, <1>4, <1>5

(* Whatever is announced, replayed, forged or post-dated, and however the   *)
(* clock runs and publishers are revoked, what the validator lets through   *)
(* stays a bounded and orderly stream (AnnouncementValidator::validate).    *)
THEOREM AcceptedHold == UpdatesSpec => []AcceptedInBounds
BY UpdatesStart, UpdatesStep, InvBoundsAccepted, PTL DEF UpdatesSpec
=============================================================================
