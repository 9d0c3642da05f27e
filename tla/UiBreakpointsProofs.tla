------------------------- MODULE UiBreakpointsProofs -------------------------
(***************************************************************************)
(* What UiBreakpoints promises, for all files, lines, lists and bounds.    *)
(***************************************************************************)
EXTENDS UiBreakpoints, FiniteSetTheorems, SequenceTheorems, NaturalsInduction, WellFoundedInduction, TLAPS

-----------------------------------------------------------------------------
(* The inductive invariant. *)

(* A stop the UI will learn of, and the first stop of a new adapter. *)
StopComes == \E i \in DOMAIN events : events[i].kind = "snapshot" /\ events[i].state = "stopped"
EntryComes == \E i \in DOMAIN events : /\ events[i].kind = "snapshot" /\ events[i].state = "stopped"
                                       /\ events[i].stop = Entry

(* How far the launch is, and what waits for it or for the first snapshot.   *)
LaunchSound ==
    /\ launch = "none" => /\ session = "none" /\ events = <<>> /\ ~known /\ sourceBox = {}
                          /\ \A k \in Kinds : boxes[k] = {}
                          /\ \A f \in Files : adapter[f] = {} /\ requests[f] = {}
    /\ launch # "handled" => ~flushed /\ ~restarting /\ command = "none"
    /\ ~known => state = NoState /\ data = {} /\ resolving = {} /\ editingFilter = {}

(* Only a launch tells the UI of a program that runs, and before all else.   *)
RunningIsFirst ==
    \A i \in DOMAIN events :
        events[i].kind = "snapshot" /\ events[i].state = "running" => i = 1 /\ ~known

(* A stop before the lists were flushed is known or on its way. *)
FlushComes ==
    /\ launch = "up" /\ session = "stopped" => state = "stopped" \/ StopComes
    /\ launch = "handled" /\ ~flushed /\ session = "stopped" => StopComes

(* The list of a file is at the adapter, on its way or lost, or a flush will *)
(* send it: the first one after the launch, or that of a stop.               *)
PostsSound == \A post \in sourceBox : post.list = Listing(breakpoints, post.file)

FlushIsDue == launch # "handled" \/ ~flushed \/ StopComes

FileSound(f) ==
    \/ f \in lost
    \/ \E post \in sourceBox : post.file = f
    \/ Agrees(breakpoints, f)
    \/ Listing(breakpoints, f) # {} /\ FlushIsDue

(* The same of the other lists, which a stop sends again only if there are   *)
(* source breakpoints or the UI waits for a restart.                         *)
Current(k) ==
    CASE k = "exception" -> ToldExceptions(exceptions)
      [] k = "function" -> functions
      [] k = "data" -> data

BoxesSound == \A k \in Kinds : boxes[k] \in {{}, {Current(k)}}

KindSound(k) ==
    \/ k \in lost
    \/ boxes[k] # {}
    \/ adapterLists[k] = Current(k)
    \/ launch # "handled" \/ ~flushed
    \/ restarting /\ EntryComes

RestartSound == command = "restart" => restarting \/ \A k \in Kinds : k \in lost \/ boxes[k] # {}

FilesSound == PostsSound /\ \A f \in Files : FileSound(f)
KindsSound == BoxesSound /\ (\A k \in Kinds : KindSound(k)) /\ RestartSound

(* The hits that are told were made when they were told; what the UI shows   *)
(* was made when the event was that it handled last.                         *)
HasCounts(event) == event.kind \in {"snapshot", "results"}

EventSound(event) ==
    /\ HasCounts(event) => \A s \in Sites : seen[s] <= event.passed[s] /\ event.passed[s] <= passes[s]
    /\ event.kind = "snapshot" => \A s \in Sites : event.hits[s] <= event.passed[s]
    /\ event.kind = "results" =>
          \A i \in DOMAIN event.results :
              /\ <<event.file, event.results[i].line>> \in Sites
              /\ event.results[i].count <= event.passed[<<event.file, event.results[i].line>>]

Earlier(first, second) ==
    HasCounts(first) /\ HasCounts(second) => \A s \in Sites : first.passed[s] <= second.passed[s]

EventsSound ==
    /\ \A i \in DOMAIN events : EventSound(events[i])
    /\ \A i, j \in DOMAIN events : i < j => Earlier(events[i], events[j])

PassesSound == \A s \in Sites : seen[s] <= passes[s] /\ hits[s] <= passes[s] /\ passes[s] <= stops

CountsSound ==
    ~misled => \A f \in DOMAIN breakpoints : \A l \in DOMAIN breakpoints[f] :
                   breakpoints[f][l].count <= seen[<<f, l>>]

ListsSound == LaunchSound /\ RunningIsFirst /\ FlushComes /\ FilesSound /\ KindsSound

HitsSound == EventsSound /\ PassesSound /\ CountsSound

IInv == TypeOK /\ ListsSound /\ HitsSound

-----------------------------------------------------------------------------
(* Numbers, sets and sequences. *)

(* A bounded set of numbers has a largest one. *)
LEMMA MaxOfBounded ==
  ASSUME NEW S, S \subseteq Nat, S # {}, NEW n \in Nat, \A s \in S : s <= n
  PROVE  Max(S) \in S /\ \A s \in S : s <= Max(S)
<1> DEFINE R == {n - s : s \in S}
<1>1. \A s \in S : s \in Nat /\ n - s \in Nat
  OBVIOUS
<1>2. R \subseteq Nat /\ R # {}
  BY <1>1
<1>3. PICK r \in R : \A q \in R : <<q, r>> \notin OpToRel(<, Nat)
  <2> HIDE DEF R
  <2> QED BY <1>2, NatLessThanWellFounded, WFMin
<1>4. PICK m \in S : r = n - m
  BY DEF R
<1>5. \A s \in S : ~(n - s < n - m)
  BY <1>1, <1>3, <1>4 DEF OpToRel
<1>6. ASSUME NEW s \in S PROVE s <= m
  <2>1. s \in Nat /\ m \in Nat /\ ~(n - s < n - m)
    BY <1>1, <1>4, <1>5
  <2> QED BY <2>1
<1> QED BY <1>6 DEF Max

(* A finite set as a sequence: it has elements of the set and no other.      *)
LEMMA SetToSeqLists ==
  ASSUME NEW S, IsFiniteSet(S)
  PROVE  SetToSeq(S) \in Seq(S)
<1> DEFINE n == Cardinality(S)
<1> DEFINE q == SetToSeq(S)
<1>1. n \in Nat /\ Bijection(1..n, S) # {}
  BY FS_CardinalityType DEF ExistsBijection
<1>2. PICK f \in Bijection(1..n, S) : TRUE
  BY <1>1
<1>3. f \in [1..n -> S] /\ IsInjective(f)
  BY <1>2 DEF Bijection, Injection
<1>4. q \in [1..n -> S]
  BY <1>3 DEF SetToSeq
<1> QED BY <1>1, <1>4, IsASeq, SeqDef

(* The sequences a queue can become. *)
LEMMA QueuesGrow ==
  ASSUME NEW S, NEW s \in Seq(S)
  PROVE  /\ \A e \in S : Append(s, e) \in Seq(S)
         /\ s # <<>> => Tail(s) \in Seq(S) /\ Head(s) \in S
  BY AppendProperties, HeadTailProperties

(* There are finitely many lines, and the parts of a site are its file and   *)
(* its line.                                                                 *)
LEMMA SitesArePairs ==
  /\ \A s \in Sites : s = <<s[1], s[2]>> /\ s[1] \in Files /\ s[2] \in Lines /\ s[2] \in Nat \ {0}
  /\ \A f, l : <<f, l>> \in Sites => f \in Files /\ l \in Lines
  /\ Lines \subseteq Nat \ {0} /\ IsFiniteSet(Sites) /\ IsFiniteSet(Lines)
  /\ NoSite \notin Sites /\ NoFile \notin Files /\ Files \cap Kinds = {}
<1>1. IsFiniteSet(Sites) /\ Sites \subseteq Files \X Lines /\ Lines \subseteq Nat \ {0}
  BY ParametersAssumption
<1>2. NoFile \notin Files /\ Files \cap Kinds = {}
  BY ParametersAssumption
<1>3. \A s \in Sites : s = <<s[1], s[2]>> /\ s[1] \in Files /\ s[2] \in Lines
  BY <1>1
<1>4. \A f, l : <<f, l>> \in Sites => f \in Files /\ l \in Lines
  BY <1>1
<1>5. NoSite \notin Sites
  BY <1>2, <1>4 DEF NoSite, NoFile
<1>6. IsFiniteSet(Lines)
  <2> DEFINE line == [s \in Sites |-> s[2]]
  <2>1. line \in Surjection(Sites, Lines)
    BY DEF Surjection, Lines
  <2> QED BY <1>1, <2>1, FS_Surjection
<1> QED BY <1>1, <1>2, <1>3, <1>4, <1>5, <1>6

-----------------------------------------------------------------------------
(* The lists of breakpoints. *)

(* A file that has no breakpoints has an empty bucket and nothing to tell.   *)
LEMMA ListingOf ==
  ASSUME NEW all, NEW f
  PROVE  /\ f \in DOMAIN all => Listing(all, f) = {Told(all[f], l) : l \in DOMAIN all[f]}
         /\ f \notin DOMAIN all => Listing(all, f) = {}
<1>1. f \in DOMAIN all => Bucket(all, f) = all[f]
  BY DEF Bucket
<1>2. f \notin DOMAIN all => Bucket(all, f) = <<>>
  BY DEF Bucket
<1>3. DOMAIN <<>> = {}
  OBVIOUS
<1> QED BY <1>1, <1>2, <1>3 DEF Listing

(* What is told of a file is a listing of it. *)
LEMMA ListingTypes ==
  ASSUME NEW all, AreBreakpoints(all), NEW f
  PROVE  /\ Listing(all, f) \in Listings
         /\ \A t \in Listing(all, f) : <<f, t.line>> \in Sites
<1>1. ASSUME f \in DOMAIN all, NEW l \in DOMAIN all[f]
      PROVE  /\ Told(all[f], l) \in [line : Lines, condition : BOOLEAN, hit : BOOLEAN]
             /\ <<f, Told(all[f], l).line>> \in Sites
  <2>1. all[f][l] \in Breakpoint /\ <<f, l>> \in Sites
    BY <1>1 DEF AreBreakpoints
  <2>2. l \in Lines
    BY <2>1, SitesArePairs
  <2> QED BY <2>1, <2>2 DEF Told, Breakpoint
<1>2. CASE f \in DOMAIN all
  <2>1. Listing(all, f) = {Told(all[f], l) : l \in DOMAIN all[f]}
    BY <1>2, ListingOf
  <2>2. ASSUME NEW t \in Listing(all, f)
        PROVE  t \in [line : Lines, condition : BOOLEAN, hit : BOOLEAN] /\ <<f, t.line>> \in Sites
    <3>1. PICK l \in DOMAIN all[f] : t = Told(all[f], l)
      BY <2>1
    <3> QED BY <1>1, <1>2, <3>1
  <2> QED BY <2>2 DEF Listings
<1>3. CASE f \notin DOMAIN all
  BY <1>3, ListingOf DEF Listings
<1> QED BY <1>2, <1>3

(* Two lists that tell the same of a file. *)
SameBucket(a, b, f) ==
    /\ f \in DOMAIN a <=> f \in DOMAIN b
    /\ f \in DOMAIN a => /\ DOMAIN a[f] = DOMAIN b[f]
                         /\ \A l \in DOMAIN a[f] : /\ a[f][l].condition = b[f][l].condition
                                                   /\ a[f][l].hit = b[f][l].hit

(* They do, if they differ in the counts only. *)
LEMMA CountsAreNotTold ==
  ASSUME NEW a, NEW b, NEW f, SameBucket(a, b, f)
  PROVE  Listing(a, f) = Listing(b, f)
<1>1. CASE f \notin DOMAIN a
  BY <1>1, ListingOf DEF SameBucket
<1>2. CASE f \in DOMAIN a
  <2>1. f \in DOMAIN b /\ DOMAIN a[f] = DOMAIN b[f]
    BY <1>2 DEF SameBucket
  <2>2. \A l \in DOMAIN a[f] : Told(a[f], l) = Told(b[f], l)
    BY <1>2 DEF SameBucket, Told
  <2>3. {Told(a[f], l) : l \in DOMAIN a[f]} = {Told(b[f], l) : l \in DOMAIN b[f]}
    BY <2>1, <2>2
  <2> QED BY <1>2, <2>1, <2>3, ListingOf
<1> QED BY <1>1, <1>2

(* A bucket of a list is a function, and its entries are breakpoints.        *)
LEMMA BucketTypes ==
  ASSUME NEW all, AreBreakpoints(all), NEW f
  PROVE  /\ Bucket(all, f) = [l \in DOMAIN Bucket(all, f) |-> Bucket(all, f)[l]]
         /\ \A l \in DOMAIN Bucket(all, f) : <<f, l>> \in Sites /\ Bucket(all, f)[l] \in Breakpoint
<1>1. CASE f \in DOMAIN all
  <2>1. Bucket(all, f) = all[f]
    BY <1>1 DEF Bucket
  <2>2. all[f] = [l \in DOMAIN all[f] |-> all[f][l]]
    BY <1>1 DEF AreBreakpoints
  <2> QED BY <1>1, <2>1, <2>2 DEF AreBreakpoints
<1>2. CASE f \notin DOMAIN all
  <2>1. Bucket(all, f) = <<>>
    BY <1>2 DEF Bucket
  <2> QED BY <2>1
<1> QED BY <1>1, <1>2

(* A file gets another bucket. *)
LEMMA WithTypes ==
  ASSUME NEW all, AreBreakpoints(all), NEW f \in Files, NEW b,
         b = [l \in DOMAIN b |-> b[l]],
         \A l \in DOMAIN b : <<f, l>> \in Sites /\ b[l] \in Breakpoint
  PROVE  /\ AreBreakpoints(With(all, f, b))
         /\ DOMAIN With(all, f, b) = DOMAIN all \cup {f}
         /\ With(all, f, b)[f] = b
         /\ \A g \in DOMAIN all \ {f} : With(all, f, b)[g] = all[g]
         /\ \A g \in Files \ {f} : Listing(With(all, f, b), g) = Listing(all, g)
<1> DEFINE w == With(all, f, b)
<1>1. w = [g \in DOMAIN all \cup {f} |-> IF g = f THEN b ELSE all[g]]
  BY DEF With
<1>2. DOMAIN w = DOMAIN all \cup {f} /\ w[f] = b /\ \A g \in DOMAIN all \ {f} : w[g] = all[g]
  BY <1>1
<1>3. \A g \in DOMAIN w : w[g] = [l \in DOMAIN w[g] |-> w[g][l]]
  BY <1>2 DEF AreBreakpoints
<1>4. w = [g \in DOMAIN w |-> w[g]]
  BY <1>1
<1>5. w = [g \in DOMAIN w |-> [l \in DOMAIN w[g] |-> w[g][l]]]
  <2> HIDE DEF w
  <2> QED BY <1>3, <1>4
<1>6. \A g \in DOMAIN w : \A l \in DOMAIN w[g] : <<g, l>> \in Sites /\ w[g][l] \in Breakpoint
  BY <1>2 DEF AreBreakpoints
<1>7. AreBreakpoints(w)
  BY <1>2, <1>5, <1>6 DEF AreBreakpoints
<1>8. \A g \in Files \ {f} : Listing(w, g) = Listing(all, g)
  <2>1. \A g \in Files \ {f} : SameBucket(w, all, g)
    BY <1>2 DEF SameBucket
  <2> QED BY <2>1, CountsAreNotTold
<1> QED BY <1>2, <1>7, <1>8

(* A line gets an entry. *)
LEMMA WithLineTypes ==
  ASSUME NEW b, NEW f, NEW l, <<f, l>> \in Sites, NEW entry \in Breakpoint,
         \A m \in DOMAIN b : <<f, m>> \in Sites /\ b[m] \in Breakpoint
  PROVE  LET w == WithLine(b, l, entry) IN
         /\ w = [m \in DOMAIN w |-> w[m]]
         /\ DOMAIN w = DOMAIN b \cup {l}
         /\ w[l] = entry /\ \A m \in DOMAIN b \ {l} : w[m] = b[m]
         /\ \A m \in DOMAIN w : <<f, m>> \in Sites /\ w[m] \in Breakpoint
  BY DEF WithLine

(* The breakpoint of a line is another one. *)
Changes(all, f, l, entry, r) == r = [all EXCEPT ![f][l] = entry]

(* The others stay as they are. *)
LEMMA EntryChanges ==
  ASSUME NEW all, AreBreakpoints(all), NEW f \in DOMAIN all, NEW l \in DOMAIN all[f], NEW entry \in Breakpoint,
         NEW r, Changes(all, f, l, entry, r)
  PROVE  /\ AreBreakpoints(r)
         /\ DOMAIN r = DOMAIN all /\ \A g \in DOMAIN all : DOMAIN r[g] = DOMAIN all[g]
         /\ r[f][l] = entry
         /\ \A g \in DOMAIN all : \A m \in DOMAIN all[g] : <<g, m>> # <<f, l>> => r[g][m] = all[g][m]
         /\ \A g : g # f => Listing(r, g) = Listing(all, g)
<1> DEFINE b == [all[f] EXCEPT ![l] = entry]
<1>1. all = [g \in DOMAIN all |-> all[g]] /\ \A g \in DOMAIN all : all[g] = [m \in DOMAIN all[g] |-> all[g][m]]
  BY DEF AreBreakpoints
<1>2. DOMAIN b = DOMAIN all[f] /\ b[l] = entry /\ b = [m \in DOMAIN b |-> b[m]]
  BY <1>1
<1>3. \A m \in DOMAIN all[f] : m # l => b[m] = all[f][m]
  BY <1>1
<1>4. r = [g \in DOMAIN all |-> IF g = f THEN b ELSE all[g]]
  BY <1>1 DEF Changes
<1> HIDE DEF b
<1>5. DOMAIN r = DOMAIN all /\ r[f] = b /\ \A g \in DOMAIN all : g # f => r[g] = all[g]
  BY <1>4
<1>6. \A g \in DOMAIN r : r[g] = [m \in DOMAIN r[g] |-> r[g][m]]
  BY <1>1, <1>2, <1>5
<1>7. r = [g \in DOMAIN r |-> [m \in DOMAIN r[g] |-> r[g][m]]]
  BY <1>4, <1>5, <1>6
<1>8. \A g \in DOMAIN r : \A m \in DOMAIN r[g] : <<g, m>> \in Sites /\ r[g][m] \in Breakpoint
  BY <1>2, <1>3, <1>5 DEF AreBreakpoints
<1>9. AreBreakpoints(r)
  BY <1>5, <1>7, <1>8 DEF AreBreakpoints
<1>10. \A g : g # f => Listing(r, g) = Listing(all, g)
  <2>1. \A g : g # f => SameBucket(r, all, g)
    BY <1>5 DEF SameBucket
  <2> QED BY <2>1, CountsAreNotTold
<1>11. \A g \in DOMAIN all : \A m \in DOMAIN all[g] : <<g, m>> # <<f, l>> => r[g][m] = all[g][m]
  BY <1>3, <1>5
<1>12. \A g \in DOMAIN all : DOMAIN r[g] = DOMAIN all[g]
  BY <1>2, <1>5
<1>13. r[f][l] = entry
  BY <1>2, <1>5
<1> QED BY <1>5, <1>9, <1>10, <1>11, <1>12, <1>13

(* A breakpoint is removed, and the file with its last one.                  *)
LEMMA RemovedTypes ==
  ASSUME NEW all, AreBreakpoints(all), NEW f, NEW l
  PROVE  /\ AreBreakpoints(Removed(all, f, l))
         /\ \A g \in DOMAIN Removed(all, f, l) :
               /\ g \in DOMAIN all
               /\ \A m \in DOMAIN Removed(all, f, l)[g] :
                     m \in DOMAIN all[g] /\ Removed(all, f, l)[g][m] = all[g][m]
         /\ \A g : g # f => Listing(Removed(all, f, l), g) = Listing(all, g)
<1> DEFINE r == Removed(all, f, l)
<1>1. CASE l \notin DOMAIN Bucket(all, f)
  <2>1. r = all
    BY <1>1 DEF Removed
  <2> QED BY <2>1
<1>2. CASE l \in DOMAIN Bucket(all, f) /\ DOMAIN Bucket(all, f) = {l}
  <2>1. r = Restrict(all, DOMAIN all \ {f})
    BY <1>2 DEF Removed
  <2>2. r = [g \in DOMAIN all \ {f} |-> all[g]]
    BY <2>1 DEF Restrict
  <2>3. \A g \in DOMAIN all : all[g] = [m \in DOMAIN all[g] |-> all[g][m]]
    BY DEF AreBreakpoints
  <2> HIDE DEF r
  <2>4. DOMAIN r = DOMAIN all \ {f} /\ \A g \in DOMAIN r : r[g] = all[g]
    BY <2>2
  <2>5. r = [g \in DOMAIN r |-> [m \in DOMAIN r[g] |-> r[g][m]]]
    BY <2>2, <2>3, <2>4
  <2>6. AreBreakpoints(r)
    BY <2>4, <2>5 DEF AreBreakpoints
  <2>7. \A g : g # f => SameBucket(r, all, g)
    BY <2>4 DEF SameBucket
  <2>8. \A g : g # f => Listing(r, g) = Listing(all, g)
    BY <2>7, CountsAreNotTold
  <2> QED BY <2>4, <2>6, <2>8 DEF r
<1>3. CASE l \in DOMAIN Bucket(all, f) /\ DOMAIN Bucket(all, f) # {l}
  <2>1. f \in DOMAIN all /\ Bucket(all, f) = all[f]
    <3>1. DOMAIN <<>> = {}
      OBVIOUS
    <3> QED BY <1>3, <3>1 DEF Bucket
  <2> DEFINE b == [m \in DOMAIN all[f] \ {l} |-> all[f][m]]
  <2>2. r = [all EXCEPT ![f] = b]
    BY <1>3, <2>1 DEF Removed, Restrict
  <2>3. all = [g \in DOMAIN all |-> all[g]] /\ \A g \in DOMAIN all : all[g] = [m \in DOMAIN all[g] |-> all[g][m]]
    BY DEF AreBreakpoints
  <2>4. DOMAIN b = DOMAIN all[f] \ {l} /\ \A m \in DOMAIN b : b[m] = all[f][m]
    OBVIOUS
  <2>5. b = [m \in DOMAIN b |-> b[m]]
    OBVIOUS
  <2> HIDE DEF b, r
  <2>6. r = [g \in DOMAIN all |-> IF g = f THEN b ELSE all[g]]
    BY <2>2, <2>3
  <2>7. DOMAIN r = DOMAIN all /\ r[f] = b /\ \A g \in DOMAIN all : g # f => r[g] = all[g]
    BY <2>1, <2>6
  <2>8. \A g \in DOMAIN r : r[g] = [m \in DOMAIN r[g] |-> r[g][m]]
    BY <2>3, <2>5, <2>7
  <2>9. r = [g \in DOMAIN r |-> [m \in DOMAIN r[g] |-> r[g][m]]]
    BY <2>6, <2>7, <2>8
  <2>10. \A g \in DOMAIN r : \A m \in DOMAIN r[g] : m \in DOMAIN all[g] /\ r[g][m] = all[g][m]
    BY <2>4, <2>7
  <2>11. AreBreakpoints(r)
    BY <2>7, <2>9, <2>10 DEF AreBreakpoints
  <2>12. \A g : g # f => SameBucket(r, all, g)
    BY <2>7 DEF SameBucket
  <2>13. \A g : g # f => Listing(r, g) = Listing(all, g)
    BY <2>12, CountsAreNotTold
  <2> QED BY <2>7, <2>10, <2>11, <2>13 DEF r
<1> QED BY <1>1, <1>2, <1>3

-----------------------------------------------------------------------------
(* Files and places. *)

(* A file is found among those that have breakpoints, or not at all.         *)
LEMMA FindTypes ==
  ASSUME NEW all, AreBreakpoints(all), NEW f
  PROVE  /\ Find(all, f) = NoFile \/ Find(all, f) \in DOMAIN all
         /\ f \in DOMAIN all => Find(all, f) = f
         /\ f \in Files => Target(all, f) \in Files
         /\ Target(all, f) # f => f \notin DOMAIN all
<1>1. DOMAIN all \subseteq Files /\ NoFile \notin Files
  BY SitesArePairs DEF AreBreakpoints
<1>2. Find(all, f) = NoFile \/ Find(all, f) \in DOMAIN all
  BY DEF Find
<1>3. f \in DOMAIN all => Find(all, f) = f
  BY DEF Find
<1>4. f \in DOMAIN all => Target(all, f) = f
  BY <1>1, <1>3 DEF Target
<1>5. f \in Files => Target(all, f) \in Files
  BY <1>1, <1>2 DEF Target
<1> QED BY <1>2, <1>3, <1>4, <1>5

(* The nearest of some lines is one of them. *)
LEMMA NearestLine ==
  ASSUME NEW S, S \subseteq Nat, S # {}, NEW line \in Nat
  PROVE  Nearest(S, line) \in S
<1> DEFINE R == {Distance(l, line) : l \in S}
<1>1. \A l \in S : Distance(l, line) \in Nat
  BY DEF Distance
<1>2. R \subseteq Nat /\ R # {}
  BY <1>1
<1>3. PICK r \in R : \A q \in R : <<q, r>> \notin OpToRel(<, Nat)
  <2> HIDE DEF R
  <2> QED BY <1>2, NatLessThanWellFounded, WFMin
<1>4. PICK m \in S : r = Distance(m, line)
  BY DEF R
<1>5. ASSUME NEW l \in S PROVE Distance(m, line) <= Distance(l, line)
  <2>1. Distance(l, line) \in Nat /\ Distance(m, line) \in Nat /\ Distance(l, line) \in R
    BY <1>1, <1>4
  <2>2. ~(Distance(l, line) < Distance(m, line))
    <3> HIDE DEF R
    <3> QED BY <1>3, <1>4, <2>1 DEF OpToRel
  <2> QED BY <2>1, <2>2
<1> QED BY <1>5 DEF Nearest

(* The breakpoint of a stop is one of the list. *)
LEMMA MeantIsThere ==
  ASSUME NEW all, AreBreakpoints(all), NEW f, NEW line \in Nat
  PROVE  \/ Meant(all, f, line) = NoSite
         \/ \E g \in DOMAIN all : \E l \in DOMAIN all[g] : Meant(all, f, line) = <<g, l>>
<1> DEFINE g == Find(all, f)
<1>1. CASE g = NoFile
  BY <1>1 DEF Meant
<1>2. CASE g # NoFile
  <2>1. g \in DOMAIN all
    BY <1>2, FindTypes
  <2>2. DOMAIN all[g] \subseteq Nat \ {0}
    BY <2>1, SitesArePairs DEF AreBreakpoints
  <2> DEFINE b == all[g]
  <2> DEFINE conditional == Near({l \in DOMAIN b : b[l].hit}, line)
  <2> DEFINE near == Near(DOMAIN b, line)
  <2>3. conditional \subseteq DOMAIN b /\ near \subseteq DOMAIN b
    BY DEF Near
  <2>4. conditional # {} => Nearest(conditional, line) \in DOMAIN b
    <3> HIDE DEF conditional, near, b
    <3> QED BY <2>2, <2>3, NearestLine DEF b
  <2>5. near # {} => Nearest(near, line) \in DOMAIN b
    <3> HIDE DEF conditional, near, b
    <3> QED BY <2>2, <2>3, NearestLine DEF b
  <2>6. LineAtStop(b, line) = 0 \/ LineAtStop(b, line) \in DOMAIN b
    BY <2>4, <2>5 DEF LineAtStop
  <2> QED BY <1>2, <2>1, <2>6 DEF Meant
<1> QED BY <1>1, <1>2

-----------------------------------------------------------------------------
(* Counts. *)

(* Counts that came back, each at most n. *)
Bounded(entries, n) ==
    /\ \E m \in Nat : DOMAIN entries \subseteq 1..m
    /\ \A i \in DOMAIN entries : entries[i].count \in 0..n

(* A breakpoint gets one of the counts it is given, or keeps its own.        *)
LEMMA CountIsGiven ==
  ASSUME NEW b \in Breakpoint, NEW entries, NEW n \in Nat, Bounded(entries, n), NEW given \in SUBSET DOMAIN entries
  PROVE  /\ NewCount(b, entries, given) \in Nat
         /\ \/ NewCount(b, entries, given) = b.count
            \/ \E i \in given : NewCount(b, entries, given) = entries[i].count
         /\ given = {} => NewCount(b, entries, given) = b.count
<1>1. b.count \in Nat
  BY DEF Breakpoint
<1>2. CASE given = {}
  BY <1>1, <1>2 DEF NewCount
<1>3. CASE given # {} /\ b.hit
  <2>1. PICK m \in Nat : DOMAIN entries \subseteq 1..m
    BY DEF Bounded
  <2>2. given \subseteq Nat /\ \A i \in given : i <= m
    BY <2>1
  <2>3. Max(given) \in given
    BY <1>3, <2>2, MaxOfBounded
  <2>4. entries[Max(given)].count \in Nat
    BY <2>3 DEF Bounded
  <2> QED BY <1>3, <2>3, <2>4 DEF NewCount
<1>4. CASE given # {} /\ ~b.hit
  <2> DEFINE S == {b.count} \cup {entries[i].count : i \in given}
  <2>1. \A i \in given : entries[i].count \in Nat /\ entries[i].count <= n
    BY DEF Bounded
  <2>2. S \subseteq Nat /\ S # {}
    BY <1>1, <2>1
  <2>3. \A s \in S : s <= n + b.count
    BY <1>1, <2>1
  <2>4. n + b.count \in Nat
    BY <1>1
  <2>5. Max(S) \in S
    <3> HIDE DEF S
    <3> QED BY <2>2, <2>3, <2>4, MaxOfBounded
  <2>6. NewCount(b, entries, given) = Max(S)
    BY <1>4 DEF NewCount
  <2>7. Max(S) \in Nat /\ (Max(S) = b.count \/ \E i \in given : Max(S) = entries[i].count)
    BY <2>2, <2>5
  <2> QED BY <1>4, <2>6, <2>7
<1> QED BY <1>2, <1>3, <1>4

(* Counts change nothing else of the breakpoints. *)
LEMMA ApplyHitsTypes ==
  ASSUME NEW all, AreBreakpoints(all), NEW entries, NEW n \in Nat, Bounded(entries, n)
  PROVE  /\ AreBreakpoints(ApplyHits(all, entries))
         /\ DOMAIN ApplyHits(all, entries) = DOMAIN all
         /\ \A f \in DOMAIN all :
               /\ DOMAIN ApplyHits(all, entries)[f] = DOMAIN all[f]
               /\ \A l \in DOMAIN all[f] :
                     \/ ApplyHits(all, entries)[f][l].count = all[f][l].count
                     \/ \E i \in Given(all, entries, <<f, l>>) :
                           ApplyHits(all, entries)[f][l].count = entries[i].count
         /\ \A g : Listing(ApplyHits(all, entries), g) = Listing(all, g)
<1> DEFINE r == ApplyHits(all, entries)
<1> DEFINE Changed(f, l) == [all[f][l] EXCEPT !.count = NewCount(all[f][l], entries, Given(all, entries, <<f, l>>))]
<1>1. r = [f \in DOMAIN all |-> [l \in DOMAIN all[f] |-> Changed(f, l)]]
  BY DEF ApplyHits
<1>2. ASSUME NEW f \in DOMAIN all, NEW l \in DOMAIN all[f]
      PROVE  /\ Changed(f, l) \in Breakpoint
             /\ Changed(f, l).condition = all[f][l].condition /\ Changed(f, l).hit = all[f][l].hit
             /\ \/ Changed(f, l).count = all[f][l].count
                \/ \E i \in Given(all, entries, <<f, l>>) : Changed(f, l).count = entries[i].count
  <2>1. all[f][l] \in Breakpoint
    BY <1>2 DEF AreBreakpoints
  <2> DEFINE given == Given(all, entries, <<f, l>>)
  <2>2. given \in SUBSET DOMAIN entries
    BY DEF Given
  <2> HIDE DEF given
  <2>3. /\ NewCount(all[f][l], entries, given) \in Nat
        /\ \/ NewCount(all[f][l], entries, given) = all[f][l].count
           \/ \E i \in given : NewCount(all[f][l], entries, given) = entries[i].count
    BY <2>1, <2>2, CountIsGiven
  <2> QED BY <2>1, <2>3 DEF Breakpoint, given
<1> HIDE DEF r, Changed
<1>3. DOMAIN r = DOMAIN all /\ \A f \in DOMAIN all : r[f] = [l \in DOMAIN all[f] |-> Changed(f, l)]
  BY <1>1
<1>4. \A f \in DOMAIN all : DOMAIN r[f] = DOMAIN all[f] /\ \A l \in DOMAIN all[f] : r[f][l] = Changed(f, l)
  BY <1>3
<1>5. r = [f \in DOMAIN r |-> [l \in DOMAIN r[f] |-> r[f][l]]]
  <2>1. \A f \in DOMAIN r : r[f] = [l \in DOMAIN r[f] |-> r[f][l]]
    BY <1>3, <1>4
  <2>2. r = [f \in DOMAIN r |-> r[f]]
    BY <1>1
  <2> QED BY <2>1, <2>2
<1>6. ASSUME NEW f \in DOMAIN r, NEW l \in DOMAIN r[f] PROVE <<f, l>> \in Sites /\ r[f][l] \in Breakpoint
  <2>1. f \in DOMAIN all
    BY <1>3
  <2>2. l \in DOMAIN all[f] /\ r[f][l] = Changed(f, l)
    BY <1>4, <2>1
  <2>3. <<f, l>> \in Sites
    BY <2>1, <2>2 DEF AreBreakpoints
  <2> QED BY <1>2, <2>1, <2>2, <2>3
<1>7. AreBreakpoints(r)
  BY <1>3, <1>5, <1>6 DEF AreBreakpoints
<1>8. ASSUME NEW g PROVE SameBucket(r, all, g)
  <2>1. CASE g \notin DOMAIN all
    BY <1>3, <2>1 DEF SameBucket
  <2>2. CASE g \in DOMAIN all
    <3>1. DOMAIN r[g] = DOMAIN all[g] /\ \A l \in DOMAIN all[g] : r[g][l] = Changed(g, l)
      BY <1>4, <2>2
    <3>2. \A l \in DOMAIN all[g] : r[g][l].condition = all[g][l].condition /\ r[g][l].hit = all[g][l].hit
      BY <1>2, <2>2, <3>1
    <3> QED BY <1>3, <2>2, <3>1, <3>2 DEF SameBucket
  <2> QED BY <2>1, <2>2
<1>9. \A g : Listing(r, g) = Listing(all, g)
  BY <1>8, CountsAreNotTold
<1>10. \A f \in DOMAIN all : \A l \in DOMAIN all[f] :
          \/ r[f][l].count = all[f][l].count
          \/ \E i \in Given(all, entries, <<f, l>>) : r[f][l].count = entries[i].count
  BY <1>2, <1>4
<1> QED BY <1>3, <1>4, <1>7, <1>9, <1>10 DEF r

(* Unless one of them misleads, the counts a breakpoint is given are its own.*)
LEMMA GivenAreOf ==
  ASSUME NEW all, NEW entries, ~Mislead(all, entries), NEW site \in Sites, NEW i \in Given(all, entries, site)
  PROVE  i \in DOMAIN entries /\ entries[i].of = site /\ entries[i].count > 0
<1>1. site # NoSite
  BY SitesArePairs
<1> QED BY <1>1 DEF Given, Mislead

(* The counts of a snapshot: those of sites that have some. *)
LEMMA SnapshotHitsTypes ==
  ASSUME NEW counts \in PerSite
  PROVE  /\ \E m \in Nat : DOMAIN SnapshotHits(counts) \subseteq 1..m
         /\ \A i \in DOMAIN SnapshotHits(counts) :
               /\ SnapshotHits(counts)[i].of \in Sites
               /\ SnapshotHits(counts)[i].count = counts[SnapshotHits(counts)[i].of]
<1> DEFINE S == {t \in Sites : counts[t] > 0}
<1> DEFINE T == {Hit(s[1], s[2], s, counts[s]) : s \in S}
<1> DEFINE q == SetToSeq(T)
<1>1. IsFiniteSet(S)
  BY SitesArePairs, FS_Subset
<1>2. IsFiniteSet(T)
  <2> DEFINE h == [s \in S |-> Hit(s[1], s[2], s, counts[s])]
  <2>1. h \in Surjection(S, T)
    BY DEF Surjection
  <2> HIDE DEF S, T, h
  <2> QED BY <1>1, <2>1, FS_Surjection
<1>3. q \in Seq(T)
  <2> HIDE DEF T
  <2> QED BY <1>2, SetToSeqLists
<1>4. SnapshotHits(counts) = q
  BY DEF SnapshotHits
<1> HIDE DEF q
<1>5. Len(q) \in Nat /\ DOMAIN q = 1..Len(q) /\ \A i \in DOMAIN q : q[i] \in T
  <2> HIDE DEF T
  <2> QED BY <1>3
<1>6. \A t \in T : t.of \in Sites /\ t.count = counts[t.of]
  BY DEF Hit
<1> HIDE DEF T
<1> QED BY <1>4, <1>5, <1>6

(* The counts that come back with an answer, given to lines in their order   *)
(* and by their lines.                                                       *)
LEMMA ResultTypes ==
  ASSUME NEW results, results \in Seq([line : Lines, count : Nat])
  PROVE  /\ Len(results) \in Nat /\ DOMAIN results = 1..Len(results)
         /\ \A i \in DOMAIN results : results[i].count \in Nat /\ results[i].line \in Lines
<1>1. Len(results) \in Nat /\ DOMAIN results = 1..Len(results)
  OBVIOUS
<1>2. \A i \in DOMAIN results : results[i] \in [line : Lines, count : Nat]
  BY <1>1, ElementOfSeq
<1> QED BY <1>1, <1>2

(* Counts that are those of an answer, each of the breakpoint it was told    *)
(* for.                                                                      *)
OfResults(entries, event) ==
    /\ \E m \in Nat : DOMAIN entries \subseteq 1..m
    /\ \A i \in DOMAIN entries :
          /\ i \in DOMAIN event.results
          /\ entries[i].of = <<event.file, event.results[i].line>>
          /\ entries[i].count = event.results[i].count

(* The first kind. *)
LEMMA ByPlaceTypes ==
  ASSUME NEW all, NEW f, NEW event, event.results \in Seq([line : Lines, count : Nat])
  PROVE  OfResults(ByPlace(all, f, event), event)
<1> DEFINE q == ByPlace(all, f, event)
<1> DEFINE lines == CHOOSE p \in InOrder(DOMAIN all[f]) : TRUE
<1> DEFINE D == {j \in DOMAIN event.results : j <= Cardinality(DOMAIN all[f])}
<1>1. q = [i \in D |-> Hit(f, lines[i], <<event.file, event.results[i].line>>, event.results[i].count)]
  BY DEF ByPlace
<1>2. Len(event.results) \in Nat /\ D \subseteq 1..Len(event.results) /\ D \subseteq DOMAIN event.results
  BY ResultTypes
<1> HIDE DEF q, lines, D
<1>3. DOMAIN q = D
  BY <1>1
<1>4. \A i \in D : q[i].of = <<event.file, event.results[i].line>> /\ q[i].count = event.results[i].count
  BY <1>1 DEF Hit
<1> QED BY <1>2, <1>3, <1>4 DEF q, OfResults

(* The second kind. *)
LEMMA ByLineTypes ==
  ASSUME NEW f, NEW event, event.results \in Seq([line : Lines, count : Nat])
  PROVE  OfResults(ByLine(f, event), event)
<1> DEFINE q == ByLine(f, event)
<1>1. DOMAIN q = DOMAIN event.results
  BY DEF ByLine
<1>2. Len(event.results) \in Nat /\ DOMAIN event.results = 1..Len(event.results)
  BY ResultTypes
<1>3. \A i \in DOMAIN event.results :
         q[i].of = <<event.file, event.results[i].line>> /\ q[i].count = event.results[i].count
  BY DEF ByLine, Hit
<1> HIDE DEF q
<1> QED BY <1>1, <1>2, <1>3 DEF q, OfResults

-----------------------------------------------------------------------------
(* Types. *)

(* The type invariant in groups, one variable to a conjunct.                 *)
Posts == [file : Files, list : Listings]
WordTypes ==
    /\ launch \in {"none", "up", "handled"} /\ state \in {NoState, "running", "stopped"}
    /\ command \in Commands \cup {"none"} /\ session \in {"none", "running", "stopped"}
    /\ known \in BOOLEAN /\ flushed \in BOOLEAN /\ restarting \in BOOLEAN /\ inCatch \in BOOLEAN
    /\ misled \in BOOLEAN
    /\ edits \in Nat /\ commands \in Nat /\ stops \in Nat
ListTypes ==
    /\ AreBreakpoints(breakpoints) /\ exceptions \in [Items -> [enabled : BOOLEAN, condition : BOOLEAN]]
    /\ functions \subseteq Items /\ data \subseteq Items
PlaceTypes ==
    /\ AtMostOne(resolving, Items) /\ AtMostOne(infoBox, Items) /\ AtMostOne(editingFilter, Items)
    /\ AtMostOne(lastCounted, Sites)
    /\ AtMostOne(catchSkip, [file : Files, line : Lines, added : BOOLEAN])
    /\ AtMostOne(editing, [file : Files, line : Lines, hit : BOOLEAN])
MailTypes ==
    /\ AtMostOne(sourceBox, Posts) /\ lost \subseteq Files \cup Kinds
    /\ boxes \in [Kinds -> SUBSET KindLists]
EventTypes == events \in Seq(Events)
AdapterTypes ==
    /\ stopped \in PlacesOfStops
    /\ requests \in [Files -> Listings] /\ adapter \in [Files -> Listings] /\ adapterLists \in [Kinds -> KindLists]
    /\ hits \in PerSite /\ passes \in PerSite /\ seen \in PerSite

(* They are the type invariant. *)
LEMMA TypesByGroup ==
  TypeOK <=> WordTypes /\ ListTypes /\ PlaceTypes /\ MailTypes /\ EventTypes /\ AdapterTypes
<1>1. {known, flushed, restarting, inCatch, misled} \subseteq BOOLEAN
      <=> /\ known \in BOOLEAN /\ flushed \in BOOLEAN /\ restarting \in BOOLEAN /\ inCatch \in BOOLEAN
          /\ misled \in BOOLEAN
  BY Zenon
<1>2. {hits, passes, seen} \subseteq PerSite <=> hits \in PerSite /\ passes \in PerSite /\ seen \in PerSite
  BY Zenon
<1>3. {edits, commands, stops} \subseteq Nat <=> edits \in Nat /\ commands \in Nat /\ stops \in Nat
  BY Zenon
<1>4. functions \cup data \subseteq Items <=> functions \subseteq Items /\ data \subseteq Items
  BY Zenon
<1> QED
  BY <1>1, <1>2, <1>3, <1>4, Zenon DEF TypeOK, WordTypes, ListTypes, PlaceTypes, MailTypes,
         EventTypes, AdapterTypes,
     Posts

(* The same of the next state. *)
LEMMA NextTypesByGroup ==
  TypeOK' <=> WordTypes' /\ ListTypes' /\ PlaceTypes' /\ MailTypes' /\ EventTypes' /\ AdapterTypes'
  BY TypesByGroup, PTL

(* What is posted has its type. *)
LEMMA PushTypes ==
  ASSUME NEW all, AreBreakpoints(all), NEW files \in SUBSET Files, MailTypes, Push(all, files)
  PROVE  AtMostOne(sourceBox, Posts)' /\ (lost \subseteq Files \cup Kinds)'
<1>1. CASE files = {} \/ ~IsActive
  BY <1>1 DEF Push, MailTypes, AtMostOne
<1>2. CASE ~(files = {} \/ ~IsActive)
  <2>1. PICK last \in files :
           /\ sourceBox' = {[file |-> Target(all, last), list |-> Listing(all, Target(all, last))]}
           /\ lost' = {x \in lost \cup files \cup {post.file : post \in sourceBox} :
                          x # Target(all, last) /\ (x \in Files => ~Agrees(all, x))}
    BY <1>2 DEF Push
  <2>2. Target(all, last) \in Files
    BY FindTypes
  <2>3. [file |-> Target(all, last), list |-> Listing(all, Target(all, last))] \in Posts
    BY <2>2, ListingTypes DEF Posts
  <2>4. AtMostOne(sourceBox, Posts)'
    BY <2>1, <2>3 DEF AtMostOne
  <2>5. {post.file : post \in sourceBox} \subseteq Files
    BY DEF MailTypes, AtMostOne, Posts
  <2>6. lost' \subseteq Files \cup Kinds
    BY <2>1, <2>5 DEF MailTypes
  <2> QED BY <2>4, <2>6
<1> QED BY <1>1, <1>2

(* The lists of the other kinds. *)
LEMMA KindListTypes ==
  /\ \A entries \in [Items -> [enabled : BOOLEAN, condition : BOOLEAN]] : ToldExceptions(entries) \in KindLists
  /\ \A S \in SUBSET Items : S \in KindLists
  /\ {} \in KindLists
<1>1. ASSUME NEW entries \in [Items -> [enabled : BOOLEAN, condition : BOOLEAN]]
      PROVE  ToldExceptions(entries) \in KindLists
  <2>1. \A x \in Items : [filter |-> x, condition |-> entries[x].condition] \in [filter : Items, condition : BOOLEAN]
    OBVIOUS
  <2>2. ToldExceptions(entries) \subseteq [filter : Items, condition : BOOLEAN]
    BY <2>1 DEF ToldExceptions
  <2> QED BY <2>2 DEF KindLists
<1> QED BY <1>1 DEF KindLists

(* One of them is posted. *)
LEMMA PushKindTypes ==
  ASSUME NEW k \in Kinds, NEW list \in KindLists, MailTypes, PushKind(k, list)
  PROVE  (boxes \in [Kinds -> SUBSET KindLists])' /\ (lost \subseteq Files \cup Kinds)'
  BY DEF PushKind, MailTypes

(* All lists are posted. *)
LEMMA FlushTypes ==
  ASSUME NEW all, AreBreakpoints(all), NEW filters \in [Items -> [enabled : BOOLEAN, condition : BOOLEAN]],
         NEW before \in SUBSET Files, MailTypes, ListTypes, Flush(all, filters, before)
  PROVE  MailTypes'
<1>1. boxes' \in [Kinds -> SUBSET KindLists]
  <2>1. boxes' = [k \in Kinds |-> CASE k = "exception" -> {ToldExceptions(filters)}
                                    [] k = "function" -> {functions}
                                    [] k = "data" -> {data}]
    BY DEF Flush
  <2>2. {ToldExceptions(filters)} \in SUBSET KindLists /\ {functions} \in SUBSET KindLists
        /\ {data} \in SUBSET KindLists
    BY KindListTypes DEF ListTypes
  <2> QED BY <2>1, <2>2 DEF Kinds
<1>2. CASE DOMAIN all = {}
  <2>1. Push(all, before)
    BY <1>2 DEF Flush
  <2> QED BY <1>1, <2>1, PushTypes DEF MailTypes
<1>3. CASE DOMAIN all # {}
  <2>1. PICK last \in DOMAIN all :
           /\ sourceBox' = {[file |-> last, list |-> Listing(all, last)]}
           /\ lost' = {x \in lost \cup before \cup DOMAIN all \cup {post.file : post \in sourceBox} :
                          x \in Files \ {last} /\ ~Agrees(all, x)}
    BY <1>3 DEF Flush
  <2>2. last \in Files
    BY DEF AreBreakpoints
  <2>3. [file |-> last, list |-> Listing(all, last)] \in Posts
    BY <2>2, ListingTypes DEF Posts
  <2>4. AtMostOne(sourceBox, Posts)'
    BY <2>1, <2>3 DEF AtMostOne
  <2>5. lost' \subseteq Files \cup Kinds
    BY <2>1
  <2> QED BY <1>1, <2>4, <2>5 DEF MailTypes
<1> QED BY <1>2, <1>3

(* What an event of each kind carries. *)
LEMMA EventShapes ==
  ASSUME NEW event \in Events
  PROVE  /\ event.kind \in {"snapshot", "results", "info", "failed"}
         /\ event.kind = "snapshot" => /\ event.state \in {"running", "stopped"} /\ event.stop \in PlacesOfStops
                                       /\ event.hits \in PerSite /\ event.passed \in PerSite
         /\ event.kind = "results" => /\ event.ok \in BOOLEAN /\ event.file \in Files
                                      /\ event.results \in Seq([line : Lines, count : Nat])
                                      /\ event.passed \in PerSite
         /\ event.kind = "info" => event.ok \in BOOLEAN /\ event.item \in Items
         /\ event.kind = "failed" => event.op \in Commands
  BY DEF Events

(* The events there are. *)
LEMMA EventsAre ==
  /\ \A st \in {"running", "stopped"}, stop \in PlacesOfStops, counts \in PerSite, passed \in PerSite :
        Snapshot(st, stop, counts, passed) \in Events
  /\ \A ok \in BOOLEAN, f \in Files, results \in Seq([line : Lines, count : Nat]), passed \in PerSite :
        Results(ok, f, results, passed) \in Events
  /\ \A ok \in BOOLEAN, x \in Items : Info(ok, x) \in Events
  /\ \A op \in Commands : Failed(op) \in Events
<1>1. \A st \in {"running", "stopped"}, stop \in PlacesOfStops, counts \in PerSite, passed \in PerSite :
         Snapshot(st, stop, counts, passed) \in Events
  BY DEF Snapshot, Events
<1>2. \A ok \in BOOLEAN, f \in Files, results \in Seq([line : Lines, count : Nat]), passed \in PerSite :
         Results(ok, f, results, passed) \in Events
  BY DEF Results, Events
<1>3. \A ok \in BOOLEAN, x \in Items : Info(ok, x) \in Events
  BY DEF Info, Events
<1>4. \A op \in Commands : Failed(op) \in Events
  BY DEF Failed, Events
<1> QED BY <1>1, <1>2, <1>3, <1>4

(* The places a program stops at. *)
LEMMA StopPlaces ==
  /\ Entry \in PlacesOfStops
  /\ \A site \in Sites, reason \in {"breakpoint", "step"} :
        [file |-> site[1], line |-> site[2], reason |-> reason] \in PlacesOfStops
  /\ [file |-> NoFile, line |-> 0, reason |-> "exception"] \in PlacesOfStops
  /\ \A stop \in PlacesOfStops : stop.line \in Nat
  BY SitesArePairs DEF Entry, PlacesOfStops

(* The event that is handled next. *)
LEMMA HeadOfEvents ==
  ASSUME TypeOK, HitsSound, events # <<>>
  PROVE  /\ Head(events) \in Events /\ Tail(events) \in Seq(Events) /\ EventSound(Head(events))
         /\ 1 \in DOMAIN events /\ Head(events) = events[1]
<1>1. events \in Seq(Events)
  BY DEF TypeOK
<1>2. Head(events) \in Events /\ Tail(events) \in Seq(Events) /\ Head(events) = events[1] /\ 1 \in DOMAIN events
  BY <1>1, HeadTailProperties
<1> QED BY <1>2 DEF HitsSound, EventsSound

(* The counts of an answer are bounded, if those it brings are. *)
LEMMA ResultsAreBounded ==
  ASSUME NEW event, event.results \in Seq([line : Lines, count : Nat]), NEW n \in Nat,
         \A i \in DOMAIN event.results : event.results[i].count \in 0..n
  PROVE  \A all, f : Bounded(ByPlace(all, f, event), n) /\ Bounded(ByLine(f, event), n)
<1>1. \A entries : OfResults(entries, event) => Bounded(entries, n)
  BY DEF OfResults, Bounded
<1> QED BY <1>1, ByPlaceTypes, ByLineTypes

(* No count is larger than the number of stops. *)
LEMMA CountsAreBounded ==
  ASSUME TypeOK, HitsSound, events # <<>>, NEW event, event = Head(events)
  PROVE  /\ event.kind = "snapshot" => Bounded(SnapshotHits(event.hits), stops)
         /\ event.kind = "results" => \A all, f : /\ Bounded(ByPlace(all, f, event), stops)
                                                  /\ Bounded(ByLine(f, event), stops)
<1>1. event \in Events /\ EventSound(event)
  BY HeadOfEvents
<1>2. stops \in Nat /\ passes \in [Sites -> Nat] /\ \A s \in Sites : passes[s] <= stops
  BY TypesByGroup DEF WordTypes, AdapterTypes, PerSite, HitsSound, PassesSound
<1>3. CASE event.kind = "snapshot"
  <2>1. event.hits \in PerSite /\ event.passed \in [Sites -> Nat]
    BY <1>1, <1>3, EventShapes DEF PerSite
  <2>2. \A s \in Sites : event.hits[s] <= event.passed[s] /\ event.passed[s] <= passes[s]
    BY <1>1, <1>3 DEF EventSound, HasCounts
  <2>3. \A s \in Sites : event.hits[s] \in 0..stops
    BY <1>2, <2>1, <2>2 DEF PerSite
  <2>4. Bounded(SnapshotHits(event.hits), stops)
    BY <2>1, <2>3, SnapshotHitsTypes DEF Bounded
  <2> QED BY <1>3, <2>4
<1>4. CASE event.kind = "results"
  <2>1. event.results \in Seq([line : Lines, count : Nat]) /\ event.passed \in [Sites -> Nat]
    BY <1>1, <1>4, EventShapes DEF PerSite
  <2>2. ASSUME NEW i \in DOMAIN event.results PROVE event.results[i].count \in 0..stops
    <3> DEFINE s == <<event.file, event.results[i].line>>
    <3>1. s \in Sites /\ event.results[i].count <= event.passed[s] /\ event.passed[s] <= passes[s]
      BY <1>1, <1>4 DEF EventSound, HasCounts
    <3>2. event.results[i].count \in Nat
      BY <2>1, ResultTypes
    <3> QED BY <1>2, <2>1, <3>1, <3>2
  <2>3. \A all, f : Bounded(ByPlace(all, f, event), stops) /\ Bounded(ByLine(f, event), stops)
    BY <1>2, <2>1, <2>2, ResultsAreBounded, Zenon
  <2> QED BY <1>4, <2>3
<1> QED BY <1>3, <1>4

(* The steps of apply_snapshot_json_payload. *)
Counted(event) == ApplyHits(breakpoints, SnapshotHits(event.hits))
Site(event) == CountedSite(Counted(event), event.stop)
IsNew(event) == event.state = "stopped" /\ Site(event) # NoSite /\ ~AlreadyCounted(Site(event))
Recorded(event) ==
    IF IsNew(event) THEN [Counted(event) EXCEPT ![Site(event)[1]][Site(event)[2]].count = @ + 1] ELSE Counted(event)
Ended(event) == {skip \in catchSkip : event.state = "stopped" /\ SkipEnds(skip, event.stop)}
After(event) == AfterSkip(Recorded(event), Ended(event))
EndedFiles(event) == IF After(event) = Recorded(event) THEN {} ELSE {skip.file : skip \in Ended(event)}

(* A snapshot gives the breakpoints counts, one of them one more, and tells  *)
(* nothing else, unless a breakpoint that was to end in a catch is removed.  *)
LEMMA SnapshotLists ==
  ASSUME TypeOK, HitsSound, events # <<>>, NEW event, event = Head(events), event.kind = "snapshot"
  PROVE  /\ AreBreakpoints(Counted(event)) /\ AreBreakpoints(Recorded(event)) /\ AreBreakpoints(After(event))
         /\ IsNew(event) => /\ Site(event)[1] \in DOMAIN Counted(event)
                            /\ Site(event)[2] \in DOMAIN Counted(event)[Site(event)[1]]
                            /\ Site(event) = <<Site(event)[1], Site(event)[2]>>
         /\ DOMAIN Recorded(event) = DOMAIN Counted(event)
         /\ \A f \in DOMAIN Counted(event) :
               /\ DOMAIN Recorded(event)[f] = DOMAIN Counted(event)[f]
               /\ \A l \in DOMAIN Counted(event)[f] :
                     Recorded(event)[f][l].count =
                         IF IsNew(event) /\ <<f, l>> = Site(event) THEN Counted(event)[f][l].count + 1
                         ELSE Counted(event)[f][l].count
         /\ \A f \in DOMAIN After(event) : /\ f \in DOMAIN Recorded(event)
                                           /\ \A l \in DOMAIN After(event)[f] :
                                                 /\ l \in DOMAIN Recorded(event)[f]
                                                 /\ After(event)[f][l] = Recorded(event)[f][l]
         /\ EndedFiles(event) \in SUBSET Files
         /\ \A g : g \notin EndedFiles(event) => Listing(After(event), g) = Listing(breakpoints, g)
<1> DEFINE c == Counted(event)
<1> DEFINE site == Site(event)
<1> DEFINE r == Recorded(event)
<1> DEFINE a == After(event)
<1>1. event \in Events /\ event.stop \in PlacesOfStops /\ event.stop.line \in Nat
  BY HeadOfEvents, EventShapes, StopPlaces
<1>2. AreBreakpoints(breakpoints) /\ stops \in Nat /\ Bounded(SnapshotHits(event.hits), stops)
  BY CountsAreBounded, TypesByGroup DEF ListTypes, WordTypes
<1>3. AreBreakpoints(c) /\ \A g : Listing(c, g) = Listing(breakpoints, g)
  BY <1>2, ApplyHitsTypes DEF Counted
<1>4. ASSUME site # NoSite
      PROVE  site[1] \in DOMAIN c /\ site[2] \in DOMAIN c[site[1]] /\ site = <<site[1], site[2]>>
  <2>1. site = Meant(c, event.stop.file, event.stop.line)
    BY <1>4 DEF Site, CountedSite
  <2>2. \E g \in DOMAIN c : \E l \in DOMAIN c[g] : site = <<g, l>>
    <3> HIDE DEF c, site
    <3> QED BY <1>1, <1>3, <1>4, <2>1, MeantIsThere
  <2> QED BY <2>2
<1>5. ASSUME IsNew(event)
      PROVE  /\ AreBreakpoints(r) /\ DOMAIN r = DOMAIN c
             /\ \A f \in DOMAIN c :
                   /\ DOMAIN r[f] = DOMAIN c[f]
                   /\ \A l \in DOMAIN c[f] :
                         r[f][l].count = IF <<f, l>> = site THEN c[f][l].count + 1 ELSE c[f][l].count
             /\ \A g : Listing(r, g) = Listing(breakpoints, g)
             /\ site[1] \in DOMAIN c /\ site[2] \in DOMAIN c[site[1]] /\ site = <<site[1], site[2]>>
  <2> DEFINE entry == [c[site[1]][site[2]] EXCEPT !.count = @ + 1]
  <2>1. site[1] \in DOMAIN c /\ site[2] \in DOMAIN c[site[1]] /\ site = <<site[1], site[2]>>
    BY <1>4, <1>5 DEF IsNew
  <2>2. c[site[1]][site[2]] \in Breakpoint
    BY <1>3, <2>1 DEF AreBreakpoints
  <2>3. /\ entry \in Breakpoint /\ entry.count = c[site[1]][site[2]].count + 1
        /\ entry.condition = c[site[1]][site[2]].condition /\ entry.hit = c[site[1]][site[2]].hit
    BY <2>2 DEF Breakpoint
  <2>4. r = [c EXCEPT ![site[1]][site[2]] = entry]
    BY <1>5 DEF Recorded
  <2> HIDE DEF c, r, entry, site
  <2>5. /\ AreBreakpoints(r) /\ DOMAIN r = DOMAIN c /\ \A g \in DOMAIN c : DOMAIN r[g] = DOMAIN c[g]
        /\ r[site[1]][site[2]] = entry
        /\ \A g \in DOMAIN c : \A m \in DOMAIN c[g] : <<g, m>> # <<site[1], site[2]>> => r[g][m] = c[g][m]
    <3> DEFINE f == site[1]
    <3> DEFINE l == site[2]
    <3>1. f \in DOMAIN c /\ l \in DOMAIN c[f] /\ Changes(c, f, l, entry, r)
      BY <2>1, <2>4 DEF Changes
    <3> HIDE DEF f, l
    <3>2. /\ AreBreakpoints(r) /\ DOMAIN r = DOMAIN c /\ \A g \in DOMAIN c : DOMAIN r[g] = DOMAIN c[g]
          /\ r[f][l] = entry
          /\ \A g \in DOMAIN c : \A m \in DOMAIN c[g] : <<g, m>> # <<f, l>> => r[g][m] = c[g][m]
      BY <1>3, <2>3, <3>1, EntryChanges
    <3> QED BY <3>2 DEF f, l
  <2>6. \A g \in DOMAIN c : \A m \in DOMAIN c[g] :
           r[g][m].condition = c[g][m].condition /\ r[g][m].hit = c[g][m].hit
    BY <2>3, <2>5
  <2>7. \A g : SameBucket(r, c, g)
    BY <2>5, <2>6 DEF SameBucket
  <2>8. \A g : Listing(r, g) = Listing(c, g)
    BY <2>7, CountsAreNotTold
  <2>9. \A f \in DOMAIN c : \A l \in DOMAIN c[f] :
           r[f][l].count = IF <<f, l>> = site THEN c[f][l].count + 1 ELSE c[f][l].count
    BY <2>1, <2>3, <2>5
  <2>10. \A g : Listing(r, g) = Listing(breakpoints, g)
    BY <1>3, <2>8
  <2> QED BY <1>5, <2>1, <2>5, <2>9, <2>10
<1>6. ASSUME ~IsNew(event) PROVE r = c
  BY <1>6 DEF Recorded
<1> HIDE DEF c, r, site
<1>7. /\ AreBreakpoints(r) /\ DOMAIN r = DOMAIN c
      /\ \A f \in DOMAIN c :
            /\ DOMAIN r[f] = DOMAIN c[f]
            /\ \A l \in DOMAIN c[f] :
                  r[f][l].count = IF IsNew(event) /\ <<f, l>> = site THEN c[f][l].count + 1 ELSE c[f][l].count
      /\ \A g : Listing(r, g) = Listing(breakpoints, g)
      /\ IsNew(event) => site[1] \in DOMAIN c /\ site[2] \in DOMAIN c[site[1]] /\ site = <<site[1], site[2]>>
  <2>1. CASE IsNew(event)
    BY <1>5, <2>1
  <2>2. CASE ~IsNew(event)
    BY <1>3, <1>6, <2>2
  <2> QED BY <2>1, <2>2
<1>8. /\ AreBreakpoints(a)
      /\ \A f \in DOMAIN a : f \in DOMAIN r /\ \A l \in DOMAIN a[f] : l \in DOMAIN r[f] /\ a[f][l] = r[f][l]
      /\ EndedFiles(event) \in SUBSET Files
      /\ \A g : g \notin EndedFiles(event) => Listing(a, g) = Listing(r, g)
  <2>1. \A skip \in Ended(event) : skip.file \in Files
    BY TypesByGroup DEF Ended, PlaceTypes, AtMostOne
  <2>2. EndedFiles(event) \in SUBSET Files
    BY <2>1 DEF EndedFiles
  <2>3. CASE \E skip \in Ended(event) : skip.added
    <3> DEFINE skip == CHOOSE s \in Ended(event) : TRUE
    <3>1. skip \in Ended(event)
      BY <2>3
    <3>2. a = Removed(r, skip.file, skip.line)
      BY <2>3 DEF After, AfterSkip, r
    <3> HIDE DEF skip, a
    <3>3. /\ AreBreakpoints(a)
          /\ \A g \in DOMAIN a : g \in DOMAIN r /\ \A m \in DOMAIN a[g] : m \in DOMAIN r[g] /\ a[g][m] = r[g][m]
          /\ \A g : g # skip.file => Listing(a, g) = Listing(r, g)
      BY <1>7, <3>2, RemovedTypes
    <3>4. a # r => skip.file \in EndedFiles(event)
      BY <3>1 DEF EndedFiles, a, r
    <3> QED BY <2>2, <3>3, <3>4
  <2>4. CASE ~\E skip \in Ended(event) : skip.added
    <3>1. a = r
      BY <2>4 DEF After, AfterSkip, r
    <3> QED BY <1>7, <2>2, <3>1
  <2> QED BY <2>3, <2>4
<1> QED BY <1>3, <1>7, <1>8 DEF c, r, site

-----------------------------------------------------------------------------
(* What is posted. *)

(* The lists of files stay sound when some of them change and are posted.    *)
LEMMA PushSound ==
  ASSUME TypeOK, LaunchSound, FilesSound, NEW all, AreBreakpoints(all), NEW files \in SUBSET Files,
         Push(all, files), breakpoints' = all, UNCHANGED <<adapter, requests>>,
         \A g \in Files \ files : Listing(all, g) = Listing(breakpoints, g),
         launch = "none" => launch' = "none",
         FlushIsDue /\ (\E g \in Files : Listing(all, g) # {}) => FlushIsDue'
  PROVE  FilesSound' /\ \A k \in Kinds : k \in lost => k \in lost'
<1>1. CASE launch = "none"
  <2>1. sourceBox' = {} /\ lost' = lost
    BY <1>1 DEF Push, IsActive, LaunchSound
  <2>2. ASSUME NEW f \in Files PROVE FileSound(f)'
    <3>1. adapter'[f] = {} /\ requests'[f] = {}
      BY <1>1 DEF LaunchSound
    <3>2. Listing(all, f) # {} => FlushIsDue'
      BY <1>1 DEF FlushIsDue
    <3> QED BY <3>1, <3>2 DEF FileSound, Agrees
  <2> QED BY <2>1, <2>2 DEF FilesSound, PostsSound
<1>2. CASE launch # "none" /\ files = {}
  <2>1. UNCHANGED <<sourceBox, lost>> /\ \A g \in Files : Listing(all, g) = Listing(breakpoints, g)
    BY <1>2 DEF Push
  <2>2. ASSUME NEW f \in Files PROVE FileSound(f)'
    <3>1. FileSound(f) /\ Listing(all, f) = Listing(breakpoints, f)
      BY <2>1 DEF FilesSound
    <3> QED BY <2>1, <3>1 DEF FileSound, Agrees
  <2>3. PostsSound'
    <3>1. \A post \in sourceBox : post.file \in Files
      BY TypesByGroup DEF MailTypes, AtMostOne, Posts
    <3> QED BY <2>1, <3>1 DEF FilesSound, PostsSound
  <2> QED BY <2>1, <2>2, <2>3 DEF FilesSound
<1>3. CASE launch # "none" /\ files # {}
  <2>1. PICK last \in files :
           /\ sourceBox' = {[file |-> Target(all, last), list |-> Listing(all, Target(all, last))]}
           /\ lost' = {x \in lost \cup files \cup {post.file : post \in sourceBox} :
                          x # Target(all, last) /\ (x \in Files => ~Agrees(all, x))}
    BY <1>3 DEF Push, IsActive
  <2>2. Target(all, last) \in Files
    BY FindTypes
  <2>3. PICK t \in Files : t = Target(all, last)
    BY <2>2
  <2>4. PostsSound'
    BY <2>1, <2>3 DEF PostsSound
  <2>5. ASSUME NEW f \in Files PROVE FileSound(f)'
    <3>1. CASE f = t
      <4>1. \E post \in sourceBox' : post.file = f
        BY <2>1, <2>3, <3>1
      <4> QED BY <4>1 DEF FileSound
    <3>2. CASE f # t /\ f \in lost \cup files \cup {post.file : post \in sourceBox}
      <4>1. CASE Agrees(all, f)
        <5>1. Agrees(breakpoints, f)'
          BY <4>1 DEF Agrees
        <5> QED BY <5>1 DEF FileSound
      <4>2. CASE ~Agrees(all, f)
        <5>1. f \in lost'
          BY <2>1, <2>3, <3>2, <4>2
        <5> QED BY <5>1 DEF FileSound
      <4> QED BY <4>1, <4>2
    <3>3. CASE f # t /\ f \notin lost \cup files \cup {post.file : post \in sourceBox}
      <4>1. FileSound(f) /\ Listing(all, f) = Listing(breakpoints, f) /\ f \notin lost
            /\ ~\E post \in sourceBox : post.file = f
        BY <3>3 DEF FilesSound
      <4> QED BY <4>1 DEF FileSound, Agrees
    <3> QED BY <3>1, <3>2, <3>3
  <2>6. \A k \in Kinds : k \in lost => k \in lost'
    <3>1. Files \cap Kinds = {}
      BY SitesArePairs
    <3> QED BY <2>1, <2>2, <3>1
  <2> QED BY <2>4, <2>5, <2>6 DEF FilesSound
<1> QED BY <1>1, <1>2, <1>3

(* They do so when all are posted. *)
LEMMA FlushSound ==
  ASSUME TypeOK, LaunchSound, FilesSound, NEW all, AreBreakpoints(all), NEW before \in SUBSET Files,
         Flush(all, exceptions', before), breakpoints' = all, UNCHANGED <<adapter, requests, functions, data>>,
         \A g \in Files \ before : Listing(all, g) = Listing(breakpoints, g),
         launch # "none"
  PROVE  FilesSound' /\ BoxesSound' /\ \A k \in Kinds : boxes'[k] # {}
<1>1. BoxesSound' /\ \A k \in Kinds : boxes'[k] # {}
  BY DEF Flush, BoxesSound, Current, Kinds
<1>2. CASE DOMAIN all = {}
  <2>1. \A g \in Files : Listing(all, g) = {}
    BY <1>2, ListingOf
  <2>2. Push(all, before)
    BY <1>2 DEF Flush
  <2>3. FilesSound'
    BY <2>1, <2>2, PushSound
  <2> QED BY <1>1, <2>3
<1>3. CASE DOMAIN all # {}
  <2>1. PICK last \in DOMAIN all :
           /\ sourceBox' = {[file |-> last, list |-> Listing(all, last)]}
           /\ lost' = {x \in lost \cup before \cup DOMAIN all \cup {post.file : post \in sourceBox} :
                          x \in Files \ {last} /\ ~Agrees(all, x)}
    BY <1>3 DEF Flush
  <2>2. PostsSound'
    BY <2>1 DEF PostsSound
  <2>3. ASSUME NEW f \in Files PROVE FileSound(f)'
    <3>1. CASE f = last
      <4>1. \E post \in sourceBox' : post.file = f
        BY <2>1, <3>1
      <4> QED BY <4>1 DEF FileSound
    <3>2. CASE f # last /\ f \in lost \cup before \cup DOMAIN all \cup {post.file : post \in sourceBox}
      <4>1. CASE Agrees(all, f)
        <5>1. Agrees(breakpoints, f)'
          BY <4>1 DEF Agrees
        <5> QED BY <5>1 DEF FileSound
      <4>2. CASE ~Agrees(all, f)
        <5>1. f \in lost'
          BY <2>1, <3>2, <4>2
        <5> QED BY <5>1 DEF FileSound
      <4> QED BY <4>1, <4>2
    <3>3. CASE f \notin lost \cup before \cup DOMAIN all \cup {post.file : post \in sourceBox}
      <4>1. Listing(all, f) = {} /\ Listing(breakpoints, f) = {}
        BY <3>3, ListingOf
      <4>2. FileSound(f) /\ f \notin lost /\ ~\E post \in sourceBox : post.file = f
        BY <3>3 DEF FilesSound
      <4>3. Agrees(breakpoints, f)
        BY <4>1, <4>2 DEF FileSound
      <4>4. Agrees(breakpoints, f)'
        BY <4>1, <4>3 DEF Agrees
      <4> QED BY <4>4 DEF FileSound
    <3> QED BY <3>1, <3>2, <3>3
  <2> QED BY <1>1, <2>2, <2>3 DEF FilesSound
<1> QED BY <1>2, <1>3

(* Nothing is posted: what becomes known of the launch and of the stops to   *)
(* come does not make the lists of files unsound.                            *)
LEMMA FilesStay ==
  ASSUME FilesSound, UNCHANGED <<breakpoints, sourceBox, adapter, requests>>,
         \A f \in Files : f \in lost => f \in lost',
         FlushIsDue => FlushIsDue'
  PROVE  FilesSound'
<1>1. ASSUME NEW f \in Files PROVE FileSound(f)'
  <2>1. FileSound(f)
    BY DEF FilesSound
  <2> QED BY <2>1 DEF FileSound, Agrees
<1> QED BY <1>1 DEF FilesSound, PostsSound

(* The same of the other kinds. *)
LEMMA KindsStay ==
  ASSUME KindsSound, UNCHANGED <<exceptions, functions, data, boxes, adapterLists>>,
         \A k \in Kinds : k \in lost => k \in lost',
         launch # "handled" \/ ~flushed => launch' # "handled" \/ ~flushed',
         restarting => restarting', EntryComes => EntryComes',
         command' = "restart" => command = "restart" \/ restarting'
  PROVE  KindsSound'
<1>1. ASSUME NEW k \in Kinds PROVE KindSound(k)' /\ (boxes[k] \in {{}, {Current(k)}})'
  <2>1. KindSound(k) /\ boxes[k] \in {{}, {Current(k)}}
    BY DEF KindsSound, BoxesSound
  <2> QED BY <2>1 DEF KindSound, Current
<1>2. RestartSound'
  BY DEF KindsSound, RestartSound
<1> QED BY <1>1, <1>2 DEF KindsSound, BoxesSound

(* A list of one kind changes and is posted. *)
LEMMA PushKindSound ==
  ASSUME TypeOK, LaunchSound, KindsSound, NEW k \in Kinds, NEW list, PushKind(k, list), Current(k)' = list,
         \A j \in Kinds \ {k} : Current(j)' = Current(j),
         UNCHANGED <<adapterLists, launch, command, flushed, restarting>>, EntryComes => EntryComes',
         known \/ k = "function"
  PROVE  /\ KindsSound' /\ \A f \in Files : f \in lost => f \in lost'
         /\ launch = "none" => UNCHANGED boxes
<1>1. CASE launch = "none"
  <2>1. UNCHANGED <<boxes, lost>> /\ command = "none" /\ \A j \in Kinds : boxes[j] = {}
    BY <1>1 DEF PushKind, IsActive, LaunchSound
  <2> QED BY <1>1, <2>1 DEF KindsSound, BoxesSound, KindSound, RestartSound
<1>2. CASE launch # "none"
  <2>1. boxes' = [boxes EXCEPT ![k] = {list}] /\ lost' = lost \ {k} /\ k \notin Files /\ DOMAIN boxes = Kinds
    BY <1>2, SitesArePairs, TypesByGroup DEF PushKind, IsActive, MailTypes
  <2>2. boxes'[k] = {list} /\ \A j \in Kinds \ {k} : boxes'[j] = boxes[j]
    BY <2>1
  <2>3. ASSUME NEW j \in Kinds \ {k} PROVE KindSound(j)' /\ (boxes[j] \in {{}, {Current(j)}})'
    <3>1. KindSound(j) /\ boxes[j] \in {{}, {Current(j)}}
      BY DEF KindsSound, BoxesSound
    <3>2. Current(j)' = Current(j) /\ boxes'[j] = boxes[j] /\ (j \in lost => j \in lost')
      BY <2>1, <2>2
    <3> QED BY <3>1, <3>2 DEF KindSound
  <2>4. KindSound(k)' /\ (boxes[k] \in {{}, {Current(k)}})'
    BY <2>2 DEF KindSound
  <2>5. RestartSound'
    BY <2>1, <2>2 DEF KindsSound, RestartSound
  <2> QED BY <1>2, <2>1, <2>3, <2>4, <2>5 DEF KindsSound, BoxesSound
<1> QED BY <1>1, <1>2

-----------------------------------------------------------------------------
(* The events. *)

(* The worker adds one. *)
LEMMA EventsGrow ==
  ASSUME TypeOK, NEW e, events' = Append(events, e), RunningIsFirst, UNCHANGED known,
         e.kind = "snapshot" /\ e.state = "running" => events = <<>> /\ ~known
  PROVE  /\ RunningIsFirst' /\ (StopComes => StopComes') /\ (EntryComes => EntryComes')
         /\ e.kind = "snapshot" /\ e.state = "stopped" => StopComes'
         /\ e.kind = "snapshot" /\ e.state = "stopped" /\ e.stop = Entry => EntryComes'
         /\ events' # <<>>
<1>1. /\ Len(events) \in Nat /\ DOMAIN events = 1..Len(events) /\ DOMAIN events' = 1..(Len(events) + 1)
      /\ \A i \in DOMAIN events : events'[i] = events[i]
      /\ events'[Len(events) + 1] = e
  BY DEF TypeOK
<1>2. PICK n \in Nat : n = Len(events)
  BY <1>1
<1>3. n + 1 \in DOMAIN events' /\ DOMAIN events \subseteq DOMAIN events' /\ events'[n + 1] = e
      /\ DOMAIN events = 1..n /\ DOMAIN events' = 1..(n + 1)
  BY <1>1, <1>2
<1>4. RunningIsFirst'
  <2>1. ASSUME NEW i \in DOMAIN events', events'[i].kind = "snapshot", events'[i].state = "running"
        PROVE  i = 1 /\ ~known'
    <3>1. CASE i \in DOMAIN events
      BY <1>1, <2>1, <3>1 DEF RunningIsFirst
    <3>2. CASE i \notin DOMAIN events
      <4>1. i = n + 1
        BY <1>3, <3>2
      <4>2. n = 0 /\ ~known
        BY <1>2, <1>3, <2>1, <4>1
      <4> QED BY <4>1, <4>2
    <3> QED BY <3>1, <3>2
  <2> QED BY <2>1 DEF RunningIsFirst
<1>5. StopComes => StopComes'
  BY <1>1, <1>3 DEF StopComes
<1>6. EntryComes => EntryComes'
  BY <1>1, <1>3 DEF EntryComes
<1>7. e.kind = "snapshot" /\ e.state = "stopped" => StopComes'
  BY <1>3 DEF StopComes
<1>8. e.kind = "snapshot" /\ e.state = "stopped" /\ e.stop = Entry => EntryComes'
  BY <1>3 DEF EntryComes
<1>9. events' # <<>>
  BY <1>3
<1> QED BY <1>4, <1>5, <1>6, <1>7, <1>8, <1>9

(* The UI takes one. *)
LEMMA EventsShrink ==
  ASSUME TypeOK, NEW e, events # <<>>, e = Head(events), events' = Tail(events), RunningIsFirst
  PROVE  /\ RunningIsFirst'
         /\ StopComes => StopComes' \/ (e.kind = "snapshot" /\ e.state = "stopped")
         /\ EntryComes => EntryComes' \/ (e.kind = "snapshot" /\ e.state = "stopped" /\ e.stop = Entry)
         /\ e.kind = "snapshot" /\ e.state = "running" => ~known
<1>1. /\ Len(events) \in Nat \ {0} /\ DOMAIN events = 1..Len(events) /\ DOMAIN events' = 1..(Len(events) - 1)
      /\ \A i \in DOMAIN events' : events'[i] = events[i + 1]
      /\ e = events[1]
  BY DEF TypeOK
<1>2. PICK n \in Nat \ {0} : n = Len(events)
  BY <1>1
<1>3. 1 \in DOMAIN events /\ DOMAIN events = 1..n /\ DOMAIN events' = 1..(n - 1)
  BY <1>1, <1>2
<1>4. \A i \in DOMAIN events' : i + 1 \in DOMAIN events /\ i + 1 # 1 /\ events'[i] = events[i + 1]
  <2>1. \A i \in 1..(n - 1) : i + 1 \in 1..n /\ i + 1 # 1
    OBVIOUS
  <2> QED BY <1>1, <1>3, <2>1
<1>5. \A j \in DOMAIN events : j # 1 => j - 1 \in DOMAIN events' /\ events'[j - 1] = events[j]
  <2>1. \A j \in 1..n : j # 1 => j - 1 \in 1..(n - 1) /\ (j - 1) + 1 = j
    OBVIOUS
  <2> QED BY <1>3, <1>4, <2>1
<1>6. RunningIsFirst'
  BY <1>4 DEF RunningIsFirst
<1>7. StopComes => StopComes' \/ (e.kind = "snapshot" /\ e.state = "stopped")
  BY <1>1, <1>5 DEF StopComes
<1>8. EntryComes => EntryComes' \/ (e.kind = "snapshot" /\ e.state = "stopped" /\ e.stop = Entry)
  BY <1>1, <1>5 DEF EntryComes
<1>9. e.kind = "snapshot" /\ e.state = "running" => ~known
  BY <1>1, <1>3 DEF RunningIsFirst
<1> QED BY <1>6, <1>7, <1>8, <1>9

-----------------------------------------------------------------------------
(* The hits that are told. *)

(* An event stays sound while the program goes on. *)
LEMMA EventStaysSound ==
  ASSUME NEW e, EventSound(e), HasCounts(e) => e.passed \in PerSite,
         passes \in PerSite, passes' \in PerSite, \A s \in Sites : passes[s] <= passes'[s], UNCHANGED seen
  PROVE  EventSound(e)'
<1>1. HasCounts(e) => \A s \in Sites : seen'[s] <= e.passed[s] /\ e.passed[s] <= passes'[s]
  <2>1. ASSUME HasCounts(e), NEW s \in Sites PROVE seen[s] <= e.passed[s] /\ e.passed[s] <= passes'[s]
    <3>1. seen[s] <= e.passed[s] /\ e.passed[s] <= passes[s] /\ passes[s] <= passes'[s]
      BY <2>1 DEF EventSound
    <3>2. e.passed[s] \in Nat /\ passes[s] \in Nat /\ passes'[s] \in Nat
      BY <2>1 DEF PerSite
    <3> QED BY <3>1, <3>2
  <2> QED BY <2>1
<1> QED BY <1>1 DEF EventSound, HasCounts

(* The counts of events are numbers of passes. *)
LEMMA CountedEvents ==
  ASSUME NEW e \in Events, HasCounts(e)
  PROVE  e.passed \in PerSite
  BY EventShapes DEF HasCounts

(* The program goes on, and the events that wait stay sound. *)
LEMMA EventsStaySound ==
  ASSUME TypeOK, EventsSound, passes' \in PerSite, \A s \in Sites : passes[s] <= passes'[s],
         UNCHANGED <<seen, events>>
  PROVE  EventsSound'
<1>1. \A i \in DOMAIN events : events[i] \in Events
  BY ElementOfSeq DEF TypeOK
<1>2. passes \in PerSite
  BY TypesByGroup DEF AdapterTypes
<1>3. ASSUME NEW i \in DOMAIN events PROVE EventSound(events[i])'
  <2>1. PICK e \in Events : e = events[i]
    BY <1>1
  <2>2. EventSound(e) /\ (HasCounts(e) => e.passed \in PerSite)
    BY <2>1, CountedEvents DEF EventsSound
  <2>3. EventSound(e)'
    BY <1>2, <2>2, EventStaysSound
  <2>4. e = events'[i]
    BY <2>1
  <2> QED BY <2>3, <2>4 DEF EventSound, HasCounts
<1>4. \A i, j \in DOMAIN events' : i < j => Earlier(events'[i], events'[j])
  BY DEF EventsSound
<1> QED BY <1>3, <1>4 DEF EventsSound

(* An event is added. *)
LEMMA EventsGrowSound ==
  ASSUME TypeOK, HitsSound, passes' \in PerSite, \A s \in Sites : passes[s] <= passes'[s], UNCHANGED seen,
         NEW e, events' = Append(events, e), EventSound(e)', HasCounts(e) => e.passed = passes'
  PROVE  EventsSound'
<1>1. /\ Len(events) \in Nat /\ DOMAIN events = 1..Len(events) /\ DOMAIN events' = 1..(Len(events) + 1)
      /\ \A i \in DOMAIN events : events'[i] = events[i]
      /\ events'[Len(events) + 1] = e
  BY DEF TypeOK
<1>2. PICK n \in Nat : n = Len(events)
  BY <1>1
<1>3. DOMAIN events = 1..n /\ DOMAIN events' = 1..(n + 1) /\ events'[n + 1] = e
  BY <1>1, <1>2
<1>4. \A i \in DOMAIN events : events[i] \in Events
  BY ElementOfSeq DEF TypeOK
<1>5. passes \in PerSite
  BY TypesByGroup DEF AdapterTypes
<1>6. ASSUME NEW i \in DOMAIN events
      PROVE  /\ \E x \in Events : x = events'[i] /\ EventSound(x)'
             /\ HasCounts(events'[i]) => \A s \in Sites : events'[i].passed[s] <= passes'[s]
  <2>1. PICK x \in Events : x = events[i]
    BY <1>4
  <2>2. EventSound(x) /\ (HasCounts(x) => x.passed \in PerSite)
    BY <2>1, CountedEvents DEF EventsSound, HitsSound
  <2>3. EventSound(x)'
    BY <1>5, <2>2, EventStaysSound
  <2>4. x = events'[i]
    BY <1>1, <2>1
  <2>5. HasCounts(x) => \A s \in Sites : x.passed[s] <= passes'[s]
    BY <2>3 DEF EventSound, HasCounts
  <2> QED BY <2>3, <2>4, <2>5
<1>7. ASSUME NEW i \in DOMAIN events' PROVE EventSound(events[i])'
  <2>1. \E x : x = events'[i] /\ EventSound(x)'
    <3>1. CASE i \in DOMAIN events
      BY <1>6, <3>1
    <3>2. CASE i \notin DOMAIN events
      <4>1. i = n + 1
        BY <1>3, <3>2
      <4> QED BY <1>3, <4>1
    <3> QED BY <3>1, <3>2
  <2>2. PICK x : x = events'[i] /\ EventSound(x)'
    BY <2>1
  <2> QED BY <2>2 DEF EventSound, HasCounts
<1>8. ASSUME NEW i \in DOMAIN events', NEW j \in DOMAIN events', i < j PROVE Earlier(events'[i], events'[j])
  <2>1. i \in DOMAIN events
    BY <1>3, <1>8
  <2>2. CASE j \in DOMAIN events
    <3>1. Earlier(events[i], events[j])
      BY <1>8, <2>1, <2>2 DEF HitsSound, EventsSound
    <3> QED BY <1>1, <2>1, <2>2, <3>1
  <2>3. CASE j \notin DOMAIN events
    <3>1. j = n + 1
      BY <1>3, <2>3
    <3> QED BY <1>3, <1>6, <2>1, <3>1 DEF Earlier
  <2> QED BY <2>2, <2>3
<1> QED BY <1>7, <1>8 DEF EventsSound

(* An event is taken: those after it were made later. *)
LEMMA EventsShrinkSound ==
  ASSUME TypeOK, HitsSound, events # <<>>, NEW e, e = Head(events), events' = Tail(events), UNCHANGED passes,
         seen' = IF HasCounts(e) THEN e.passed ELSE seen
  PROVE  EventsSound'
<1>1. /\ Len(events) \in Nat \ {0} /\ DOMAIN events = 1..Len(events) /\ DOMAIN events' = 1..(Len(events) - 1)
      /\ \A i \in DOMAIN events' : events'[i] = events[i + 1]
      /\ e = events[1]
  BY DEF TypeOK
<1>2. PICK n \in Nat \ {0} : n = Len(events)
  BY <1>1
<1>3. 1 \in DOMAIN events /\ DOMAIN events = 1..n /\ DOMAIN events' = 1..(n - 1)
  BY <1>1, <1>2
<1>4. \A i \in DOMAIN events' : i \in Nat /\ i + 1 \in DOMAIN events /\ 1 < i + 1 /\ events'[i] = events[i + 1]
  <2>1. \A i \in 1..(n - 1) : i \in Nat /\ i + 1 \in 1..n /\ 1 < i + 1
    OBVIOUS
  <2> QED BY <1>1, <1>3, <2>1
<1>5. ASSUME NEW i \in DOMAIN events' PROVE EventSound(events[i])'
  <2>1. PICK x : x = events'[i]
    OBVIOUS
  <2>2. EventSound(x) /\ Earlier(e, x)
    <3>1. i + 1 \in DOMAIN events /\ 1 < i + 1 /\ x = events[i + 1]
      BY <1>4, <2>1
    <3>2. PICK j \in DOMAIN events : 1 < j /\ x = events[j]
      BY <3>1
    <3> QED BY <1>1, <1>3, <3>2 DEF HitsSound, EventsSound
  <2>3. HasCounts(x) => \A s \in Sites : seen'[s] <= x.passed[s] /\ x.passed[s] <= passes'[s]
    BY <2>2 DEF EventSound, Earlier
  <2> QED BY <2>1, <2>2, <2>3 DEF EventSound, HasCounts
<1>6. ASSUME NEW i \in DOMAIN events', NEW j \in DOMAIN events', i < j PROVE Earlier(events'[i], events'[j])
  <2>1. i + 1 < j + 1
    BY <1>4, <1>6
  <2>2. PICK x \in DOMAIN events, y \in DOMAIN events : x = i + 1 /\ y = j + 1
    BY <1>4
  <2>3. Earlier(events[x], events[y])
    BY <2>1, <2>2 DEF HitsSound, EventsSound
  <2> QED BY <1>4, <2>2, <2>3
<1> QED BY <1>5, <1>6 DEF EventsSound

-----------------------------------------------------------------------------
(* What the user changes. *)

(* No breakpoint gets a count it had not. *)
CountsKept(all) ==
    \A f \in DOMAIN all : \A l \in DOMAIN all[f] :
        \/ all[f][l].count = 0
        \/ f \in DOMAIN breakpoints /\ l \in DOMAIN breakpoints[f] /\ all[f][l].count = breakpoints[f][l].count

(* The hits stay sound then. *)
LEMMA HitsStay ==
  ASSUME TypeOK, HitsSound, AreBreakpoints(breakpoints'), CountsKept(breakpoints'),
         UNCHANGED <<events, passes, hits, stops, seen, misled>>
  PROVE  HitsSound'
<1>1. /\ misled \in BOOLEAN /\ passes \in PerSite /\ seen \in PerSite /\ AreBreakpoints(breakpoints)
  BY TypesByGroup DEF WordTypes, AdapterTypes, ListTypes
<1>2. EventsSound'
  <2>1. \A s \in Sites : passes[s] <= passes'[s]
    BY <1>1 DEF PerSite
  <2> QED BY <1>1, <2>1, EventsStaySound DEF HitsSound
<1>3. PassesSound'
  BY DEF HitsSound, PassesSound
<1>4. CountsSound'
  <2>1. ASSUME ~misled, NEW f \in DOMAIN breakpoints', NEW l \in DOMAIN breakpoints'[f]
        PROVE  breakpoints'[f][l].count <= seen[<<f, l>>]
    <3>1. <<f, l>> \in Sites
      BY DEF AreBreakpoints
    <3>2. seen[<<f, l>>] \in Nat
      BY <1>1, <3>1 DEF PerSite
    <3>3. CASE breakpoints'[f][l].count = 0
      BY <3>2, <3>3
    <3>4. CASE f \in DOMAIN breakpoints /\ l \in DOMAIN breakpoints[f]
               /\ breakpoints'[f][l].count = breakpoints[f][l].count
      BY <2>1, <3>4 DEF HitsSound, CountsSound
    <3> QED BY <3>3, <3>4 DEF CountsKept
  <2> QED BY <2>1 DEF CountsSound
<1> QED BY <1>2, <1>3, <1>4 DEF HitsSound

(* Prompts and numbers of edits. *)
PromptTypes ==
    /\ edits \in Nat /\ AtMostOne(editingFilter, Items)
    /\ AtMostOne(editing, [file : Files, line : Lines, hit : BOOLEAN])

(* What is left of the invariant when the lists are sound after a change.    *)
LEMMA EditSound ==
  ASSUME IInv, EditUnchanged, PromptTypes', ListTypes', MailTypes', FilesSound', KindsSound',
         CountsKept(breakpoints'),
         launch = "none" => UNCHANGED <<sourceBox, boxes>>,
         ~known => data' = {} /\ editingFilter' = {}
  PROVE  IInv'
<1>1. /\ WordTypes /\ PlaceTypes /\ EventTypes /\ AdapterTypes /\ ListsSound /\ HitsSound /\ TypeOK
  BY TypesByGroup DEF IInv
<1>2. /\ UNCHANGED <<launch, known, flushed, restarting, state, resolving, lastCounted, catchSkip, inCatch>>
      /\ UNCHANGED <<commands, command, infoBox, events, seen, misled>>
      /\ UNCHANGED <<session, stopped, requests, hits, adapter, adapterLists, passes, stops>>
  BY DEF EditUnchanged, launchVars, countVars, sessionVars
<1>3. WordTypes' /\ PlaceTypes'
  BY <1>1, <1>2 DEF WordTypes, PlaceTypes, PromptTypes
<1>4. EventTypes' /\ AdapterTypes'
  BY <1>1, <1>2 DEF EventTypes, AdapterTypes
<1>5. TypeOK'
  BY <1>3, <1>4, NextTypesByGroup
<1>6. LaunchSound'
  BY <1>1, <1>2 DEF ListsSound, LaunchSound
<1>7. RunningIsFirst' /\ FlushComes'
  BY <1>1, <1>2 DEF ListsSound, RunningIsFirst, FlushComes, StopComes
<1>8. HitsSound'
  BY <1>1, <1>2, HitsStay DEF ListTypes
<1> QED BY <1>5, <1>6, <1>7, <1>8 DEF IInv, ListsSound

(* The list of a file changes. *)
LEMMA EditFileSound ==
  ASSUME IInv, EditUnchanged, PromptTypes', NEW all, AreBreakpoints(all), NEW files \in SUBSET Files,
         Push(all, files), breakpoints' = all, CountsKept(all),
         \A g \in Files \ files : Listing(all, g) = Listing(breakpoints, g),
         UNCHANGED <<exceptions, functions, data, boxes>>, editingFilter' \in {{}, editingFilter}
  PROVE  IInv'
<1>1. /\ TypeOK /\ ListTypes /\ MailTypes /\ LaunchSound /\ FilesSound /\ KindsSound
  BY TypesByGroup DEF IInv, ListsSound
<1>2. /\ UNCHANGED <<launch, flushed, restarting, events, command>> /\ UNCHANGED <<adapter, requests, adapterLists>>
  BY DEF EditUnchanged, launchVars, sessionVars
<1>3. ListTypes'
  BY <1>1 DEF ListTypes
<1>4. MailTypes'
  BY <1>1, PushTypes DEF MailTypes
<1>5. FilesSound' /\ \A k \in Kinds : k \in lost => k \in lost'
  <2>1. FlushIsDue => FlushIsDue'
    BY <1>2 DEF FlushIsDue, StopComes
  <2> QED BY <1>1, <1>2, <2>1, PushSound
<1>6. KindsSound'
  <2>1. EntryComes => EntryComes'
    BY <1>2 DEF EntryComes
  <2> QED BY <1>1, <1>2, <1>5, <2>1, KindsStay
<1>7. launch = "none" => UNCHANGED <<sourceBox, boxes>>
  BY DEF Push, IsActive
<1>8. ~known => data' = {} /\ editingFilter' = {}
  BY <1>1 DEF LaunchSound
<1> QED BY <1>3, <1>4, <1>5, <1>6, <1>7, <1>8, EditSound

(* A list of another kind changes. *)
LEMMA EditKindSound ==
  ASSUME IInv, EditUnchanged, PromptTypes', NEW k \in Kinds, NEW list \in KindLists, PushKind(k, list),
         Current(k)' = list, \A j \in Kinds \ {k} : Current(j)' = Current(j), ListTypes',
         UNCHANGED <<breakpoints, sourceBox>>, known \/ k = "function",
         ~known => data' = {} /\ editingFilter' = {}
  PROVE  IInv'
<1>1. /\ TypeOK /\ ListTypes /\ MailTypes /\ LaunchSound /\ FilesSound /\ KindsSound
  BY TypesByGroup DEF IInv, ListsSound
<1>2. /\ UNCHANGED <<launch, flushed, restarting, events, command>> /\ UNCHANGED <<adapter, requests, adapterLists>>
  BY DEF EditUnchanged, launchVars, sessionVars
<1>3. MailTypes'
  BY <1>1, PushKindTypes DEF MailTypes
<1>4. EntryComes => EntryComes'
  BY <1>2 DEF EntryComes
<1>5. KindsSound' /\ (\A f \in Files : f \in lost => f \in lost') /\ (launch = "none" => UNCHANGED boxes)
  BY <1>1, <1>2, <1>4, PushKindSound
<1>6. FilesSound'
  <2>1. FlushIsDue => FlushIsDue'
    BY <1>2 DEF FlushIsDue, StopComes
  <2> QED BY <1>1, <1>2, <1>5, <2>1, FilesStay
<1>7. CountsKept(breakpoints')
  BY DEF CountsKept
<1> QED BY <1>3, <1>5, <1>6, <1>7, EditSound

(* Prompts that stay, or that are closed. *)
LEMMA PromptsStay ==
  ASSUME TypeOK, edits' \in {edits, edits + 1}, UNCHANGED promptVars \/ BlurBreakpointInput
  PROVE  PromptTypes' /\ editingFilter' \in {{}, editingFilter}
<1>1. edits \in Nat /\ PlaceTypes
  BY TypesByGroup DEF WordTypes
<1>2. edits' \in Nat
  BY <1>1
<1> QED BY <1>1, <1>2 DEF PlaceTypes, PromptTypes, promptVars, BlurBreakpointInput, AtMostOne

(* Breakpoints that are taken away leave the others their counts. *)
LEMMA RemovedKeeps ==
  ASSUME NEW f, NEW l, AreBreakpoints(breakpoints)
  PROVE  CountsKept(Removed(breakpoints, f, l))
  BY RemovedTypes DEF CountsKept

(* A breakpoint that is new has no hits. *)
LEMMA AddedKeeps ==
  ASSUME AreBreakpoints(breakpoints), NEW f, NEW l, <<f, l>> \in Sites,
         NEW all, all = With(breakpoints, f, WithLine(Bucket(breakpoints, f), l, New))
  PROVE  /\ AreBreakpoints(all) /\ CountsKept(all)
         /\ \A g \in Files \ {f} : Listing(all, g) = Listing(breakpoints, g)
<1> DEFINE b == Bucket(breakpoints, f)
<1> DEFINE w == WithLine(b, l, New)
<1>1. f \in Files /\ New \in Breakpoint
  BY SitesArePairs DEF New, Breakpoint
<1>2. \A m \in DOMAIN b : <<f, m>> \in Sites /\ b[m] \in Breakpoint
  BY BucketTypes
<1>3. /\ w = [m \in DOMAIN w |-> w[m]] /\ DOMAIN w = DOMAIN b \cup {l}
      /\ w[l] = New /\ \A m \in DOMAIN b \ {l} : w[m] = b[m]
      /\ \A m \in DOMAIN w : <<f, m>> \in Sites /\ w[m] \in Breakpoint
  <2> HIDE DEF b
  <2> QED BY <1>1, <1>2, WithLineTypes
<1> HIDE DEF w
<1>4. /\ AreBreakpoints(all) /\ DOMAIN all = DOMAIN breakpoints \cup {f} /\ all[f] = w
      /\ \A g \in DOMAIN breakpoints \ {f} : all[g] = breakpoints[g]
      /\ \A g \in Files \ {f} : Listing(all, g) = Listing(breakpoints, g)
  <2>1. all = With(breakpoints, f, w)
    BY DEF w
  <2>2. (w = [m \in DOMAIN w |-> w[m]]) /\ \A m \in DOMAIN w : <<f, m>> \in Sites /\ w[m] \in Breakpoint
    BY <1>3
  <2>3. /\ AreBreakpoints(With(breakpoints, f, w))
        /\ DOMAIN With(breakpoints, f, w) = DOMAIN breakpoints \cup {f}
        /\ With(breakpoints, f, w)[f] = w
        /\ \A g \in DOMAIN breakpoints \ {f} : With(breakpoints, f, w)[g] = breakpoints[g]
        /\ \A g \in Files \ {f} : Listing(With(breakpoints, f, w), g) = Listing(breakpoints, g)
    BY <1>1, <2>2, WithTypes, Zenon
  <2> QED BY <2>1, <2>3, Zenon
<1>5. ASSUME NEW g \in DOMAIN all, NEW m \in DOMAIN all[g]
      PROVE  \/ all[g][m].count = 0
             \/ g \in DOMAIN breakpoints /\ m \in DOMAIN breakpoints[g] /\ all[g][m].count = breakpoints[g][m].count
  <2>1. CASE g # f
    BY <1>4, <2>1
  <2>2. CASE g = f /\ m = l
    BY <1>3, <1>4, <2>2 DEF New
  <2>3. CASE g = f /\ m # l
    <3>1. m \in DOMAIN b /\ all[g][m] = b[m]
      BY <1>3, <1>4, <2>3
    <3>2. f \in DOMAIN breakpoints /\ b = breakpoints[f]
      <4>1. DOMAIN <<>> = {}
        OBVIOUS
      <4> QED BY <3>1, <4>1 DEF Bucket
    <3> QED BY <2>3, <3>1, <3>2
  <2> QED BY <2>1, <2>2, <2>3
<1> QED BY <1>4, <1>5 DEF CountsKept

(* A breakpoint is removed. *)
LEMMA RemoveIsSound ==
  ASSUME IInv, NEW site \in Sites, RemoveBreakpointAt(site[1], site[2])
  PROVE  IInv'
<1>1. TypeOK /\ AreBreakpoints(breakpoints)
  BY TypesByGroup DEF IInv, ListTypes
<1>2. PICK f, l : f = site[1] /\ l = site[2]
  OBVIOUS
<1>3. f \in Files
  BY <1>2, SitesArePairs
<1>4. /\ edits' = edits + 1 /\ breakpoints' = Removed(breakpoints, f, l) /\ Push(breakpoints', {f})
      /\ UNCHANGED <<exceptions, functions, data, promptVars, boxes>> /\ EditUnchanged
  BY <1>2 DEF RemoveBreakpointAt, Edit
<1>5. PICK all : all = Removed(breakpoints, f, l)
  OBVIOUS
<1>6. /\ AreBreakpoints(all) /\ CountsKept(all)
      /\ \A g \in Files \ {f} : Listing(all, g) = Listing(breakpoints, g)
  BY <1>1, <1>5, RemovedTypes, RemovedKeeps
<1>7. PromptTypes' /\ editingFilter' \in {{}, editingFilter}
  BY <1>1, <1>4, PromptsStay
<1>8. breakpoints' = all /\ Push(all, {f}) /\ UNCHANGED <<exceptions, functions, data, boxes>>
  BY <1>4, <1>5
<1> QED BY <1>3, <1>4, <1>6, <1>7, <1>8, EditFileSound

(* A breakpoint is added. *)
LEMMA AddIsSound ==
  ASSUME IInv, NEW site \in Sites, AddBreakpointAt(site[1], site[2])
  PROVE  IInv'
<1>1. TypeOK /\ AreBreakpoints(breakpoints)
  BY TypesByGroup DEF IInv, ListTypes
<1>2. PICK f, l : f = site[1] /\ l = site[2]
  OBVIOUS
<1>3. f \in Files /\ <<f, l>> \in Sites
  BY <1>2, SitesArePairs
<1>4. edits' = edits + 1 /\ UNCHANGED <<exceptions, functions, data, promptVars, boxes>> /\ EditUnchanged
  BY <1>2 DEF AddBreakpointAt, Edit
<1>5. PromptTypes' /\ editingFilter' \in {{}, editingFilter}
  BY <1>1, <1>4, PromptsStay
<1>6. CASE /\ breakpoints' = With(breakpoints, f, WithLine(Bucket(breakpoints, f), l, New))
           /\ Push(breakpoints', {f})
  <2>1. PICK all : all = With(breakpoints, f, WithLine(Bucket(breakpoints, f), l, New))
    OBVIOUS
  <2>2. /\ AreBreakpoints(all) /\ CountsKept(all)
        /\ \A g \in Files \ {f} : Listing(all, g) = Listing(breakpoints, g)
    BY <1>1, <1>3, <2>1, AddedKeeps
  <2>3. breakpoints' = all /\ Push(all, {f}) /\ UNCHANGED <<exceptions, functions, data, boxes>>
    BY <1>4, <1>6, <2>1
  <2> QED BY <1>3, <1>4, <1>5, <2>2, <2>3, EditFileSound
<1>7. CASE f \notin DOMAIN breakpoints /\ breakpoints' = With(breakpoints, f, <<>>) /\ UNCHANGED <<sourceBox, lost>>
  <2>1. PICK all : all = With(breakpoints, f, <<>>)
    OBVIOUS
  <2>2. PICK b : b = <<>>
    OBVIOUS
  <2>3. b = [m \in DOMAIN b |-> b[m]] /\ DOMAIN b = {}
    BY <2>2
  <2>4. /\ AreBreakpoints(all) /\ DOMAIN all = DOMAIN breakpoints \cup {f} /\ all[f] = b
        /\ \A g \in DOMAIN breakpoints \ {f} : all[g] = breakpoints[g]
        /\ \A g \in Files \ {f} : Listing(all, g) = Listing(breakpoints, g)
    <3>1. (b = [m \in DOMAIN b |-> b[m]]) /\ \A m \in DOMAIN b : <<f, m>> \in Sites /\ b[m] \in Breakpoint
      BY <2>3
    <3>2. /\ AreBreakpoints(With(breakpoints, f, b))
          /\ DOMAIN With(breakpoints, f, b) = DOMAIN breakpoints \cup {f}
          /\ With(breakpoints, f, b)[f] = b
          /\ \A g \in DOMAIN breakpoints \ {f} : With(breakpoints, f, b)[g] = breakpoints[g]
          /\ \A g \in Files \ {f} : Listing(With(breakpoints, f, b), g) = Listing(breakpoints, g)
      BY <1>1, <1>3, <3>1, WithTypes, Zenon
    <3> QED BY <2>1, <2>2, <3>2, Zenon
  <2>5. Listing(all, f) = {} /\ Listing(breakpoints, f) = {}
    BY <1>7, <2>3, <2>4, ListingOf
  <2>6. CountsKept(all)
    BY <2>3, <2>4 DEF CountsKept
  <2>7. Push(all, {}) /\ breakpoints' = all /\ UNCHANGED <<exceptions, functions, data, boxes>>
    BY <1>4, <1>7, <2>1 DEF Push
  <2>8. \A g \in Files \ {} : Listing(all, g) = Listing(breakpoints, g)
    BY <2>4, <2>5
  <2> QED BY <1>4, <1>5, <2>4, <2>6, <2>7, <2>8, EditFileSound
<1> QED BY <1>2, <1>6, <1>7 DEF AddBreakpointAt

(* The prompt of a breakpoint opens. *)
LEMMA BeginEditIsSound ==
  ASSUME IInv, NEW site \in Sites, NEW onHits \in BOOLEAN, BeginEditBreakpoint(site[1], site[2], onHits)
  PROVE  IInv'
<1>1. TypeOK /\ AreBreakpoints(breakpoints) /\ PlaceTypes /\ edits \in Nat
  BY TypesByGroup DEF IInv, ListTypes, WordTypes
<1>2. site[1] \in Files /\ site[2] \in Lines
  BY SitesArePairs
<1>3. /\ editing' = {[file |-> site[1], line |-> site[2], hit |-> onHits]} /\ EditUnchanged
      /\ UNCHANGED <<edits, breakpoints, exceptions, functions, data, editingFilter, sourceBox, boxes, lost>>
  BY DEF BeginEditBreakpoint, listVars, boxVars
<1>4. PromptTypes' /\ editingFilter' \in {{}, editingFilter}
  BY <1>1, <1>2, <1>3 DEF PlaceTypes, PromptTypes, AtMostOne
<1>5. PICK all : all = breakpoints
  OBVIOUS
<1>6. AreBreakpoints(all) /\ Push(all, {}) /\ CountsKept(all) /\ breakpoints' = all
  BY <1>1, <1>3, <1>5 DEF Push, CountsKept
<1>7. \A g \in Files \ {} : Listing(all, g) = Listing(breakpoints, g)
  BY <1>5
<1> QED BY <1>3, <1>4, <1>6, <1>7, EditFileSound

(* The other lists when one of them changes. *)
LEMMA OthersStay ==
  /\ UNCHANGED <<functions, data>> => \A j \in Kinds \ {"exception"} : Current(j)' = Current(j)
  /\ UNCHANGED <<exceptions, data>> => \A j \in Kinds \ {"function"} : Current(j)' = Current(j)
  /\ UNCHANGED <<exceptions, functions>> => \A j \in Kinds \ {"data"} : Current(j)' = Current(j)
  /\ Current("exception")' = ToldExceptions(exceptions') /\ Current("function")' = functions'
  /\ Current("data")' = data'
  BY DEF Current, Kinds

(* The filters change, and the adapter supports them. *)
LEMMA FiltersAreSound ==
  ASSUME IInv, EditUnchanged, PromptTypes', known,
         exceptions' \in [Items -> [enabled : BOOLEAN, condition : BOOLEAN]],
         PushKind("exception", ToldExceptions(exceptions')), UNCHANGED <<breakpoints, functions, data, sourceBox>>
  PROVE  IInv'
<1>1. ListTypes
  BY TypesByGroup DEF IInv
<1>2. ListTypes'
  BY <1>1 DEF ListTypes
<1>3. PICK list : list = ToldExceptions(exceptions')
  OBVIOUS
<1>4. list \in KindLists /\ PushKind("exception", list) /\ Current("exception")' = list
  BY <1>3, KindListTypes, OthersStay
<1>5. "exception" \in Kinds /\ \A j \in Kinds \ {"exception"} : Current(j)' = Current(j)
  BY OthersStay DEF Kinds
<1> QED BY <1>2, <1>4, <1>5, EditKindSound

(* A condition is submitted. *)
LEMMA SubmitIsSound ==
  ASSUME IInv, NEW value \in BOOLEAN, SubmitCondition(value)
  PROVE  IInv'
<1>1. TypeOK /\ AreBreakpoints(breakpoints) /\ PlaceTypes /\ ListTypes /\ LaunchSound
  BY TypesByGroup DEF IInv, ListTypes, ListsSound
<1>2. /\ edits' = edits + 1 /\ editing' = {} /\ editingFilter' = {} /\ BlurBreakpointInput /\ EditUnchanged
      /\ UNCHANGED <<functions, data>>
  BY DEF SubmitCondition, Edit, BlurBreakpointInput
<1>3. PromptTypes' /\ editingFilter' \in {{}, editingFilter}
  BY <1>1, <1>2, PromptsStay
<1>4. CASE /\ editingFilter # {} /\ \E x \in editingFilter : SetExceptionCondition(x, value)
           /\ UNCHANGED <<breakpoints, sourceBox>>
  <2>1. PICK x \in editingFilter :
           /\ exceptions' = [exceptions EXCEPT ![x] = [enabled |-> @.enabled \/ value, condition |-> value]]
           /\ PushKind("exception", ToldExceptions(exceptions'))
    BY <1>4 DEF SetExceptionCondition
  <2>2. x \in Items /\ known
    BY <1>1, <1>4 DEF PlaceTypes, AtMostOne, LaunchSound
  <2>3. exceptions' \in [Items -> [enabled : BOOLEAN, condition : BOOLEAN]]
    <3>1. exceptions \in [Items -> [enabled : BOOLEAN, condition : BOOLEAN]]
      BY <1>1 DEF ListTypes
    <3>2. (exceptions[x].enabled \/ value) \in BOOLEAN
      OBVIOUS
    <3>3. [enabled |-> exceptions[x].enabled \/ value, condition |-> value]
             \in [enabled : BOOLEAN, condition : BOOLEAN]
      BY <3>2
    <3> QED BY <2>1, <3>1, <3>3
  <2> QED BY <1>2, <1>3, <1>4, <2>1, <2>2, <2>3, FiltersAreSound
<1>5. CASE /\ \E prompt \in editing : SetCondition(prompt.file, prompt.line, prompt.hit, value)
           /\ UNCHANGED <<exceptions, boxes>>
  <2>1. PICK prompt \in editing : SetCondition(prompt.file, prompt.line, prompt.hit, value)
    BY <1>5
  <2>2. prompt.file \in Files /\ prompt.hit \in BOOLEAN
    BY <1>1 DEF PlaceTypes, AtMostOne
  <2>3. PICK f, l : f = prompt.file /\ l = prompt.line
    OBVIOUS
  <2>4. CASE l \notin DOMAIN Bucket(breakpoints, f)
    <3>1. UNCHANGED <<breakpoints, sourceBox, lost>>
      BY <2>1, <2>3, <2>4 DEF SetCondition
    <3>2. PICK all : all = breakpoints
      OBVIOUS
    <3>3. AreBreakpoints(all) /\ Push(all, {}) /\ CountsKept(all) /\ breakpoints' = all
      BY <1>1, <3>1, <3>2 DEF Push, CountsKept
    <3>4. \A g \in Files \ {} : Listing(all, g) = Listing(breakpoints, g)
      BY <3>2
    <3> QED BY <1>2, <1>3, <1>5, <3>3, <3>4, EditFileSound
  <2>5. CASE l \in DOMAIN Bucket(breakpoints, f)
    <3> DEFINE old == breakpoints[f][l]
    <3> DEFINE entry == IF prompt.hit THEN WithHitCondition(old, value) ELSE WithCondition(old, value)
    <3>1. f \in DOMAIN breakpoints /\ l \in DOMAIN breakpoints[f]
      <4>1. DOMAIN <<>> = {}
        OBVIOUS
      <4> QED BY <2>5, <4>1 DEF Bucket
    <3>2. old \in Breakpoint
      BY <1>1, <3>1 DEF AreBreakpoints
    <3>3. entry \in Breakpoint /\ (entry.count = 0 \/ entry.count = old.count)
      BY <2>2, <3>2 DEF Breakpoint, WithHitCondition, WithCondition
    <3>4. breakpoints' = [breakpoints EXCEPT ![f][l] = entry] /\ Push(breakpoints', {f})
      BY <2>1, <2>3, <2>5 DEF SetCondition
    <3> HIDE DEF entry
    <3>5. PICK all : Changes(breakpoints, f, l, entry, all)
      BY DEF Changes
    <3>6. /\ AreBreakpoints(all) /\ DOMAIN all = DOMAIN breakpoints
          /\ \A g \in DOMAIN breakpoints : DOMAIN all[g] = DOMAIN breakpoints[g]
          /\ all[f][l] = entry
          /\ \A g \in DOMAIN breakpoints : \A m \in DOMAIN breakpoints[g] :
                <<g, m>> # <<f, l>> => all[g][m] = breakpoints[g][m]
          /\ \A g : g # f => Listing(all, g) = Listing(breakpoints, g)
      BY <1>1, <3>1, <3>3, <3>5, EntryChanges
    <3>7. CountsKept(all)
      BY <3>1, <3>3, <3>6 DEF CountsKept
    <3>8. f \in Files /\ breakpoints' = all /\ Push(all, {f})
      BY <2>2, <2>3, <3>4, <3>5 DEF Changes
    <3> QED BY <1>2, <1>3, <1>5, <3>6, <3>7, <3>8, EditFileSound
  <2> QED BY <2>4, <2>5
<1> QED BY <1>4, <1>5 DEF SubmitCondition

(* A filter is switched. *)
LEMMA ToggleExceptionIsSound ==
  ASSUME IInv, NEW x \in Items, ToggleException(x)
  PROVE  IInv'
<1>1. TypeOK /\ exceptions \in [Items -> [enabled : BOOLEAN, condition : BOOLEAN]]
  BY TypesByGroup DEF IInv, ListTypes
<1>2. /\ edits' = edits + 1 /\ UNCHANGED promptVars /\ EditUnchanged /\ known
      /\ exceptions' = [exceptions EXCEPT ![x].enabled = ~@]
      /\ PushKind("exception", ToldExceptions(exceptions')) /\ UNCHANGED <<breakpoints, functions, data, sourceBox>>
  BY DEF ToggleException, Edit
<1>3. PromptTypes'
  BY <1>1, <1>2, PromptsStay
<1>4. exceptions' \in [Items -> [enabled : BOOLEAN, condition : BOOLEAN]]
  BY <1>1, <1>2
<1> QED BY <1>2, <1>3, <1>4, FiltersAreSound

(* The prompt of a filter opens, and the filter is switched on.              *)
LEMMA BeginExceptionIsSound ==
  ASSUME IInv, NEW x \in Items, BeginEditException(x)
  PROVE  IInv'
<1>1. /\ TypeOK /\ exceptions \in [Items -> [enabled : BOOLEAN, condition : BOOLEAN]] /\ edits \in Nat
      /\ AreBreakpoints(breakpoints) /\ LaunchSound /\ ListTypes
  BY TypesByGroup DEF IInv, ListTypes, WordTypes, ListsSound
<1>2. /\ edits' = edits + 1 /\ editing' = {} /\ editingFilter' = {x} /\ EditUnchanged /\ known
      /\ exceptions' = [exceptions EXCEPT ![x].enabled = TRUE]
      /\ UNCHANGED <<breakpoints, functions, data, sourceBox>>
  BY DEF BeginEditException, Edit
<1>3. PromptTypes'
  BY <1>1, <1>2 DEF PromptTypes, AtMostOne
<1>4. exceptions' \in [Items -> [enabled : BOOLEAN, condition : BOOLEAN]]
  BY <1>1, <1>2
<1>5. CASE exceptions[x].enabled /\ UNCHANGED <<boxes, lost>>
  <2>1. exceptions' = exceptions
    <3>1. \A y \in Items : exceptions'[y] = exceptions[y]
      BY <1>1, <1>2, <1>5
    <3> QED BY <1>1, <1>4, <3>1
  <2>2. /\ MailTypes /\ FilesSound /\ KindsSound
    BY TypesByGroup DEF IInv, ListsSound
  <2>3. /\ UNCHANGED <<launch, flushed, restarting, events, command>> /\ UNCHANGED <<adapter, requests, adapterLists>>
    BY <1>2 DEF EditUnchanged, launchVars, sessionVars
  <2>4. ListTypes' /\ MailTypes'
    BY <1>1, <1>2, <1>5, <2>1, <2>2 DEF ListTypes, MailTypes
  <2>5. FilesSound'
    <3>1. FlushIsDue => FlushIsDue'
      BY <2>3 DEF FlushIsDue, StopComes
    <3> QED BY <1>2, <1>5, <2>2, <2>3, <3>1, FilesStay
  <2>6. KindsSound'
    <3>1. EntryComes => EntryComes'
      BY <2>3 DEF EntryComes
    <3> QED BY <1>2, <1>5, <2>1, <2>2, <2>3, <3>1, KindsStay
  <2>7. CountsKept(breakpoints')
    BY <1>2 DEF CountsKept
  <2> QED BY <1>2, <1>3, <1>5, <2>4, <2>5, <2>6, <2>7, EditSound
<1>6. CASE PushKind("exception", ToldExceptions(exceptions'))
  BY <1>2, <1>3, <1>4, <1>6, FiltersAreSound
<1> QED BY <1>5, <1>6 DEF BeginEditException

(* A function breakpoint is added or removed. *)
LEMMA ToggleFunctionIsSound ==
  ASSUME IInv, NEW x \in Items, ToggleFunction(x)
  PROVE  IInv'
<1>1. TypeOK /\ ListTypes /\ LaunchSound
  BY TypesByGroup DEF IInv, ListsSound
<1>2. /\ edits' = edits + 1 /\ UNCHANGED promptVars /\ EditUnchanged
      /\ functions' \in {functions \cup {x}, functions \ {x}}
      /\ PushKind("function", functions') /\ UNCHANGED <<breakpoints, exceptions, data, sourceBox>>
  BY DEF ToggleFunction, Edit, AddFunction, RemoveFunction
<1>3. PromptTypes' /\ editingFilter' \in {{}, editingFilter}
  BY <1>1, <1>2, PromptsStay
<1>4. functions' \in SUBSET Items
  BY <1>1, <1>2 DEF ListTypes
<1>5. ListTypes'
  BY <1>1, <1>2, <1>4 DEF ListTypes
<1>6. PICK list : list = functions'
  OBVIOUS
<1>7. list \in KindLists /\ PushKind("function", list) /\ Current("function")' = list
  BY <1>2, <1>4, <1>6, KindListTypes, OthersStay
<1>8. "function" \in Kinds /\ \A j \in Kinds \ {"function"} : Current(j)' = Current(j)
  BY <1>2, OthersStay DEF Kinds
<1>9. ~known => data' = {} /\ editingFilter' = {}
  BY <1>1, <1>2, <1>3 DEF LaunchSound
<1> QED BY <1>2, <1>3, <1>5, <1>7, <1>8, <1>9, EditKindSound

(* A data breakpoint is removed. *)
LEMMA RemoveDataIsSound ==
  ASSUME IInv, NEW x \in Items, RemoveData(x)
  PROVE  IInv'
<1>1. TypeOK /\ ListTypes /\ LaunchSound
  BY TypesByGroup DEF IInv, ListsSound
<1>2. /\ edits' = edits + 1 /\ UNCHANGED promptVars /\ EditUnchanged /\ x \in data /\ data' = data \ {x}
      /\ PushKind("data", data') /\ UNCHANGED <<breakpoints, exceptions, functions, sourceBox>>
  BY DEF RemoveData, Edit
<1>3. PromptTypes'
  BY <1>1, <1>2, PromptsStay
<1>4. known /\ data' \in SUBSET Items
  BY <1>1, <1>2 DEF ListTypes, LaunchSound
<1>5. ListTypes'
  BY <1>1, <1>2, <1>4 DEF ListTypes
<1>6. PICK list : list = data'
  OBVIOUS
<1>7. list \in KindLists /\ PushKind("data", list) /\ Current("data")' = list
  BY <1>2, <1>4, <1>6, KindListTypes, OthersStay
<1>8. "data" \in Kinds /\ \A j \in Kinds \ {"data"} : Current(j)' = Current(j)
  BY <1>2, OthersStay DEF Kinds
<1> QED BY <1>2, <1>3, <1>4, <1>5, <1>7, <1>8, EditKindSound

(* A data breakpoint is asked for. *)
LEMMA RequestDataIsSound ==
  ASSUME IInv, NEW x \in Items, RequestData(x)
  PROVE  IInv'
<1>1. /\ WordTypes /\ ListTypes /\ PlaceTypes /\ MailTypes /\ EventTypes /\ AdapterTypes /\ TypeOK
      /\ ListsSound /\ HitsSound
  BY TypesByGroup DEF IInv
<1>2. /\ edits' = edits + 1 /\ resolving' = {x} /\ infoBox' = {x} /\ known
      /\ UNCHANGED <<launch, known, flushed, restarting, state, breakpoints, exceptions, functions, data>>
      /\ UNCHANGED <<lastCounted, catchSkip, inCatch, editing, editingFilter, commands, command>>
      /\ UNCHANGED <<sourceBox, boxes, events, lost, seen, misled>>
      /\ UNCHANGED <<session, stopped, requests, hits, adapter, adapterLists, passes, stops>>
  BY DEF RequestData, Edit, launchVars, listVars, countVars, promptVars, boxVars, sessionVars
<1>3. WordTypes' /\ ListTypes'
  BY <1>1, <1>2 DEF WordTypes, ListTypes
<1>4. PlaceTypes' /\ MailTypes'
  BY <1>1, <1>2 DEF PlaceTypes, MailTypes, AtMostOne
<1>5. EventTypes' /\ AdapterTypes'
  BY <1>1, <1>2 DEF EventTypes, AdapterTypes
<1>6. TypeOK'
  BY <1>3, <1>4, <1>5, NextTypesByGroup
<1>7. LaunchSound' /\ RunningIsFirst' /\ FlushComes'
  BY <1>1, <1>2 DEF ListsSound, LaunchSound, RunningIsFirst, FlushComes, StopComes
<1>8. FilesSound' /\ KindsSound'
  BY <1>1, <1>2, FilesStay, KindsStay DEF ListsSound, FlushIsDue, StopComes, EntryComes
<1>9. HitsSound'
  <2>1. AreBreakpoints(breakpoints') /\ CountsKept(breakpoints')
    BY <1>1, <1>2 DEF ListTypes, CountsKept
  <2> QED BY <1>1, <1>2, <2>1, HitsStay
<1> QED BY <1>6, <1>7, <1>8, <1>9 DEF IInv, ListsSound

-----------------------------------------------------------------------------
(* The user lets the program go on. *)

(* A breakpoint is added in the catch block the program is to run to.        *)
LEMMA SkipIsSound ==
  ASSUME IInv, NEW site \in Sites, SkipToCatch(site[1], site[2]), launch = "handled", known,
         UNCHANGED <<launch, flushed, events, adapter, requests, boxes>>
  PROVE  /\ AreBreakpoints(breakpoints') /\ CountsKept(breakpoints') /\ MailTypes' /\ FilesSound'
         /\ \A k \in Kinds : k \in lost => k \in lost'
         /\ AtMostOne(catchSkip', [file : Files, line : Lines, added : BOOLEAN])
<1>1. TypeOK /\ AreBreakpoints(breakpoints) /\ MailTypes /\ LaunchSound /\ FilesSound
  BY TypesByGroup DEF IInv, ListTypes, ListsSound
<1>2. PICK f, l : f = site[1] /\ l = site[2]
  OBVIOUS
<1>3. f \in Files /\ l \in Lines /\ <<f, l>> \in Sites
  BY <1>2, SitesArePairs
<1>4. AtMostOne(catchSkip', [file : Files, line : Lines, added : BOOLEAN])
  BY <1>2, <1>3 DEF SkipToCatch, AtMostOne
<1>5. FlushIsDue => FlushIsDue'
  BY DEF FlushIsDue, StopComes
<1>6. CASE /\ breakpoints' = With(breakpoints, f, WithLine(Bucket(breakpoints, f), l, New))
           /\ Push(breakpoints', {f})
  <2>1. PICK all : all = With(breakpoints, f, WithLine(Bucket(breakpoints, f), l, New))
    OBVIOUS
  <2>2. /\ AreBreakpoints(all) /\ CountsKept(all)
        /\ \A g \in Files \ {f} : Listing(all, g) = Listing(breakpoints, g)
    BY <1>1, <1>3, <2>1, AddedKeeps
  <2>3. breakpoints' = all /\ Push(all, {f})
    BY <1>6, <2>1
  <2>4. MailTypes'
    BY <1>1, <1>3, <2>2, <2>3, PushTypes DEF MailTypes
  <2>5. FilesSound' /\ \A k \in Kinds : k \in lost => k \in lost'
    BY <1>1, <1>3, <1>5, <2>2, <2>3, PushSound
  <2> QED BY <1>4, <2>2, <2>3, <2>4, <2>5
<1>7. CASE UNCHANGED <<breakpoints, sourceBox, lost>>
  <2>1. AreBreakpoints(breakpoints') /\ CountsKept(breakpoints')
    BY <1>1, <1>7 DEF CountsKept
  <2>2. MailTypes'
    BY <1>1, <1>7 DEF MailTypes
  <2>3. FilesSound'
    BY <1>1, <1>5, <1>7, FilesStay
  <2> QED BY <1>4, <1>7, <2>1, <2>2, <2>3
<1> QED BY <1>2, <1>6, <1>7 DEF SkipToCatch

(* A command is sent. *)
LEMMA SendIsSound ==
  ASSUME IInv, NEW op \in Commands, SendCommand(op)
  PROVE  IInv'
<1>1. /\ WordTypes /\ ListTypes /\ PlaceTypes /\ MailTypes /\ EventTypes /\ AdapterTypes /\ TypeOK
      /\ ListsSound /\ HitsSound
  BY TypesByGroup DEF IInv
<1>2. /\ launch = "handled" /\ known /\ commands' = commands + 1 /\ inCatch' = (inCatch /\ state' = state)
      /\ UNCHANGED <<launch, known, flushed, exceptions, functions, data, resolving, editing, editingFilter, edits>>
      /\ UNCHANGED <<boxes, infoBox, events, seen, misled>>
      /\ UNCHANGED <<session, stopped, requests, hits, adapter, adapterLists, passes, stops>>
  BY DEF SendCommand, CommandUnchanged, promptVars, sessionVars
<1>3. /\ AreBreakpoints(breakpoints') /\ CountsKept(breakpoints') /\ MailTypes' /\ FilesSound'
      /\ \A k \in Kinds : k \in lost => k \in lost'
      /\ AtMostOne(catchSkip', [file : Files, line : Lines, added : BOOLEAN])
      /\ command' \in Commands /\ lastCounted' \in {{}, lastCounted} /\ state' \in {"running", state}
      /\ restarting' \in BOOLEAN /\ (restarting => restarting') /\ (command' = "restart" => restarting')
  <2>1. CASE \E site \in Sites : SkipToCatch(site[1], site[2])
    <3>1. PICK site \in Sites : SkipToCatch(site[1], site[2])
      BY <2>1
    <3>2. /\ AreBreakpoints(breakpoints') /\ CountsKept(breakpoints') /\ MailTypes' /\ FilesSound'
          /\ \A k \in Kinds : k \in lost => k \in lost'
          /\ AtMostOne(catchSkip', [file : Files, line : Lines, added : BOOLEAN])
      BY <1>2, <3>1, SkipIsSound
    <3>3. /\ command' = "continue" /\ lastCounted' = {} /\ restarting' = restarting
          /\ state' \in {"running", state}
      BY <3>1 DEF SkipToCatch, Started
    <3>4. restarting \in BOOLEAN
      BY <1>1 DEF WordTypes
    <3> QED BY <3>2, <3>3, <3>4 DEF Commands
  <2>2. CASE /\ command' = op
             /\ IF op = "step_into" THEN Started /\ lastCounted' = {} ELSE UNCHANGED <<state, lastCounted>>
             /\ restarting' = (restarting \/ op = "restart")
             /\ UNCHANGED <<breakpoints, catchSkip, sourceBox, lost>>
    <3>1. AreBreakpoints(breakpoints') /\ CountsKept(breakpoints')
      BY <1>1, <2>2 DEF ListTypes, CountsKept
    <3>2. MailTypes' /\ AtMostOne(catchSkip', [file : Files, line : Lines, added : BOOLEAN])
      BY <1>1, <1>2, <2>2 DEF MailTypes, PlaceTypes
    <3>3. FilesSound'
      BY <1>1, <1>2, <2>2, FilesStay DEF ListsSound, FlushIsDue, StopComes
    <3>4. command' \in Commands /\ lastCounted' \in {{}, lastCounted} /\ state' \in {"running", state}
      BY <2>2 DEF Started
    <3>5. restarting' \in BOOLEAN /\ (restarting => restarting') /\ (command' = "restart" => restarting')
      BY <2>2
    <3>6. \A k \in Kinds : k \in lost => k \in lost'
      BY <2>2
    <3> QED BY <3>1, <3>2, <3>3, <3>4, <3>5, <3>6
  <2> QED BY <2>1, <2>2 DEF SendCommand
<1>4. WordTypes' /\ ListTypes'
  BY <1>1, <1>2, <1>3 DEF WordTypes, ListTypes
<1>5. PlaceTypes' /\ MailTypes'
  BY <1>1, <1>2, <1>3 DEF PlaceTypes, AtMostOne
<1>6. EventTypes' /\ AdapterTypes'
  BY <1>1, <1>2 DEF EventTypes, AdapterTypes
<1>7. TypeOK'
  BY <1>4, <1>5, <1>6, NextTypesByGroup
<1>8. LaunchSound' /\ RunningIsFirst' /\ FlushComes'
  BY <1>1, <1>2 DEF ListsSound, LaunchSound, RunningIsFirst, FlushComes, StopComes
<1>9. KindsSound'
  <2>1. EntryComes => EntryComes'
    BY <1>2 DEF EntryComes
  <2> QED BY <1>1, <1>2, <1>3, <2>1, KindsStay DEF ListsSound
<1>10. HitsSound'
  BY <1>1, <1>2, <1>3, HitsStay
<1> QED BY <1>3, <1>7, <1>8, <1>9, <1>10 DEF IInv, ListsSound

(* The UI learns that the program is launched. *)
LEMMA LaunchCompleteIsSound ==
  ASSUME IInv, HandleLaunchComplete
  PROVE  IInv'
<1>1. /\ WordTypes /\ ListTypes /\ PlaceTypes /\ MailTypes /\ EventTypes /\ AdapterTypes /\ TypeOK
      /\ LaunchSound /\ RunningIsFirst /\ FlushComes /\ FilesSound /\ KindsSound /\ HitsSound
  BY TypesByGroup DEF IInv, ListsSound
<1>2. /\ launch = "up" /\ launch' = "handled"
      /\ UNCHANGED <<known, restarting, state, breakpoints, exceptions, functions, data, resolving>>
      /\ UNCHANGED <<lastCounted, catchSkip, inCatch, editing, editingFilter, edits, commands, command, infoBox>>
      /\ UNCHANGED <<events, seen, misled>>
      /\ UNCHANGED <<session, stopped, requests, hits, adapter, adapterLists, passes, stops>>
  BY DEF HandleLaunchComplete, listVars, countVars, promptVars, sessionVars
<1>3. ~flushed /\ command # "restart"
  BY <1>1, <1>2 DEF LaunchSound
<1>4. FilesSound' /\ KindsSound' /\ MailTypes' /\ FlushComes' /\ flushed' \in BOOLEAN
  <2>1. CASE IsStopped /\ Flush(breakpoints, exceptions, {}) /\ flushed' = TRUE
    <3>1. PICK all : all = breakpoints
      OBVIOUS
    <3>2. AreBreakpoints(all) /\ Flush(all, exceptions', {}) /\ breakpoints' = all
      BY <1>1, <1>2, <2>1, <3>1 DEF ListTypes
    <3>3. \A g \in Files \ {} : Listing(all, g) = Listing(breakpoints, g)
      BY <3>1
    <3>4. FilesSound' /\ BoxesSound' /\ \A k \in Kinds : boxes'[k] # {}
      BY <1>1, <1>2, <3>2, <3>3, FlushSound
    <3>5. KindsSound'
      BY <1>2, <1>3, <3>4 DEF KindsSound, KindSound, RestartSound
    <3>6. MailTypes'
      <4>1. Flush(all, exceptions, {}) /\ exceptions \in [Items -> [enabled : BOOLEAN, condition : BOOLEAN]]
        BY <1>1, <2>1, <3>1 DEF ListTypes
      <4> QED BY <1>1, <3>2, <4>1, FlushTypes
    <3>7. FlushComes' /\ flushed' \in BOOLEAN
      BY <1>2, <2>1 DEF FlushComes
    <3> QED BY <3>4, <3>5, <3>6, <3>7
  <2>2. CASE ~IsStopped /\ UNCHANGED <<flushed, boxVars, lost>>
    <3>1. UNCHANGED <<flushed, sourceBox, boxes, lost>> /\ state # "stopped"
      BY <2>2 DEF boxVars, IsStopped
    <3>2. FilesSound'
      BY <1>1, <1>2, <1>3, <3>1, FilesStay DEF FlushIsDue
    <3>3. KindsSound'
      <4>1. EntryComes => EntryComes'
        BY <1>2 DEF EntryComes
      <4> QED BY <1>1, <1>2, <1>3, <3>1, <4>1, KindsStay
    <3>4. MailTypes' /\ flushed' \in BOOLEAN
      BY <1>1, <3>1 DEF MailTypes, WordTypes
    <3>5. FlushComes'
      BY <1>1, <1>2, <3>1 DEF FlushComes, StopComes
    <3> QED BY <3>2, <3>3, <3>4, <3>5
  <2> QED BY <2>1, <2>2 DEF HandleLaunchComplete
<1>5. WordTypes' /\ ListTypes' /\ PlaceTypes'
  BY <1>1, <1>2, <1>4 DEF WordTypes, ListTypes, PlaceTypes
<1>6. EventTypes' /\ AdapterTypes'
  BY <1>1, <1>2 DEF EventTypes, AdapterTypes
<1>7. TypeOK'
  BY <1>4, <1>5, <1>6, NextTypesByGroup
<1>8. LaunchSound' /\ RunningIsFirst'
  BY <1>1, <1>2 DEF LaunchSound, RunningIsFirst
<1>9. HitsSound'
  <2>1. AreBreakpoints(breakpoints') /\ CountsKept(breakpoints')
    BY <1>1, <1>2 DEF ListTypes, CountsKept
  <2> QED BY <1>1, <1>2, <2>1, HitsStay
<1> QED BY <1>4, <1>7, <1>8, <1>9 DEF IInv, ListsSound

-----------------------------------------------------------------------------
(* The worker. *)

(* What is left of the invariant when the worker, the session or the program *)
(* made a step.                                                              *)
LEMMA WorkerSound ==
  ASSUME IInv, UiUnchanged, UNCHANGED misled,
         launch' \in {"none", "up", "handled"}, command' \in Commands \cup {"none"},
         session' \in {"none", "running", "stopped"}, stops' \in Nat, infoBox' \in {{}, infoBox},
         MailTypes', EventTypes', AdapterTypes',
         LaunchSound', RunningIsFirst', FlushComes', FilesSound', KindsSound', EventsSound', PassesSound'
  PROVE  IInv'
<1>1. /\ WordTypes /\ ListTypes /\ PlaceTypes /\ TypeOK /\ HitsSound
  BY TypesByGroup DEF IInv
<1>2. /\ UNCHANGED <<known, flushed, restarting, state, breakpoints, exceptions, functions, data, resolving>>
      /\ UNCHANGED <<lastCounted, catchSkip, inCatch, editing, editingFilter, edits, commands, seen>>
  BY DEF UiUnchanged, listVars, countVars, promptVars
<1>3. WordTypes' /\ ListTypes' /\ PlaceTypes'
  BY <1>1, <1>2 DEF WordTypes, ListTypes, PlaceTypes, AtMostOne
<1>4. TypeOK'
  BY <1>3, NextTypesByGroup
<1>5. CountsSound'
  BY <1>1, <1>2 DEF HitsSound, CountsSound
<1> QED BY <1>4, <1>5 DEF IInv, ListsSound, HitsSound

(* What the worker leaves to the user interface. *)
LEMMA UiStays ==
  ASSUME UiUnchanged
  PROVE  /\ UNCHANGED <<known, flushed, restarting, state, breakpoints, exceptions, functions, data, resolving>>
         /\ UNCHANGED <<lastCounted, catchSkip, inCatch, editing, editingFilter, edits, commands, seen>>
  BY DEF UiUnchanged, listVars, countVars, promptVars

(* No site was passed, and no breakpoint is set. *)
LEMMA NothingTypes ==
  /\ NoHits \in PerSite /\ [f \in Files |-> {}] \in [Files -> Listings]
  /\ [k \in Kinds |-> {}] \in [Kinds -> KindLists]
  BY KindListTypes DEF NoHits, PerSite, Listings

(* A new adapter starts: what is told of it. *)
LEMMA NewSessionSound ==
  ASSUME IInv, NEW st \in {"running", "stopped"}, NewSession(st), UiUnchanged
  PROVE  /\ EventTypes' /\ AdapterTypes' /\ EventsSound' /\ PassesSound'
         /\ \A f \in Files : adapter'[f] = {} /\ requests'[f] = {}
         /\ \E e : /\ events' = Append(events, e) /\ e.kind = "snapshot" /\ e.state = st /\ e.stop = Entry
         /\ session' = st /\ stops' = stops
<1>1. /\ EventTypes /\ AdapterTypes /\ TypeOK /\ HitsSound
  BY TypesByGroup DEF IInv
<1>2. /\ session' = st /\ stopped' = Entry /\ requests' = [f \in Files |-> {}] /\ hits' = NoHits
      /\ adapter' = [f \in Files |-> {}] /\ adapterLists' = [k \in Kinds |-> {}]
      /\ events' = Append(events, Snapshot(st, Entry, NoHits, passes)) /\ UNCHANGED <<passes, stops, seen>>
  BY UiStays DEF NewSession
<1>3. passes \in PerSite /\ seen \in PerSite
  BY <1>1 DEF AdapterTypes
<1>4. PICK e : e = Snapshot(st, Entry, NoHits, passes)
  OBVIOUS
<1>5. e \in Events
  BY <1>3, <1>4, EventsAre, StopPlaces, NothingTypes
<1>6. EventTypes'
  BY <1>1, <1>2, <1>4, <1>5, QueuesGrow DEF EventTypes
<1>7. AdapterTypes'
  BY <1>1, <1>2, NothingTypes, StopPlaces DEF AdapterTypes
<1>8. e.kind = "snapshot" /\ e.state = st /\ e.stop = Entry /\ e.hits = NoHits /\ e.passed = passes
  BY <1>4 DEF Snapshot
<1>9. \A s \in Sites : /\ NoHits[s] = 0 /\ passes[s] \in Nat /\ seen[s] \in Nat
                        /\ seen[s] <= passes[s] /\ passes[s] <= stops
  BY <1>1, <1>3 DEF NoHits, PerSite, HitsSound, PassesSound
<1>10. EventSound(e)'
  BY <1>2, <1>8, <1>9 DEF EventSound, HasCounts
<1>11. EventsSound'
  <2>1. \A s \in Sites : passes[s] <= passes'[s]
    BY <1>2, <1>9
  <2>2. passes' \in PerSite /\ seen' = seen /\ events' = Append(events, e) /\ e.passed = passes'
    BY <1>2, <1>3, <1>4, <1>8
  <2> QED BY <1>1, <1>10, <2>1, <2>2, EventsGrowSound
<1>12. PassesSound'
  BY <1>2, <1>9 DEF PassesSound
<1>13. \A f \in Files : adapter'[f] = {} /\ requests'[f] = {}
  BY <1>2
<1> QED BY <1>2, <1>4, <1>6, <1>7, <1>8, <1>11, <1>12, <1>13

(* The launch. *)
LEMMA LaunchWorkerIsSound ==
  ASSUME IInv, LaunchWorker
  PROVE  IInv'
<1>1. /\ WordTypes /\ MailTypes /\ TypeOK
      /\ LaunchSound /\ RunningIsFirst /\ FilesSound /\ KindsSound
  BY TypesByGroup DEF IInv, ListsSound
<1>2. /\ launch = "none" /\ launch' = "up" /\ UiUnchanged
      /\ UNCHANGED <<command, sourceBox, boxes, infoBox, lost, misled>>
  BY DEF LaunchWorker, boxVars
<1>3. PICK st \in {"running", "stopped"} : NewSession(st)
  BY DEF LaunchWorker
<1>4. /\ EventTypes' /\ AdapterTypes' /\ EventsSound' /\ PassesSound'
      /\ \A f \in Files : adapter'[f] = {} /\ requests'[f] = {}
      /\ session' = st /\ stops' = stops
  BY <1>2, <1>3, NewSessionSound
<1>5. PICK e : events' = Append(events, e) /\ e.kind = "snapshot" /\ e.state = st /\ e.stop = Entry
  BY <1>2, <1>3, NewSessionSound
<1>6. /\ UNCHANGED <<known, flushed, restarting, state, breakpoints, exceptions, functions, data, resolving>>
      /\ UNCHANGED editingFilter
  BY <1>2, UiStays
<1>7. events = <<>> /\ ~known /\ sourceBox = {}
  BY <1>1, <1>2 DEF LaunchSound
<1>8. RunningIsFirst' /\ (st = "stopped" => StopComes')
  BY <1>1, <1>5, <1>6, <1>7, EventsGrow
<1>9. LaunchSound'
  BY <1>1, <1>2, <1>6 DEF LaunchSound
<1>10. FlushComes'
  BY <1>2, <1>4, <1>8 DEF FlushComes
<1>11. FilesSound'
  <2>1. ASSUME NEW f \in Files PROVE FileSound(f)'
    <3>1. adapter'[f] = {} /\ requests'[f] = {} /\ launch' = "up"
      BY <1>2, <1>4
    <3> QED BY <3>1 DEF FileSound, Agrees, FlushIsDue
  <2> QED BY <1>2, <1>7, <2>1 DEF FilesSound, PostsSound
<1>12. KindsSound'
  <2>1. launch' # "handled" /\ command' # "restart"
    BY <1>1, <1>2 DEF LaunchSound
  <2>2. BoxesSound'
    BY <1>1, <1>2, <1>6 DEF KindsSound, BoxesSound, Current
  <2> QED BY <2>1, <2>2 DEF KindsSound, KindSound, RestartSound
<1>13. MailTypes' /\ launch' \in {"none", "up", "handled"} /\ command' \in Commands \cup {"none"} /\ stops' \in Nat
       /\ session' \in {"none", "running", "stopped"} /\ infoBox' \in {{}, infoBox}
  BY <1>1, <1>2, <1>4 DEF MailTypes, WordTypes
<1> QED BY <1>2, <1>4, <1>8, <1>9, <1>10, <1>11, <1>12, <1>13, WorkerSound

(* At a stop the last requests are made again, hits are counted and the UI   *)
(* is told.                                                                  *)
LEMMA EnrichedSound ==
  ASSUME IInv, UiUnchanged, NEW stop \in PlacesOfStops, Enriched("stopped", stop),
         UNCHANGED <<requests, sourceBox, lost, launch>>,
         passes' \in PerSite, \A s \in Sites : passes[s] <= passes'[s]
  PROVE  /\ EventTypes' /\ adapter' \in [Files -> Listings] /\ hits' \in PerSite /\ EventsSound' /\ FilesSound'
         /\ \A s \in Sites : hits'[s] <= passes'[s]
         /\ \E e : events' = Append(events, e) /\ e.kind = "snapshot" /\ e.state = "stopped"
         /\ RunningIsFirst' /\ StopComes' /\ (EntryComes => EntryComes')
<1>1. /\ EventTypes /\ AdapterTypes /\ TypeOK /\ HitsSound /\ FilesSound /\ RunningIsFirst
  BY TypesByGroup DEF IInv, ListsSound
<1>2. /\ adapter' = [f \in Files |-> IF requests[f] = {} THEN adapter[f] ELSE requests[f]]
      /\ hits' \in {hits, Counts(hits)}
      /\ events' = Append(events, Snapshot("stopped", stop, hits', passes'))
      /\ UNCHANGED <<known, flushed, breakpoints, seen>>
  BY UiStays DEF Enriched
<1>3. \A s \in Sites : /\ hits[s] \in Nat /\ passes[s] \in Nat /\ passes'[s] \in Nat /\ seen[s] \in Nat
                       /\ hits[s] <= passes[s] /\ passes[s] <= passes'[s] /\ seen[s] <= passes[s]
  BY <1>1 DEF AdapterTypes, PerSite, HitsSound, PassesSound
<1>4. \A s \in Sites : hits[s] <= passes'[s] /\ seen[s] <= passes'[s]
  BY <1>3
<1>5. hits' \in PerSite /\ \A s \in Sites : hits'[s] <= passes'[s]
  <2>1. CASE hits' = hits
    BY <1>1, <1>4, <2>1 DEF AdapterTypes
  <2>2. CASE hits' = Counts(hits)
    <3>1. \A s \in Sites : Larger(hits[s], passes'[s]) = passes'[s]
      BY <1>3, <1>4 DEF Larger
    <3>2. ASSUME NEW s \in Sites PROVE hits'[s] \in {hits[s], passes'[s]}
      BY <2>2, <3>1 DEF Counts
    <3>3. \A s \in Sites : hits'[s] \in Nat /\ hits'[s] <= passes'[s]
      BY <1>3, <1>4, <3>2
    <3>4. hits' = [s \in Sites |-> hits'[s]]
      BY <2>2 DEF Counts
    <3> QED BY <3>3, <3>4 DEF PerSite
  <2> QED BY <1>2, <2>1, <2>2
<1>6. PICK h, p : h = hits' /\ p = passes'
  OBVIOUS
<1>7. PICK e : e = Snapshot("stopped", stop, h, p)
  OBVIOUS
<1>8. e \in Events /\ e.kind = "snapshot" /\ e.state = "stopped" /\ e.hits = h /\ e.passed = p
  BY <1>5, <1>6, <1>7, EventsAre DEF Snapshot
<1>9. events' = Append(events, e)
  BY <1>2, <1>6, <1>7
<1>10. EventTypes'
  BY <1>1, <1>8, <1>9, QueuesGrow DEF EventTypes
<1>11. adapter' \in [Files -> Listings]
  BY <1>1, <1>2 DEF AdapterTypes
<1>12. EventsSound'
  <2>1. EventSound(e)'
    BY <1>2, <1>3, <1>4, <1>5, <1>6, <1>8 DEF EventSound, HasCounts
  <2> QED BY <1>1, <1>2, <1>6, <1>8, <1>9, <2>1, EventsGrowSound
<1>13. RunningIsFirst' /\ (StopComes => StopComes') /\ (EntryComes => EntryComes') /\ StopComes'
  BY <1>1, <1>2, <1>8, <1>9, EventsGrow
<1>14. FilesSound'
  <2>1. ASSUME NEW f \in Files PROVE FileSound(f)'
    <3>1. FileSound(f)
      BY <1>1 DEF FilesSound
    <3>2. Agrees(breakpoints, f) => Agrees(breakpoints, f)'
      BY <1>2 DEF Agrees
    <3> QED BY <1>2, <1>13, <3>1, <3>2 DEF FileSound, FlushIsDue
  <2> QED BY <1>1, <1>2, <2>1 DEF FilesSound, PostsSound
<1> QED BY <1>5, <1>8, <1>9, <1>10, <1>11, <1>12, <1>13, <1>14

(* The lists of the other kinds, while the worker does something else.       *)
LEMMA WorkerKindsStay ==
  ASSUME KindsSound, UiUnchanged, UNCHANGED <<launch, boxes, adapterLists>>,
         \A k \in Kinds : k \in lost => k \in lost', EntryComes => EntryComes',
         command' = "restart" => command = "restart"
  PROVE  KindsSound'
  BY UiStays, KindsStay

(* So does how far the launch is. *)
LEMMA WorkerLaunchStays ==
  ASSUME LaunchSound, launch # "none", UiUnchanged, UNCHANGED launch, command' \in {command, "none"}
  PROVE  LaunchSound'
  BY UiStays DEF LaunchSound

(* The program stops for another reason. *)
LEMMA StopElsewhereIsSound ==
  ASSUME IInv, StopElsewhere
  PROVE  IInv'
<1>1. /\ WordTypes /\ MailTypes /\ AdapterTypes /\ TypeOK /\ HitsSound
      /\ LaunchSound /\ KindsSound
  BY TypesByGroup DEF IInv, ListsSound
<1>2. /\ launch # "none" /\ stops' = stops + 1 /\ session' = "stopped" /\ UiUnchanged /\ Enriched("stopped", stopped')
      /\ UNCHANGED <<launch, command, sourceBox, boxes, infoBox, requests, adapterLists, lost, misled, passes>>
  BY DEF StopElsewhere, WorkerFree, IsActive, boxVars
<1>3. PICK stop \in PlacesOfStops : stop = stopped'
  <2>1. stopped' \in {[file |-> site[1], line |-> site[2], reason |-> "step"] : site \in Sites}
                   \cup {[file |-> NoFile, line |-> 0, reason |-> "exception"]}
    BY DEF StopElsewhere
  <2> QED BY <2>1, StopPlaces
<1>4. /\ passes' \in PerSite
      /\ \A s \in Sites : passes[s] <= passes'[s] /\ passes'[s] <= stops' /\ seen'[s] <= passes'[s]
  BY <1>1, <1>2, UiStays DEF AdapterTypes, PerSite, HitsSound, PassesSound, WordTypes
<1>5. /\ EventTypes' /\ adapter' \in [Files -> Listings] /\ hits' \in PerSite /\ EventsSound' /\ FilesSound'
      /\ \A s \in Sites : hits'[s] <= passes'[s]
      /\ RunningIsFirst' /\ StopComes' /\ (EntryComes => EntryComes')
  BY <1>2, <1>3, <1>4, EnrichedSound
<1>6. AdapterTypes'
  BY <1>1, <1>2, <1>3, <1>4, <1>5, UiStays DEF AdapterTypes
<1>7. PassesSound' /\ FlushComes'
  BY <1>4, <1>5 DEF PassesSound, FlushComes
<1>8. LaunchSound' /\ KindsSound'
  BY <1>1, <1>2, <1>5, WorkerLaunchStays, WorkerKindsStay
<1>9. MailTypes' /\ launch' \in {"none", "up", "handled"} /\ command' \in Commands \cup {"none"} /\ stops' \in Nat
      /\ session' \in {"none", "running", "stopped"} /\ infoBox' \in {{}, infoBox}
  BY <1>1, <1>2 DEF MailTypes, WordTypes
<1> QED BY <1>2, <1>5, <1>6, <1>7, <1>8, <1>9, WorkerSound

(* The program reaches a breakpoint. *)
LEMMA ReachIsSound ==
  ASSUME IInv, NEW site \in Sites, ReachBreakpoint(site[1], site[2])
  PROVE  IInv'
<1>1. /\ WordTypes /\ MailTypes /\ EventTypes /\ AdapterTypes /\ TypeOK /\ HitsSound
      /\ LaunchSound /\ RunningIsFirst /\ FlushComes /\ FilesSound /\ KindsSound
  BY TypesByGroup DEF IInv, ListsSound
<1>2. /\ launch # "none" /\ session = "running" /\ UiUnchanged
      /\ UNCHANGED <<launch, command, sourceBox, boxes, infoBox, requests, adapterLists, lost, misled>>
  BY DEF ReachBreakpoint, WorkerFree, IsActive, boxVars
<1>3. PICK f, l : f = site[1] /\ l = site[2]
  OBVIOUS
<1>4. site = <<f, l>> /\ f \in Files /\ l \in Lines
  BY <1>3, SitesArePairs
<1>5. PICK b \in adapter[f] :
         /\ stops' = stops + 1
         /\ passes' = [passes EXCEPT ![<<f, l>>] = @ + 1]
         /\ \/ /\ session' = "stopped"
               /\ stopped' = [file |-> f, line |-> l, reason |-> "breakpoint"]
               /\ Enriched("stopped", stopped')
            \/ UNCHANGED <<session, stopped, adapter, hits, events>>
  BY <1>3 DEF ReachBreakpoint
<1>6. \A s \in Sites : passes[s] \in Nat /\ passes'[s] \in {passes[s], passes[s] + 1}
  BY <1>1, <1>5 DEF AdapterTypes, PerSite
<1>7. \A s \in Sites : /\ passes[s] <= passes'[s] /\ passes'[s] <= stops' /\ seen'[s] <= passes'[s]
                       /\ hits[s] <= passes'[s]
  <2>1. ASSUME NEW s \in Sites
        PROVE  passes[s] <= passes'[s] /\ passes'[s] <= stops' /\ seen[s] <= passes'[s] /\ hits[s] <= passes'[s]
    <3>1. passes[s] <= stops /\ seen[s] <= passes[s] /\ hits[s] <= passes[s]
      BY <1>1 DEF HitsSound, PassesSound
    <3>2. stops \in Nat /\ seen[s] \in Nat /\ hits[s] \in Nat /\ passes[s] \in Nat
      BY <1>1 DEF WordTypes, AdapterTypes, PerSite
    <3>3. CASE passes'[s] = passes[s]
      BY <1>5, <3>1, <3>2, <3>3
    <3>4. CASE passes'[s] = passes[s] + 1
      BY <1>5, <3>1, <3>2, <3>4
    <3> QED BY <1>6, <3>3, <3>4
  <2> QED BY <1>2, <2>1, UiStays
<1>8. passes' \in PerSite
  <2>1. \A s \in Sites : passes'[s] \in Nat
    BY <1>6
  <2>2. passes' = [s \in Sites |-> passes'[s]]
    BY <1>1, <1>5 DEF AdapterTypes, PerSite
  <2> QED BY <2>1, <2>2 DEF PerSite
<1>9. /\ EventTypes' /\ adapter' \in [Files -> Listings] /\ hits' \in PerSite /\ stopped' \in PlacesOfStops
      /\ EventsSound' /\ FilesSound' /\ (\A s \in Sites : hits'[s] <= passes'[s])
      /\ RunningIsFirst' /\ FlushComes' /\ (EntryComes => EntryComes')
      /\ session' \in {"none", "running", "stopped"}
  <2>1. CASE /\ session' = "stopped"
             /\ stopped' = [file |-> f, line |-> l, reason |-> "breakpoint"]
             /\ Enriched("stopped", stopped')
    <3>1. PICK stop \in PlacesOfStops : stop = stopped'
      BY <1>3, <2>1, StopPlaces
    <3>2. /\ EventTypes' /\ adapter' \in [Files -> Listings] /\ hits' \in PerSite /\ EventsSound' /\ FilesSound'
          /\ \A s \in Sites : hits'[s] <= passes'[s]
          /\ RunningIsFirst' /\ StopComes' /\ (EntryComes => EntryComes')
      BY <1>2, <1>7, <1>8, <2>1, <3>1, EnrichedSound
    <3>3. FlushComes'
      BY <3>2 DEF FlushComes
    <3> QED BY <2>1, <3>1, <3>2, <3>3
  <2>2. CASE UNCHANGED <<session, stopped, adapter, hits, events>>
    <3>1. UNCHANGED <<known, flushed, state, breakpoints, seen>>
      BY <1>2, UiStays
    <3>2. EventTypes' /\ adapter' \in [Files -> Listings] /\ hits' \in PerSite /\ stopped' \in PlacesOfStops
      BY <1>1, <2>2 DEF EventTypes, AdapterTypes
    <3>3. EventsSound'
      BY <1>1, <1>7, <1>8, <2>2, <3>1, EventsStaySound DEF HitsSound
    <3>4. FilesSound'
      BY <1>1, <1>2, <2>2, <3>1, FilesStay DEF FlushIsDue, StopComes
    <3>5. RunningIsFirst' /\ FlushComes' /\ (EntryComes => EntryComes')
      BY <1>1, <1>2, <2>2, <3>1 DEF RunningIsFirst, FlushComes, StopComes, EntryComes
    <3> QED BY <1>2, <1>7, <2>2, <3>2, <3>3, <3>4, <3>5
  <2> QED BY <1>5, <2>1, <2>2
<1>10. AdapterTypes'
  BY <1>1, <1>2, <1>8, <1>9, UiStays DEF AdapterTypes
<1>11. PassesSound'
  BY <1>7, <1>9 DEF PassesSound
<1>12. LaunchSound' /\ KindsSound'
  BY <1>1, <1>2, <1>9, WorkerLaunchStays, WorkerKindsStay
<1>13. MailTypes' /\ launch' \in {"none", "up", "handled"} /\ command' \in Commands \cup {"none"} /\ stops' \in Nat
       /\ infoBox' \in {{}, infoBox}
  BY <1>1, <1>2, <1>5 DEF MailTypes, WordTypes
<1> QED BY <1>2, <1>9, <1>10, <1>11, <1>12, <1>13, WorkerSound

(* An event is added that tells no stop. *)
LEMMA TellSound ==
  ASSUME IInv, NEW e \in Events, events' = Append(events, e), UiUnchanged, launch # "none",
         UNCHANGED <<launch, session, passes>>,
         EventSound(e)', HasCounts(e) => e.passed = passes,
         e.kind = "snapshot" => e.state # "running"
  PROVE  /\ EventTypes' /\ EventsSound' /\ RunningIsFirst' /\ FlushComes' /\ (StopComes => StopComes')
         /\ (EntryComes => EntryComes')
<1>1. /\ EventTypes /\ AdapterTypes /\ TypeOK /\ HitsSound /\ RunningIsFirst /\ FlushComes
  BY TypesByGroup DEF IInv, ListsSound
<1>2. UNCHANGED <<known, flushed, state, seen>>
  BY UiStays
<1>3. EventTypes'
  BY <1>1, QueuesGrow DEF EventTypes
<1>4. EventsSound'
  <2>1. passes' \in PerSite /\ \A s \in Sites : passes[s] <= passes'[s]
    BY <1>1 DEF AdapterTypes, PerSite
  <2> QED BY <1>1, <1>2, <2>1, EventsGrowSound
<1>5. RunningIsFirst' /\ (StopComes => StopComes') /\ (EntryComes => EntryComes')
  BY <1>1, <1>2, EventsGrow
<1>6. FlushComes'
  BY <1>1, <1>2, <1>5 DEF FlushComes
<1> QED BY <1>3, <1>4, <1>5, <1>6

(* A command is run, or it fails. *)
LEMMA RunIsSound ==
  ASSUME IInv, RunCommand
  PROVE  IInv'
<1>1. /\ WordTypes /\ MailTypes /\ EventTypes /\ AdapterTypes /\ TypeOK /\ HitsSound
      /\ LaunchSound /\ RunningIsFirst /\ FlushComes /\ FilesSound /\ KindsSound
  BY TypesByGroup DEF IInv, ListsSound
<1>2. /\ launch # "none" /\ command # "none" /\ command' = "none" /\ UiUnchanged
      /\ UNCHANGED <<launch, boxes, infoBox, misled, lost>>
  BY DEF RunCommand, WorkerFree, IsActive
<1>3. /\ UNCHANGED <<known, flushed, restarting, state, breakpoints, exceptions, functions, data, seen>>
  BY <1>2, UiStays
<1>4. LaunchSound'
  BY <1>1, <1>2, WorkerLaunchStays
<1>5. launch' \in {"none", "up", "handled"} /\ command' \in Commands \cup {"none"} /\ infoBox' \in {{}, infoBox}
  BY <1>1, <1>2 DEF WordTypes
<1>6. CASE /\ session' = "running"
           /\ UNCHANGED <<stopped, requests, hits, adapter, adapterLists, passes, stops, events, sourceBox, lost>>
  <2>1. EventTypes' /\ AdapterTypes' /\ MailTypes'
    BY <1>1, <1>2, <1>3, <1>6 DEF EventTypes, AdapterTypes, MailTypes
  <2>2. RunningIsFirst' /\ FlushComes' /\ (EntryComes => EntryComes') /\ (StopComes => StopComes')
    BY <1>1, <1>2, <1>3, <1>6 DEF RunningIsFirst, FlushComes, StopComes, EntryComes
  <2>3. FilesSound'
    BY <1>1, <1>2, <1>3, <1>6, <2>2, FilesStay DEF FlushIsDue
  <2>4. KindsSound'
    BY <1>1, <1>2, <1>6, <2>2, WorkerKindsStay
  <2>5. EventsSound' /\ PassesSound'
    <3>1. passes' \in PerSite /\ \A s \in Sites : passes[s] <= passes'[s]
      BY <1>1, <1>6 DEF AdapterTypes, PerSite
    <3> QED BY <1>1, <1>3, <1>6, <3>1, EventsStaySound DEF HitsSound, PassesSound
  <2>6. stops' \in Nat /\ session' \in {"none", "running", "stopped"}
    BY <1>1, <1>6 DEF WordTypes
  <2> QED BY <1>2, <1>4, <1>5, <2>1, <2>2, <2>3, <2>4, <2>5, <2>6, WorkerSound
<1>7. CASE /\ session = "stopped" /\ events' = Append(events, Snapshot(session, stopped, hits, passes))
           /\ UNCHANGED <<sessionVars, sourceBox, lost>>
  <2>1. UNCHANGED <<session, stopped, requests, hits, adapter, adapterLists, passes, stops, sourceBox, lost>>
    BY <1>7 DEF sessionVars
  <2>2. PICK e : e = Snapshot(session, stopped, hits, passes)
    OBVIOUS
  <2>3. e \in Events /\ e.kind = "snapshot" /\ e.state = "stopped" /\ e.hits = hits /\ e.passed = passes
    BY <1>1, <1>7, <2>2, EventsAre DEF AdapterTypes, Snapshot
  <2>4. EventSound(e)'
    <3>1. \A s \in Sites : seen[s] <= passes[s] /\ hits[s] <= passes[s] /\ passes[s] \in Nat
      BY <1>1 DEF HitsSound, PassesSound, AdapterTypes, PerSite
    <3> QED BY <1>3, <2>1, <2>3, <3>1 DEF EventSound, HasCounts
  <2>5. /\ EventTypes' /\ EventsSound' /\ RunningIsFirst' /\ FlushComes' /\ (StopComes => StopComes')
        /\ (EntryComes => EntryComes')
    BY <1>2, <1>7, <2>1, <2>2, <2>3, <2>4, TellSound
  <2>6. AdapterTypes' /\ MailTypes' /\ PassesSound'
    BY <1>1, <1>2, <1>3, <2>1 DEF AdapterTypes, MailTypes, HitsSound, PassesSound
  <2>7. FilesSound'
    BY <1>1, <1>2, <1>3, <2>1, <2>5, FilesStay DEF FlushIsDue
  <2>8. KindsSound'
    BY <1>1, <1>2, <2>1, <2>5, WorkerKindsStay
  <2>9. stops' \in Nat /\ session' \in {"none", "running", "stopped"}
    BY <1>1, <2>1 DEF WordTypes
  <2> QED BY <1>2, <1>4, <1>5, <2>5, <2>6, <2>7, <2>8, <2>9, WorkerSound
<1>8. CASE command = "restart" /\ NewSession("stopped") /\ sourceBox' = {} /\ UNCHANGED lost
  <2>1. /\ EventTypes' /\ AdapterTypes' /\ EventsSound' /\ PassesSound'
        /\ \A f \in Files : adapter'[f] = {} /\ requests'[f] = {}
        /\ session' = "stopped" /\ stops' = stops
    BY <1>2, <1>8, NewSessionSound
  <2>2. PICK e : events' = Append(events, e) /\ e.kind = "snapshot" /\ e.state = "stopped" /\ e.stop = Entry
    BY <1>2, <1>8, NewSessionSound
  <2>3. RunningIsFirst' /\ StopComes' /\ EntryComes'
    BY <1>1, <1>3, <2>2, EventsGrow
  <2>4. FlushComes'
    BY <2>3 DEF FlushComes
  <2>5. FilesSound'
    <3>1. ASSUME NEW f \in Files PROVE FileSound(f)'
      <4>1. adapter'[f] = {} /\ requests'[f] = {}
        BY <2>1
      <4> QED BY <2>3, <4>1 DEF FileSound, Agrees, FlushIsDue
    <3> QED BY <1>8, <3>1 DEF FilesSound, PostsSound
  <2>6. KindsSound'
    <3>1. \A k \in Kinds : k \in lost' \/ boxes'[k] # {} \/ (restarting' /\ EntryComes')
      BY <1>1, <1>2, <1>3, <1>8, <2>3 DEF KindsSound, RestartSound
    <3>2. BoxesSound'
      BY <1>1, <1>2, <1>3 DEF KindsSound, BoxesSound, Current
    <3> QED BY <1>2, <3>1, <3>2 DEF KindsSound, KindSound, RestartSound
  <2>7. MailTypes' /\ stops' \in Nat /\ session' \in {"none", "running", "stopped"}
    BY <1>1, <1>2, <1>8, <2>1 DEF MailTypes, WordTypes, AtMostOne
  <2> QED BY <1>2, <1>4, <1>5, <2>1, <2>3, <2>4, <2>5, <2>6, <2>7, WorkerSound
<1>9. CASE /\ events' = Append(events, Failed(command))
           /\ UNCHANGED <<sessionVars, sourceBox, lost>>
  <2>1. UNCHANGED <<session, stopped, requests, hits, adapter, adapterLists, passes, stops, sourceBox, lost>>
    BY <1>9 DEF sessionVars
  <2>2. PICK e : e = Failed(command)
    OBVIOUS
  <2>3. e \in Events /\ e.kind = "failed"
    BY <1>1, <1>2, <2>2, EventsAre DEF WordTypes, Failed
  <2>4. EventSound(e)' /\ ~HasCounts(e)
    BY <2>3 DEF EventSound, HasCounts
  <2>5. /\ EventTypes' /\ EventsSound' /\ RunningIsFirst' /\ FlushComes' /\ (StopComes => StopComes')
        /\ (EntryComes => EntryComes')
    BY <1>2, <1>9, <2>1, <2>2, <2>3, <2>4, TellSound
  <2>6. AdapterTypes' /\ MailTypes' /\ PassesSound'
    BY <1>1, <1>2, <1>3, <2>1 DEF AdapterTypes, MailTypes, HitsSound, PassesSound
  <2>7. FilesSound'
    BY <1>1, <1>2, <1>3, <2>1, <2>5, FilesStay DEF FlushIsDue
  <2>8. KindsSound'
    BY <1>1, <1>2, <2>1, <2>5, WorkerKindsStay
  <2>9. stops' \in Nat /\ session' \in {"none", "running", "stopped"}
    BY <1>1, <2>1 DEF WordTypes
  <2> QED BY <1>2, <1>4, <1>5, <2>5, <2>6, <2>7, <2>8, <2>9, WorkerSound
<1> QED BY <1>6, <1>7, <1>8, <1>9 DEF RunCommand

(* The answer to a list of a file gives each of its lines a count.           *)
LEMMA AnswerTypes ==
  ASSUME AreBreakpoints(breakpoints), passes \in PerSite, NEW f \in Files,
         NEW lines \in InOrder({b.line : b \in Listing(breakpoints, f)}), NEW told \in BOOLEAN,
         NEW results,
         results = [i \in DOMAIN lines |->
                       [line |-> lines[i], count |-> IF told THEN passes[<<f, lines[i]>>] ELSE 0]]
  PROVE  /\ results \in Seq([line : Lines, count : Nat])
         /\ \A i \in DOMAIN results : /\ <<f, results[i].line>> \in Sites
                                     /\ results[i].count <= passes[<<f, results[i].line>>]
<1> DEFINE S == {b.line : b \in Listing(breakpoints, f)}
<1>1. \A l \in S : <<f, l>> \in Sites /\ l \in Lines
  BY ListingTypes, SitesArePairs
<1>2. IsFiniteSet(S)
  <2>1. S \subseteq Lines /\ IsFiniteSet(Lines)
    BY <1>1, SitesArePairs
  <2> HIDE DEF S
  <2> QED BY <2>1, FS_Subset
<1> HIDE DEF S
<1>3. PICK n \in Nat : n = Cardinality(S)
  BY <1>2, FS_CardinalityType
<1>4. lines \in [1..n -> S]
  BY <1>3 DEF InOrder, S
<1>5. \A i \in 1..n : <<f, lines[i]>> \in Sites /\ lines[i] \in Lines /\ passes[<<f, lines[i]>>] \in Nat
  BY <1>1, <1>4 DEF PerSite
<1>6. DOMAIN results = 1..n
  BY <1>4
<1>7. ASSUME NEW i \in 1..n
      PROVE  /\ results[i] \in [line : Lines, count : Nat]
             /\ <<f, results[i].line>> \in Sites /\ results[i].count <= passes[<<f, results[i].line>>]
  <2>1. PICK l, c : l = lines[i] /\ c = (IF told THEN passes[<<f, lines[i]>>] ELSE 0)
    OBVIOUS
  <2>2. l \in Lines /\ <<f, l>> \in Sites /\ passes[<<f, l>>] \in Nat
    BY <1>5, <2>1
  <2>3. c \in Nat /\ c <= passes[<<f, l>>]
    BY <2>1, <2>2
  <2>4. results[i] = [line |-> l, count |-> c]
    BY <1>4, <2>1
  <2>5. results[i].line = l /\ results[i].count = c
    BY <2>4
  <2>6. [line |-> l, count |-> c] \in [line : Lines, count : Nat]
    BY <2>2, <2>3
  <2> QED BY <2>2, <2>3, <2>4, <2>5, <2>6, Zenon
<1>8. results \in [1..n -> [line : Lines, count : Nat]]
  <2>1. results = [i \in 1..n |-> results[i]]
    BY <1>4
  <2> QED BY <1>7, <2>1
<1>9. results \in Seq([line : Lines, count : Nat])
  BY <1>8, SeqDef
<1> QED BY <1>6, <1>7, <1>9

(* What the adapter answers to the list of a file, and what the session then *)
(* has of its hits.                                                          *)
LineResults(f, lines, told) ==
    [i \in DOMAIN lines |->
        [line |-> lines[i], count |-> IF told THEN passes[<<f, lines[i]>>] ELSE 0]]
HitsTold(f, list, yes) ==
    IF yes
    THEN [s \in Sites |-> IF s[1] = f /\ \E b \in list : b.line = s[2]
                          THEN Larger(hits[s], passes[s]) ELSE hits[s]]
    ELSE hits
LinesOf(list) == {b.line : b \in list}

(* The list of a file is sent. *)
LEMMA SetSourceIsSound ==
  ASSUME IInv, SetSourceBreakpoints
  PROVE  IInv'
<1>1. /\ WordTypes /\ ListTypes /\ MailTypes /\ EventTypes /\ AdapterTypes /\ TypeOK /\ HitsSound
      /\ LaunchSound /\ RunningIsFirst /\ FlushComes /\ FilesSound /\ KindsSound
  BY TypesByGroup DEF IInv, ListsSound
<1>2. /\ launch # "none" /\ command = "none" /\ sourceBox' = {} /\ UiUnchanged
      /\ UNCHANGED <<launch, command, boxes, infoBox, session, stopped, adapterLists, passes, stops, misled>>
  BY DEF SetSourceBreakpoints, WorkerFree, IsActive
<1>3. UNCHANGED <<known, flushed, restarting, state, breakpoints, exceptions, functions, data, seen>>
  BY <1>2, UiStays
<1>4. PICK post \in sourceBox, ok \in BOOLEAN : \E lines \in InOrder(LinesOf(post.list)) :
         /\ requests' = [requests EXCEPT ![post.file] = post.list]
         /\ adapter' = IF ok THEN [adapter EXCEPT ![post.file] = post.list] ELSE adapter
         /\ lost' = IF ok \/ adapter[post.file] = post.list THEN lost \ {post.file} ELSE lost \cup {post.file}
         /\ \E told \in BOOLEAN :
               /\ hits' = HitsTold(post.file, post.list, ok /\ told)
               /\ events' = Append(events, Results(ok, post.file, LineResults(post.file, lines, told), passes))
  BY DEF SetSourceBreakpoints, HitsTold, LineResults, LinesOf
<1>5. post.file \in Files /\ post.list \in Listings /\ post.list = Listing(breakpoints, post.file)
      /\ \A other \in sourceBox : other = post
  BY <1>1 DEF MailTypes, AtMostOne, Posts, FilesSound, PostsSound
<1>6. PICK f, list : f = post.file /\ list = post.list
  OBVIOUS
<1>6a. PICK lines \in InOrder(LinesOf(list)), told \in BOOLEAN :
         /\ hits' = HitsTold(f, list, ok /\ told)
         /\ events' = Append(events, Results(ok, f, LineResults(f, lines, told), passes))
  BY <1>4, <1>6
<1>7. /\ lines \in InOrder({b.line : b \in list}) /\ told \in BOOLEAN
      /\ hits' = IF ok /\ told THEN [s \in Sites |-> IF s[1] = f /\ \E b \in list : b.line = s[2]
                                                       THEN Larger(hits[s], passes[s]) ELSE hits[s]]
                    ELSE hits
      /\ events' = Append(events, Results(ok, f,
                [i \in DOMAIN lines |->
                    [line |-> lines[i], count |-> IF told THEN passes[<<f, lines[i]>>] ELSE 0]], passes))
  BY <1>6a DEF HitsTold, LineResults, LinesOf
<1>8. /\ requests' = [requests EXCEPT ![f] = list]
      /\ adapter' = IF ok THEN [adapter EXCEPT ![f] = list] ELSE adapter
      /\ lost' = IF ok \/ adapter[f] = list THEN lost \ {f} ELSE lost \cup {f}
      /\ f \in Files /\ list \in Listings /\ list = Listing(breakpoints, f)
      /\ \A other \in sourceBox : other.file = f
  BY <1>4, <1>5, <1>6
<1>9. \A s \in Sites : /\ hits[s] \in Nat /\ passes[s] \in Nat /\ seen[s] \in Nat
                       /\ hits[s] <= passes[s] /\ seen[s] <= passes[s] /\ passes[s] <= stops
  BY <1>1 DEF AdapterTypes, PerSite, HitsSound, PassesSound
<1>10. hits' \in PerSite /\ \A s \in Sites : hits'[s] <= passes[s]
  <2>1. CASE hits' = hits
    BY <1>1, <1>9, <2>1 DEF AdapterTypes
  <2>2. CASE hits' = [s \in Sites |-> IF s[1] = f /\ \E b \in list : b.line = s[2]
                                     THEN Larger(hits[s], passes[s]) ELSE hits[s]]
    <3>1. \A s \in Sites : Larger(hits[s], passes[s]) = passes[s]
      BY <1>9 DEF Larger
    <3>2. ASSUME NEW s \in Sites PROVE hits'[s] \in {hits[s], passes[s]}
      BY <2>2, <3>1
    <3>3. \A s \in Sites : hits'[s] \in Nat /\ hits'[s] <= passes[s]
      BY <1>9, <3>2
    <3>4. hits' = [s \in Sites |-> hits'[s]]
      BY <2>2
    <3> QED BY <3>3, <3>4 DEF PerSite
  <2> QED BY <1>7, <2>1, <2>2
<1>11. PICK results : results = [i \in DOMAIN lines |->
                                   [line |-> lines[i], count |-> IF told THEN passes[<<f, lines[i]>>] ELSE 0]]
  OBVIOUS
<1>12. /\ results \in Seq([line : Lines, count : Nat])
       /\ \A i \in DOMAIN results : /\ <<f, results[i].line>> \in Sites
                                   /\ results[i].count <= passes[<<f, results[i].line>>]
  BY <1>1, <1>7, <1>8, <1>11, AnswerTypes DEF ListTypes, AdapterTypes
<1>13. PICK e : e = Results(ok, f, results, passes)
  OBVIOUS
<1>14. e \in Events /\ events' = Append(events, e)
  BY <1>1, <1>7, <1>8, <1>11, <1>12, <1>13, EventsAre DEF AdapterTypes
<1>15. e.kind = "results" /\ e.file = f /\ e.results = results /\ e.passed = passes
  BY <1>13 DEF Results
<1>16. EventSound(e)'
  BY <1>2, <1>3, <1>9, <1>12, <1>15 DEF EventSound, HasCounts
<1>17. /\ EventTypes' /\ EventsSound' /\ RunningIsFirst' /\ FlushComes' /\ (StopComes => StopComes')
       /\ (EntryComes => EntryComes')
  BY <1>2, <1>14, <1>15, <1>16, TellSound
<1>18. AdapterTypes' /\ MailTypes'
  BY <1>1, <1>2, <1>3, <1>8, <1>10 DEF AdapterTypes, MailTypes, AtMostOne
<1>19. PassesSound'
  BY <1>2, <1>3, <1>9, <1>10 DEF PassesSound
<1>20. FilesSound'
  <2>1. ASSUME NEW g \in Files PROVE FileSound(g)'
    <3>1. CASE g = f
      <4>1. requests'[f] = list /\ (ok => adapter'[f] = list) /\ (~ok => adapter'[f] = adapter[f])
        BY <1>1, <1>8 DEF AdapterTypes
      <4>2. adapter'[f] = list \/ f \in lost'
        BY <1>8, <4>1
      <4>3. adapter'[f] = list => Agrees(breakpoints, f)'
        BY <1>3, <1>8, <4>1 DEF Agrees
      <4> QED BY <3>1, <4>2, <4>3 DEF FileSound
    <3>2. CASE g # f
      <4>1. FileSound(g) /\ ~\E other \in sourceBox : other.file = g
        BY <1>1, <1>8, <3>2 DEF FilesSound
      <4>2. requests'[g] = requests[g] /\ adapter'[g] = adapter[g] /\ (g \in lost => g \in lost')
        BY <1>1, <1>8, <3>2 DEF AdapterTypes
      <4> QED BY <1>2, <1>3, <1>17, <4>1, <4>2 DEF FileSound, Agrees, FlushIsDue
    <3> QED BY <3>1, <3>2
  <2> QED BY <1>2, <2>1 DEF FilesSound, PostsSound
<1>21. LaunchSound' /\ KindsSound'
  <2>1. \A k \in Kinds : k \in lost => k \in lost'
    BY <1>8, SitesArePairs
  <2> QED BY <1>1, <1>2, <1>17, <2>1, WorkerLaunchStays, WorkerKindsStay
<1>22. /\ launch' \in {"none", "up", "handled"} /\ command' \in Commands \cup {"none"} /\ infoBox' \in {{}, infoBox}
       /\ stops' \in Nat /\ session' \in {"none", "running", "stopped"}
  BY <1>1, <1>2 DEF WordTypes
<1> QED BY <1>2, <1>17, <1>18, <1>19, <1>20, <1>21, <1>22, WorkerSound

(* The lists of the other kinds are sent. *)
LEMMA SetOtherIsSound ==
  ASSUME IInv, SetOtherBreakpoints
  PROVE  IInv'
<1>1. /\ WordTypes /\ MailTypes /\ EventTypes /\ AdapterTypes /\ TypeOK /\ HitsSound
      /\ LaunchSound /\ RunningIsFirst /\ FlushComes /\ FilesSound /\ KindsSound
  BY TypesByGroup DEF IInv, ListsSound
<1> DEFINE waiting == {k \in Kinds : boxes[k] # {}}
<1>2. /\ launch # "none" /\ command = "none" /\ boxes' = [k \in Kinds |-> {}] /\ UiUnchanged
      /\ UNCHANGED <<launch, command, sourceBox, infoBox, events, session, stopped, requests, hits, adapter>>
      /\ UNCHANGED <<passes, stops, misled>>
  BY DEF SetOtherBreakpoints, WorkerFree, IsActive
<1>3. UNCHANGED <<known, flushed, restarting, state, breakpoints, exceptions, functions, data, seen>>
  BY <1>2, UiStays
<1>4. PICK failing \in SUBSET {k \in waiting : adapterLists[k] \notin boxes[k]} :
         /\ adapterLists' = [k \in Kinds |-> IF k \in waiting \ failing THEN CHOOSE list \in boxes[k] : TRUE
                                           ELSE adapterLists[k]]
         /\ lost' = (lost \ waiting) \cup failing
  BY DEF SetOtherBreakpoints
<1>5. waiting \subseteq Kinds /\ failing \subseteq waiting
  OBVIOUS
<1>6. \A k \in Kinds \ waiting : boxes[k] = {}
  OBVIOUS
<1>7. ASSUME NEW k \in waiting PROVE boxes[k] = {Current(k)} /\ (CHOOSE list \in boxes[k] : TRUE) = Current(k)
  <2>1. boxes[k] = {Current(k)}
    BY <1>1 DEF KindsSound, BoxesSound
  <2> QED BY <2>1
<1> HIDE DEF waiting
<1>8. ASSUME NEW k \in Kinds PROVE KindSound(k)'
  <2>1. CASE k \in failing
    <3>1. k \in lost'
      BY <1>4, <2>1
    <3> QED BY <3>1 DEF KindSound
  <2>2. CASE k \in waiting \ failing
    <3>1. adapterLists'[k] = Current(k)
      BY <1>4, <1>7, <2>2
    <3>2. Current(k)' = Current(k)
      BY <1>3 DEF Current
    <3> QED BY <3>1, <3>2 DEF KindSound
  <2>3. CASE k \notin waiting
    <3>1. KindSound(k) /\ boxes[k] = {}
      BY <1>1, <1>6, <2>3 DEF KindsSound
    <3>2. adapterLists'[k] = adapterLists[k] /\ (k \in lost => k \in lost')
      BY <1>4, <2>3
    <3> QED BY <1>2, <1>3, <3>1, <3>2 DEF KindSound, Current, EntryComes
  <2> QED BY <2>1, <2>2, <2>3
<1>9. KindsSound'
  <2>1. BoxesSound' /\ RestartSound'
    BY <1>2 DEF BoxesSound, RestartSound
  <2> QED BY <1>8, <2>1 DEF KindsSound
<1>10. FilesSound'
  <2>1. \A f \in Files : f \in lost => f \in lost'
    BY <1>4, <1>5, SitesArePairs
  <2> QED BY <1>1, <1>2, <1>3, <2>1, FilesStay DEF FlushIsDue, StopComes
<1>11. LaunchSound' /\ RunningIsFirst' /\ FlushComes'
  BY <1>1, <1>2, <1>3, WorkerLaunchStays DEF RunningIsFirst, FlushComes, StopComes
<1>12. EventsSound' /\ PassesSound'
  <2>1. passes' \in PerSite /\ \A s \in Sites : passes[s] <= passes'[s]
    BY <1>1, <1>2 DEF AdapterTypes, PerSite
  <2> QED BY <1>1, <1>2, <1>3, <2>1, EventsStaySound DEF HitsSound, PassesSound
<1>13. adapterLists' \in [Kinds -> KindLists]
  <2>1. \A k \in waiting : Current(k) \in KindLists
    BY <1>1, <1>5, <1>7 DEF MailTypes
  <2>2. \A k \in Kinds : adapterLists'[k] \in KindLists
    BY <1>1, <1>4, <1>7, <2>1 DEF AdapterTypes
  <2>3. adapterLists' = [k \in Kinds |-> adapterLists'[k]]
    BY <1>4
  <2> QED BY <2>2, <2>3
<1>14. EventTypes' /\ AdapterTypes'
  BY <1>1, <1>2, <1>3, <1>13 DEF EventTypes, AdapterTypes
<1>15. MailTypes'
  <2>1. boxes' \in [Kinds -> SUBSET KindLists] /\ lost' \subseteq Files \cup Kinds
    BY <1>1, <1>2, <1>4, <1>5 DEF MailTypes
  <2> QED BY <1>1, <1>2, <2>1 DEF MailTypes
<1>16. /\ launch' \in {"none", "up", "handled"} /\ command' \in Commands \cup {"none"} /\ infoBox' \in {{}, infoBox}
       /\ stops' \in Nat /\ session' \in {"none", "running", "stopped"}
  BY <1>1, <1>2 DEF WordTypes
<1> QED BY <1>2, <1>9, <1>10, <1>11, <1>12, <1>14, <1>15, <1>16, WorkerSound

(* What a data breakpoint needs is asked of the adapter. *)
LEMMA FetchIsSound ==
  ASSUME IInv, FetchDataBreakpointInfo
  PROVE  IInv'
<1>1. /\ WordTypes /\ PlaceTypes /\ MailTypes /\ EventTypes /\ AdapterTypes /\ TypeOK /\ HitsSound
      /\ LaunchSound /\ RunningIsFirst /\ FlushComes /\ FilesSound /\ KindsSound
  BY TypesByGroup DEF IInv, ListsSound
<1>2. /\ launch # "none" /\ UiUnchanged /\ infoBox' = {}
      /\ UNCHANGED <<launch, command, sourceBox, boxes, lost, misled>>
      /\ UNCHANGED <<session, stopped, requests, hits, adapter, adapterLists, passes, stops>>
  BY DEF FetchDataBreakpointInfo, WorkerFree, IsActive, boxVars, sessionVars
<1>3. UNCHANGED <<known, flushed, restarting, state, breakpoints, exceptions, functions, data, seen>>
  BY <1>2, UiStays
<1>4. PICK x \in infoBox, ok \in BOOLEAN : events' = Append(events, Info(ok, x))
  BY DEF FetchDataBreakpointInfo
<1>5. PICK e : e = Info(ok, x)
  OBVIOUS
<1>6. e \in Events /\ e.kind = "info"
  BY <1>1, <1>4, <1>5, EventsAre DEF PlaceTypes, AtMostOne, Info
<1>7. EventSound(e)' /\ ~HasCounts(e)
  BY <1>6 DEF EventSound, HasCounts
<1>8. /\ EventTypes' /\ EventsSound' /\ RunningIsFirst' /\ FlushComes' /\ (StopComes => StopComes')
      /\ (EntryComes => EntryComes')
  BY <1>2, <1>4, <1>5, <1>6, <1>7, TellSound
<1>9. AdapterTypes' /\ MailTypes' /\ PassesSound'
  BY <1>1, <1>2, <1>3 DEF AdapterTypes, MailTypes, HitsSound, PassesSound
<1>10. FilesSound'
  BY <1>1, <1>2, <1>3, <1>8, FilesStay DEF FlushIsDue
<1>11. LaunchSound' /\ KindsSound'
  BY <1>1, <1>2, <1>8, WorkerLaunchStays, WorkerKindsStay
<1>12. /\ launch' \in {"none", "up", "handled"} /\ command' \in Commands \cup {"none"} /\ infoBox' \in {{}, infoBox}
       /\ stops' \in Nat /\ session' \in {"none", "running", "stopped"}
  BY <1>1, <1>2 DEF WordTypes
<1> QED BY <1>2, <1>8, <1>9, <1>10, <1>11, <1>12, WorkerSound

-----------------------------------------------------------------------------
(* The user interface handles an event. *)

(* The event is taken from the queue. *)
Taken(e) ==
    /\ events # <<>> /\ e = Head(events) /\ events' = Tail(events)
    /\ UNCHANGED <<edits, commands, command, infoBox, sessionVars>>

(* The types of what an event may change. *)
HandledTypes ==
    /\ state \in {NoState, "running", "stopped"} /\ known \in BOOLEAN /\ flushed \in BOOLEAN
    /\ restarting \in BOOLEAN /\ inCatch \in BOOLEAN /\ misled \in BOOLEAN
    /\ AtMostOne(resolving, Items) /\ AtMostOne(lastCounted, Sites)
    /\ AtMostOne(catchSkip, [file : Files, line : Lines, added : BOOLEAN])

(* What a taken event leaves alone, and what is known of it. *)
LEMMA TakenKeeps ==
  ASSUME IInv, NEW e, Taken(e)
  PROVE  /\ UNCHANGED <<edits, commands, command, infoBox, session, stopped, requests, hits, adapter, adapterLists>>
         /\ UNCHANGED <<passes, stops>>
         /\ e \in Events /\ EventSound(e) /\ launch # "none" /\ events # <<>> /\ e = Head(events)
         /\ RunningIsFirst'
         /\ StopComes => StopComes' \/ (e.kind = "snapshot" /\ e.state = "stopped")
         /\ EntryComes => EntryComes' \/ (e.kind = "snapshot" /\ e.state = "stopped" /\ e.stop = Entry)
         /\ e.kind = "snapshot" /\ e.state = "running" => ~known
<1>1. TypeOK /\ HitsSound /\ RunningIsFirst /\ LaunchSound
  BY DEF IInv, ListsSound
<1>2. events # <<>> /\ e = Head(events) /\ events' = Tail(events)
  BY DEF Taken
<1>3. e \in Events /\ EventSound(e)
  BY <1>1, <1>2, HeadOfEvents
<1>4. launch # "none"
  BY <1>1, <1>2 DEF LaunchSound
<1>5. /\ UNCHANGED <<edits, commands, command, infoBox, session, stopped, requests, hits, adapter, adapterLists>>
      /\ UNCHANGED <<passes, stops>>
  BY DEF Taken, sessionVars
<1>6. /\ RunningIsFirst'
      /\ StopComes => StopComes' \/ (e.kind = "snapshot" /\ e.state = "stopped")
      /\ EntryComes => EntryComes' \/ (e.kind = "snapshot" /\ e.state = "stopped" /\ e.stop = Entry)
      /\ e.kind = "snapshot" /\ e.state = "running" => ~known
  BY <1>1, <1>2, EventsShrink
<1> QED BY <1>2, <1>3, <1>4, <1>5, <1>6

(* What is left of the invariant when an event was handled. *)
LEMMA TakenSound ==
  ASSUME IInv, NEW e, Taken(e), UNCHANGED <<launch, promptVars>>, HandledTypes', ListTypes', MailTypes',
         seen' = IF HasCounts(e) THEN e.passed ELSE seen,
         LaunchSound', FlushComes', FilesSound', KindsSound', CountsSound'
  PROVE  IInv'
<1>1. /\ WordTypes /\ PlaceTypes /\ EventTypes /\ AdapterTypes /\ TypeOK /\ HitsSound
  BY TypesByGroup DEF IInv
<1>2. /\ UNCHANGED <<edits, commands, command, infoBox, session, stopped, requests, hits, adapter, adapterLists>>
      /\ UNCHANGED <<passes, stops>> /\ RunningIsFirst' /\ e \in Events /\ EventSound(e)
  BY TakenKeeps
<1>3. UNCHANGED <<launch, editing, editingFilter>>
  BY DEF promptVars
<1>4. events # <<>> /\ e = Head(events) /\ events' = Tail(events)
  BY DEF Taken
<1>5. WordTypes' /\ PlaceTypes'
  BY <1>1, <1>2, <1>3 DEF WordTypes, PlaceTypes, HandledTypes
<1>6. EventTypes'
  BY <1>1, <1>4, QueuesGrow DEF EventTypes
<1>7. seen' \in PerSite /\ \A s \in Sites : seen'[s] <= passes[s]
  <2>1. CASE HasCounts(e)
    BY <1>2, <2>1, CountedEvents DEF EventSound
  <2>2. CASE ~HasCounts(e)
    BY <1>1, <2>2 DEF AdapterTypes, HitsSound, PassesSound
  <2> QED BY <2>1, <2>2
<1>8. AdapterTypes'
  BY <1>1, <1>2, <1>7 DEF AdapterTypes
<1>9. TypeOK'
  BY <1>5, <1>6, <1>8, NextTypesByGroup
<1>10. EventsSound'
  BY <1>1, <1>2, <1>4, EventsShrinkSound
<1>11. PassesSound'
  BY <1>1, <1>2, <1>7 DEF HitsSound, PassesSound
<1> QED BY <1>2, <1>9, <1>10, <1>11 DEF IInv, ListsSound, HitsSound

(* No breakpoint has more hits than there were passes. *)
CountsWithin(all, p) == \A f \in DOMAIN all : \A l \in DOMAIN all[f] : all[f][l].count <= p[<<f, l>>]

(* None has after counts were given, if the counts have not. *)
LEMMA GivenWithin ==
  ASSUME NEW all, AreBreakpoints(all), NEW entries, NEW n \in Nat, Bounded(entries, n), ~Mislead(all, entries),
         NEW p \in PerSite, CountsWithin(all, p),
         \A i \in DOMAIN entries : entries[i].count <= p[entries[i].of]
  PROVE  CountsWithin(ApplyHits(all, entries), p)
<1> DEFINE r == ApplyHits(all, entries)
<1>1. /\ DOMAIN r = DOMAIN all
      /\ \A f \in DOMAIN all :
            /\ DOMAIN r[f] = DOMAIN all[f]
            /\ \A l \in DOMAIN all[f] :
                  \/ r[f][l].count = all[f][l].count
                  \/ \E i \in Given(all, entries, <<f, l>>) : r[f][l].count = entries[i].count
  BY ApplyHitsTypes
<1> HIDE DEF r
<1>2. ASSUME NEW f \in DOMAIN r, NEW l \in DOMAIN r[f] PROVE r[f][l].count <= p[<<f, l>>]
  <2>1. f \in DOMAIN all /\ l \in DOMAIN all[f]
    BY <1>1, <1>2
  <2>2. CASE r[f][l].count = all[f][l].count
    BY <2>1, <2>2 DEF CountsWithin
  <2>3. CASE \E i \in Given(all, entries, <<f, l>>) : r[f][l].count = entries[i].count
    <3>1. <<f, l>> \in Sites
      BY <2>1 DEF AreBreakpoints
    <3>2. PICK site \in Sites : site = <<f, l>>
      BY <3>1
    <3>3. PICK i \in Given(all, entries, site) : r[f][l].count = entries[i].count
      BY <2>3, <3>2
    <3>4. i \in DOMAIN entries /\ entries[i].of = site
      BY <3>3, GivenAreOf
    <3> QED BY <3>2, <3>3, <3>4
  <2> QED BY <1>1, <2>1, <2>2, <2>3
<1>3. CountsWithin(r, p)
  BY <1>2 DEF CountsWithin
<1> QED BY <1>3 DEF r

(* A list may be taken to have more passes. *)
LEMMA WithinMore ==
  ASSUME NEW all, AreBreakpoints(all), NEW p \in PerSite, NEW q \in PerSite,
         \A s \in Sites : p[s] <= q[s], CountsWithin(all, p)
  PROVE  CountsWithin(all, q)
<1>1. ASSUME NEW f \in DOMAIN all, NEW l \in DOMAIN all[f] PROVE all[f][l].count <= q[<<f, l>>]
  <2>1. <<f, l>> \in Sites /\ all[f][l].count \in Nat /\ all[f][l].count <= p[<<f, l>>]
    BY DEF AreBreakpoints, Breakpoint, CountsWithin
  <2>2. PICK s \in Sites, c \in Nat : s = <<f, l>> /\ c = all[f][l].count
    BY <2>1
  <2>3. p[s] \in Nat /\ q[s] \in Nat /\ p[s] <= q[s] /\ c <= p[s]
    BY <2>1, <2>2 DEF PerSite
  <2>4. c <= q[s]
    BY <2>2, <2>3
  <2> QED BY <2>2, <2>4
<1> QED BY <1>1 DEF CountsWithin

(* What the UI waits for stays sound when an event is taken that is not a    *)
(* snapshot and changes no list.                                             *)
LEMMA TakenLaunchStays ==
  ASSUME IInv, NEW e, Taken(e), e.kind # "snapshot", UNCHANGED <<launch, known, flushed>>,
         state' \in {state, "stopped"}, ~known => state' = state /\ data' = data /\ resolving' \in {{}, resolving},
         restarting' \in {FALSE, restarting}, UNCHANGED promptVars
  PROVE  LaunchSound' /\ FlushComes' /\ (FlushIsDue => FlushIsDue') /\ (EntryComes => EntryComes')
<1>1. LaunchSound /\ FlushComes /\ ListsSound
  BY DEF IInv, ListsSound
<1>2. UNCHANGED <<command, session>> /\ launch # "none" /\ (StopComes => StopComes') /\ (EntryComes => EntryComes')
  BY TakenKeeps
<1>3. UNCHANGED editingFilter
  BY DEF promptVars
<1>4. restarting' => restarting
  OBVIOUS
<1>5. LaunchSound'
  BY <1>1, <1>2, <1>3, <1>4 DEF LaunchSound
<1>6. FlushComes' /\ (FlushIsDue => FlushIsDue')
  BY <1>1, <1>2 DEF FlushComes, FlushIsDue
<1> QED BY <1>2, <1>5, <1>6

(* The answer to a list. *)
LEMMA FinishedIsSound ==
  ASSUME IInv, NEW e, Taken(e), e.kind = "results", BreakpointsFinished(e)
  PROVE  IInv'
<1>1. /\ WordTypes /\ ListTypes /\ PlaceTypes /\ MailTypes /\ AdapterTypes /\ TypeOK /\ HitsSound
      /\ LaunchSound /\ FilesSound /\ KindsSound /\ AreBreakpoints(breakpoints) /\ stops \in Nat
  BY TypesByGroup DEF IInv, ListsSound, ListTypes, WordTypes
<1>2. /\ UNCHANGED <<edits, commands, command, infoBox, session, stopped, requests, hits, adapter, adapterLists>>
      /\ UNCHANGED <<passes, stops>> /\ e \in Events /\ EventSound(e) /\ launch # "none"
      /\ events # <<>> /\ e = Head(events)
  BY TakenKeeps
<1>3. /\ UNCHANGED <<launch, known, flushed, restarting, state, exceptions, functions, data, resolving, promptVars>>
      /\ UNCHANGED <<lastCounted, catchSkip, inCatch, sourceBox, boxes, lost>> /\ seen' = e.passed
  BY DEF BreakpointsFinished, launchVars, countVars, boxVars
<1> DEFINE f == Find(breakpoints, e.file)
<1> DEFINE first == ByPlace(breakpoints, f, e)
<1> DEFINE second == ByLine(f, e)
<1> DEFINE placed == ApplyHits(breakpoints, first)
<1>4. \/ breakpoints' = breakpoints /\ misled' = misled
      \/ /\ breakpoints' = ApplyHits(placed, second)
         /\ misled' = (misled \/ Mislead(breakpoints, first) \/ Mislead(placed, second))
  BY <1>1 DEF BreakpointsFinished, WordTypes
<1>5. Bounded(first, stops) /\ Bounded(second, stops)
  BY <1>1, <1>2, CountsAreBounded
<1>6. OfResults(first, e) /\ OfResults(second, e) /\ e.passed \in PerSite
  <2>1. e.results \in Seq([line : Lines, count : Nat]) /\ e.passed \in PerSite
    BY <1>2, EventShapes
  <2> QED BY <2>1, ByPlaceTypes, ByLineTypes
<1>7. \A i \in DOMAIN e.results : e.results[i].count <= e.passed[<<e.file, e.results[i].line>>]
  BY <1>2 DEF EventSound
<1> HIDE DEF f, first, second
<1>8. AreBreakpoints(placed) /\ \A g : Listing(placed, g) = Listing(breakpoints, g)
  BY <1>1, <1>5, ApplyHitsTypes
<1> HIDE DEF placed
<1>9. AreBreakpoints(ApplyHits(placed, second)) /\ \A g : Listing(ApplyHits(placed, second), g) = Listing(placed, g)
  BY <1>1, <1>5, <1>8, ApplyHitsTypes
<1>10. PICK all : all = breakpoints'
  OBVIOUS
<1>11. AreBreakpoints(all) /\ \A g : Listing(all, g) = Listing(breakpoints, g)
  BY <1>1, <1>4, <1>8, <1>9, <1>10
<1>12. /\ LaunchSound' /\ FlushComes' /\ (FlushIsDue => FlushIsDue') /\ (EntryComes => EntryComes')
  <2>1. restarting \in BOOLEAN
    BY <1>1 DEF WordTypes
  <2> QED BY <1>3, <2>1, TakenLaunchStays
<1>13. FilesSound'
  <2>1. Push(all, {})
    BY <1>3 DEF Push
  <2> QED BY <1>1, <1>2, <1>3, <1>10, <1>11, <1>12, <2>1, PushSound
<1>14. KindsSound'
  BY <1>1, <1>2, <1>3, <1>12, KindsStay
<1>15. ListTypes' /\ MailTypes'
  BY <1>1, <1>3, <1>10, <1>11 DEF ListTypes, MailTypes
<1>16. misled' \in BOOLEAN
  BY <1>1, <1>4 DEF WordTypes
<1>17. HandledTypes'
  BY <1>1, <1>3, <1>16 DEF HandledTypes, WordTypes, PlaceTypes
<1>18. CountsSound'
  <2>1. \A s \in Sites : seen[s] <= e.passed[s]
    BY <1>2 DEF EventSound, HasCounts
  <2>2. seen \in PerSite
    BY <1>1 DEF AdapterTypes
  <2>3. ~misled => CountsWithin(breakpoints, e.passed)
    <3>1. ~misled => CountsWithin(breakpoints, seen)
      BY <1>1 DEF HitsSound, CountsSound, CountsWithin
    <3> QED BY <1>1, <1>6, <2>1, <2>2, <3>1, WithinMore
  <2>4. /\ \A i \in DOMAIN first : first[i].count <= e.passed[first[i].of]
        /\ \A i \in DOMAIN second : second[i].count <= e.passed[second[i].of]
    BY <1>6, <1>7 DEF OfResults
  <2>5. ~misled /\ ~Mislead(breakpoints, first) => CountsWithin(placed, e.passed)
    BY <1>1, <1>5, <1>6, <2>3, <2>4, GivenWithin DEF placed
  <2>6. ~misled /\ ~Mislead(breakpoints, first) /\ ~Mislead(placed, second)
        => CountsWithin(ApplyHits(placed, second), e.passed)
    BY <1>1, <1>5, <1>6, <1>8, <2>4, <2>5, GivenWithin
  <2>7. ~misled' => CountsWithin(all, e.passed)
    <3>1. CASE breakpoints' = breakpoints /\ misled' = misled
      BY <1>10, <2>3, <3>1
    <3>2. CASE /\ breakpoints' = ApplyHits(placed, second)
               /\ misled' = (misled \/ Mislead(breakpoints, first) \/ Mislead(placed, second))
      <4>1. ~misled' => ~misled /\ ~Mislead(breakpoints, first) /\ ~Mislead(placed, second)
        BY <3>2
      <4> QED BY <1>10, <2>6, <3>2, <4>1
    <3> QED BY <1>4, <3>1, <3>2
  <2> QED BY <1>3, <1>10, <2>7 DEF CountsSound, CountsWithin
<1>19. seen' = IF HasCounts(e) THEN e.passed ELSE seen
  BY <1>3 DEF HasCounts
<1> QED BY <1>3, <1>12, <1>13, <1>14, <1>15, <1>17, <1>18, <1>19, TakenSound

(* What a data breakpoint needs is known. *)
LEMMA InfoIsSound ==
  ASSUME IInv, NEW e, Taken(e), e.kind = "info", DataBreakpointInfo(e)
  PROVE  IInv'
<1>1. /\ WordTypes /\ ListTypes /\ PlaceTypes /\ MailTypes /\ TypeOK /\ HitsSound
      /\ LaunchSound /\ FilesSound /\ KindsSound
  BY TypesByGroup DEF IInv, ListsSound
<1>2. /\ UNCHANGED <<edits, commands, command, infoBox, session, stopped, requests, hits, adapter, adapterLists>>
      /\ e \in Events /\ launch # "none"
  BY TakenKeeps
<1>3. /\ UNCHANGED <<launch, known, flushed, restarting, state, breakpoints, exceptions, functions, promptVars>>
      /\ UNCHANGED <<lastCounted, catchSkip, inCatch, sourceBox, seen, misled>> /\ resolving' = {}
  BY DEF DataBreakpointInfo, launchVars, countVars
<1>4. \/ resolving # {} /\ data' = data \cup {e.item} /\ PushKind("data", data')
      \/ UNCHANGED <<data, boxes, lost>>
  BY DEF DataBreakpointInfo
<1>5. ~known => data' = data
  BY <1>1, <1>4 DEF LaunchSound
<1>6. e.item \in Items
  BY <1>2, EventShapes
<1>7. data' \in SUBSET Items
  BY <1>1, <1>4, <1>6 DEF ListTypes
<1>8. /\ LaunchSound' /\ FlushComes' /\ (FlushIsDue => FlushIsDue') /\ (EntryComes => EntryComes')
  <2>1. restarting \in BOOLEAN
    BY <1>1 DEF WordTypes
  <2> QED BY <1>3, <1>5, <2>1, TakenLaunchStays
<1>9. PICK list : list = data'
  OBVIOUS
<1>10. MailTypes' /\ KindsSound' /\ \A f \in Files : f \in lost => f \in lost'
  <2>1. CASE resolving # {} /\ PushKind("data", data')
    <3>1. list \in KindLists /\ PushKind("data", list) /\ Current("data")' = list /\ "data" \in Kinds
      BY <1>7, <1>9, <2>1, KindListTypes, OthersStay DEF Kinds
    <3>2. (boxes \in [Kinds -> SUBSET KindLists])' /\ (lost \subseteq Files \cup Kinds)'
      BY <1>1, <3>1, PushKindTypes
    <3>3. \A j \in Kinds \ {"data"} : Current(j)' = Current(j)
      BY <1>3, OthersStay
    <3>4. known
      BY <1>1, <2>1 DEF LaunchSound
    <3>5. KindsSound' /\ \A f \in Files : f \in lost => f \in lost'
      BY <1>1, <1>2, <1>3, <1>8, <3>1, <3>3, <3>4, PushKindSound
    <3> QED BY <1>1, <1>3, <3>2, <3>5 DEF MailTypes
  <2>2. CASE UNCHANGED <<data, boxes, lost>>
    <3>1. KindsSound'
      BY <1>1, <1>2, <1>3, <1>8, <2>2, KindsStay
    <3> QED BY <1>1, <1>3, <2>2, <3>1 DEF MailTypes
  <2> QED BY <1>4, <2>1, <2>2
<1>11. FilesSound'
  BY <1>1, <1>2, <1>3, <1>8, <1>10, FilesStay
<1>12. ListTypes'
  BY <1>1, <1>3, <1>7 DEF ListTypes
<1>13. HandledTypes'
  BY <1>1, <1>3 DEF HandledTypes, WordTypes, PlaceTypes, AtMostOne
<1>14. CountsSound'
  BY <1>1, <1>3 DEF HitsSound, CountsSound
<1>15. seen' = IF HasCounts(e) THEN e.passed ELSE seen
  BY <1>3 DEF HasCounts
<1> QED BY <1>3, <1>8, <1>10, <1>11, <1>12, <1>13, <1>14, <1>15, TakenSound

(* A command failed. *)
LEMMA FailedIsSound ==
  ASSUME IInv, NEW e, Taken(e), e.kind = "failed", CommandFailed(e)
  PROVE  IInv'
<1>1. /\ WordTypes /\ ListTypes /\ PlaceTypes /\ MailTypes /\ TypeOK /\ HitsSound
      /\ LaunchSound /\ FilesSound /\ KindsSound
  BY TypesByGroup DEF IInv, ListsSound
<1>2. /\ UNCHANGED <<edits, commands, command, infoBox, session, stopped, requests, hits, adapter, adapterLists>>
      /\ e \in Events /\ launch # "none"
  BY TakenKeeps
<1>3. /\ UNCHANGED <<launch, known, flushed, breakpoints, exceptions, functions, data, resolving, promptVars>>
      /\ UNCHANGED <<lastCounted, catchSkip, inCatch, sourceBox, boxes, seen, misled>>
  BY DEF CommandFailed, listVars, countVars, boxVars
<1>4. /\ state' = IF state = "running" /\ e.op # "restart" THEN "stopped" ELSE state
      /\ restarting' = (restarting /\ e.op # "restart")
      /\ lost' = IF e.op = "restart" /\ RestartUnderWay THEN lost \cup {k \in Kinds : boxes[k] = {}} ELSE lost
  BY DEF CommandFailed
<1>5. /\ state' \in {state, "stopped"} /\ restarting \in BOOLEAN /\ restarting' \in {FALSE, restarting}
      /\ (~known => state' = state)
  BY <1>1, <1>4 DEF WordTypes, LaunchSound, NoState
<1>6. /\ LaunchSound' /\ FlushComes' /\ (FlushIsDue => FlushIsDue') /\ (EntryComes => EntryComes')
  BY <1>3, <1>5, TakenLaunchStays
<1>7. KindsSound'
  <2>1. CASE e.op # "restart"
    <3>1. restarting' = restarting /\ lost' = lost
      BY <1>4, <1>5, <2>1
    <3> QED BY <1>1, <1>2, <1>3, <1>6, <3>1, KindsStay
  <2>2. CASE e.op = "restart" /\ RestartUnderWay
    <3>1. \A k \in Kinds : k \in lost' \/ boxes'[k] # {}
      BY <1>3, <1>4, <2>2
    <3>2. BoxesSound'
      BY <1>1, <1>3 DEF KindsSound, BoxesSound, Current
    <3> QED BY <3>1, <3>2 DEF KindsSound, KindSound, RestartSound
  <2>3. CASE e.op = "restart" /\ ~RestartUnderWay
    <3>1. command # "restart" /\ ~EntryComes /\ lost' = lost
      BY <1>4, <2>3 DEF RestartUnderWay, EntryComes
    <3>2. ASSUME NEW k \in Kinds PROVE KindSound(k)'
      <4>1. KindSound(k)
        BY <1>1 DEF KindsSound
      <4> QED BY <1>2, <1>3, <3>1, <4>1 DEF KindSound, Current
    <3>3. BoxesSound' /\ RestartSound'
      BY <1>1, <1>2, <1>3, <3>1 DEF KindsSound, BoxesSound, Current, RestartSound
    <3> QED BY <3>2, <3>3 DEF KindsSound
  <2> QED BY <2>1, <2>2, <2>3
<1>8. FilesSound'
  <2>1. \A f \in Files : f \in lost => f \in lost'
    BY <1>4
  <2> QED BY <1>1, <1>2, <1>3, <1>6, <2>1, FilesStay
<1>9. ListTypes' /\ MailTypes'
  BY <1>1, <1>3, <1>4 DEF ListTypes, MailTypes
<1>10. HandledTypes'
  BY <1>1, <1>3, <1>5 DEF HandledTypes, WordTypes, PlaceTypes
<1>11. CountsSound'
  BY <1>1, <1>3 DEF HitsSound, CountsSound
<1>12. seen' = IF HasCounts(e) THEN e.passed ELSE seen
  BY <1>3 DEF HasCounts
<1> QED BY <1>3, <1>6, <1>7, <1>8, <1>9, <1>10, <1>11, <1>12, TakenSound

(* A count of a stop is wrong, or is made a second time. *)
Wrong(e) ==
    /\ IsNew(e)
    /\ \/ Site(e) # <<e.stop.file, e.stop.line>>
       \/ e.hits[Site(e)] > 0
       \/ e.passed[Site(e)] = seen[Site(e)] /\ lastCounted # {Site(e)}

(* A snapshot in its steps. *)
LEMMA SnapshotStep ==
  ASSUME NEW e, ApplySnapshot(e)
  PROVE  /\ state' = e.state /\ known' = TRUE /\ exceptions' = WithDefaults /\ breakpoints' = After(e)
         /\ lastCounted' = IF IsNew(e) THEN {Site(e)} ELSE lastCounted
         /\ catchSkip' = catchSkip \ Ended(e)
         /\ inCatch' = (e.state = "stopped" /\ e.stop.reason = "exception")
         /\ misled' = (misled \/ Mislead(breakpoints, SnapshotHits(e.hits)) \/ Wrong(e))
         /\ seen' = e.passed
         /\ IF e.state = "stopped" /\ FlushDue(After(e))
            THEN /\ Flush(After(e), exceptions', EndedFiles(e))
                 /\ flushed' = (flushed \/ restarting \/ launch = "handled")
            ELSE /\ PushDefaults(exceptions') /\ UNCHANGED flushed
                 /\ Push(After(e), EndedFiles(e))
         /\ restarting' = (restarting /\ e.state # "stopped")
         /\ UNCHANGED <<launch, functions, data, resolving, promptVars>>
  BY DEF ApplySnapshot, Wrong, After, EndedFiles, Ended, Recorded, IsNew, Site, Counted

(* The counts after a snapshot. *)
LEMMA SnapshotCounts ==
  ASSUME IInv, NEW e, Taken(e), e.kind = "snapshot", ApplySnapshot(e)
  PROVE  CountsSound'
<1>1. /\ TypeOK /\ HitsSound /\ AreBreakpoints(breakpoints) /\ stops \in Nat /\ seen \in PerSite
      /\ e \in Events /\ EventSound(e) /\ events # <<>> /\ e = Head(events)
  BY TakenKeeps, TypesByGroup DEF IInv, ListTypes, WordTypes, AdapterTypes
<1>2. Bounded(SnapshotHits(e.hits), stops) /\ e.hits \in PerSite /\ e.passed \in PerSite
  BY <1>1, CountsAreBounded, EventShapes
<1>3. /\ \A s \in Sites : seen[s] <= e.passed[s]
      /\ \A s \in Sites : e.hits[s] <= e.passed[s]
  BY <1>1 DEF EventSound, HasCounts
<1>4. breakpoints' = After(e) /\ seen' = e.passed
      /\ misled' = (misled \/ Mislead(breakpoints, SnapshotHits(e.hits)) \/ Wrong(e))
  BY SnapshotStep
<1> SUFFICES ASSUME ~misled' PROVE CountsWithin(After(e), e.passed)
  BY <1>4 DEF CountsSound, CountsWithin
<1>5. ~misled /\ ~Mislead(breakpoints, SnapshotHits(e.hits)) /\ ~Wrong(e)
  BY <1>4
<1> DEFINE q == SnapshotHits(e.hits)
<1> DEFINE c == Counted(e)
<1> DEFINE r == Recorded(e)
<1> DEFINE a == After(e)
<1> DEFINE site == Site(e)
<1>6. \A i \in DOMAIN q : q[i].of \in Sites /\ q[i].count = e.hits[q[i].of]
  BY <1>2, SnapshotHitsTypes
<1>7. c = ApplyHits(breakpoints, q)
  BY DEF Counted
<1>8. CountsWithin(breakpoints, seen)
  BY <1>1, <1>5 DEF HitsSound, CountsSound, CountsWithin
<1>9. /\ IsNew(e) => /\ site[1] \in DOMAIN c /\ site[2] \in DOMAIN c[site[1]]
                     /\ site = <<site[1], site[2]>>
      /\ DOMAIN r = DOMAIN c
      /\ \A f \in DOMAIN c :
            /\ DOMAIN r[f] = DOMAIN c[f]
            /\ \A l \in DOMAIN c[f] :
                  r[f][l].count = IF IsNew(e) /\ <<f, l>> = site THEN c[f][l].count + 1 ELSE c[f][l].count
      /\ \A f \in DOMAIN a : f \in DOMAIN r /\ \A l \in DOMAIN a[f] : l \in DOMAIN r[f] /\ a[f][l] = r[f][l]
      /\ AreBreakpoints(c)
  BY <1>1, SnapshotLists
<1>10. IsNew(e) => e.hits[site] = 0 /\ e.passed[site] # seen[site]
  <2>1. IsNew(e) => site \in Sites /\ lastCounted # {site}
    BY <1>9 DEF IsNew, AlreadyCounted, AreBreakpoints
  <2>2. \A s \in Sites : e.hits[s] \in Nat
    BY <1>2 DEF PerSite
  <2> QED BY <1>5, <2>1, <2>2 DEF Wrong
<1>11. /\ DOMAIN c = DOMAIN breakpoints
       /\ \A f \in DOMAIN breakpoints :
             /\ DOMAIN c[f] = DOMAIN breakpoints[f]
             /\ \A l \in DOMAIN breakpoints[f] :
                   \/ c[f][l].count = breakpoints[f][l].count
                   \/ \E i \in Given(breakpoints, q, <<f, l>>) : c[f][l].count = q[i].count
  <2> HIDE DEF q, c
  <2> QED BY <1>1, <1>2, <1>7, ApplyHitsTypes DEF q
<1> HIDE DEF q, c, r, a, site
<1>12. ASSUME NEW f \in DOMAIN c, NEW l \in DOMAIN c[f]
       PROVE  /\ <<f, l>> \in Sites /\ c[f][l].count \in Nat
              /\ c[f][l].count <= seen[<<f, l>>]
                 \/ (c[f][l].count <= e.hits[<<f, l>>] /\ c[f][l].count > 0)
  <2>1. <<f, l>> \in Sites /\ c[f][l].count \in Nat
    BY <1>9 DEF AreBreakpoints, Breakpoint
  <2>2. PICK s \in Sites : s = <<f, l>>
    BY <2>1
  <2>3. f \in DOMAIN breakpoints /\ l \in DOMAIN breakpoints[f]
    BY <1>11
  <2>4. CASE c[f][l].count = breakpoints[f][l].count
    BY <1>8, <2>1, <2>3, <2>4 DEF CountsWithin
  <2>5. CASE \E i \in Given(breakpoints, q, <<f, l>>) : c[f][l].count = q[i].count
    <3>1. PICK i \in Given(breakpoints, q, s) : c[f][l].count = q[i].count
      BY <2>2, <2>5
    <3>2. i \in DOMAIN q /\ q[i].of = s /\ q[i].count > 0
      BY <1>5, GivenAreOf DEF q
    <3>3. c[f][l].count = e.hits[s] /\ c[f][l].count > 0 /\ e.hits[s] \in Nat
      BY <1>2, <1>6, <3>1, <3>2 DEF PerSite
    <3> QED BY <2>1, <2>2, <3>3
  <2> QED BY <1>11, <2>3, <2>4, <2>5
<1>13. ASSUME NEW f \in DOMAIN c, NEW l \in DOMAIN c[f] PROVE r[f][l].count <= e.passed[<<f, l>>]
  <2>1. PICK s \in Sites, n \in Nat : s = <<f, l>> /\ n = c[f][l].count
    BY <1>12
  <2>2. /\ seen[s] \in Nat /\ e.passed[s] \in Nat /\ e.hits[s] \in Nat
        /\ seen[s] <= e.passed[s] /\ e.hits[s] <= e.passed[s]
    BY <1>1, <1>2, <1>3 DEF PerSite
  <2>3. n <= seen[s] \/ (n <= e.hits[s] /\ n > 0)
    BY <1>12, <2>1
  <2>4. CASE IsNew(e) /\ s = site
    <3>1. r[f][l].count = n + 1
      BY <1>9, <2>1, <2>4
    <3>2. e.hits[s] = 0 /\ e.passed[s] # seen[s]
      BY <1>10, <2>4
    <3>3. n + 1 <= e.passed[s]
      BY <2>2, <2>3, <3>2
    <3> QED BY <2>1, <3>1, <3>3
  <2>5. CASE ~(IsNew(e) /\ s = site)
    <3>1. r[f][l].count = n
      BY <1>9, <2>1, <2>5
    <3>2. n <= e.passed[s]
      BY <2>2, <2>3
    <3> QED BY <2>1, <3>1, <3>2
  <2> QED BY <2>4, <2>5
<1>14. ASSUME NEW f \in DOMAIN a, NEW l \in DOMAIN a[f] PROVE a[f][l].count <= e.passed[<<f, l>>]
  <2>1. f \in DOMAIN r /\ l \in DOMAIN r[f] /\ a[f][l] = r[f][l]
    BY <1>9
  <2>2. f \in DOMAIN c /\ l \in DOMAIN c[f]
    BY <1>9, <2>1
  <2> QED BY <1>13, <2>1, <2>2
<1> QED BY <1>14 DEF a, CountsWithin

(* The filters of the adapter's defaults are switched on with the first      *)
(* snapshot.                                                                 *)
LEMMA DefaultsTypes ==
  ASSUME exceptions \in [Items -> [enabled : BOOLEAN, condition : BOOLEAN]]
  PROVE  /\ WithDefaults \in [Items -> [enabled : BOOLEAN, condition : BOOLEAN]]
         /\ known => WithDefaults = exceptions
         /\ ToldExceptions(WithDefaults) = {} => ToldExceptions(exceptions) = {}
<1> DEFINE w == WithDefaults
<1>1. ASSUME NEW x \in Items
      PROVE  /\ w[x] \in [enabled : BOOLEAN, condition : BOOLEAN]
             /\ exceptions[x].enabled => w[x].enabled
             /\ known => w[x] = exceptions[x]
  <2>1. PICK old \in [enabled : BOOLEAN, condition : BOOLEAN] : old = exceptions[x]
    OBVIOUS
  <2>2. w[x] = [old EXCEPT !.enabled = @ \/ (~known /\ x \in Defaults)]
    BY <2>1 DEF WithDefaults
  <2>3. w[x].enabled <=> (old.enabled \/ (~known /\ x \in Defaults))
    BY <2>2
  <2>4. w[x] \in [enabled : BOOLEAN, condition : BOOLEAN]
    <3>1. (old.enabled \/ (~known /\ x \in Defaults)) \in BOOLEAN
      OBVIOUS
    <3> QED BY <2>2, <3>1
  <2>5. ASSUME known PROVE w[x] = old
    <3>1. (old.enabled \/ (~known /\ x \in Defaults)) = old.enabled
      BY <2>5
    <3> QED BY <2>2, <3>1
  <2> QED BY <2>1, <2>3, <2>4, <2>5
<1>2. w = [x \in Items |-> w[x]]
  BY DEF WithDefaults
<1> HIDE DEF w
<1>3. w \in [Items -> [enabled : BOOLEAN, condition : BOOLEAN]]
  BY <1>1, <1>2
<1>4. known => w = exceptions
  BY <1>1, <1>3
<1>5. ToldExceptions(w) = {} => ToldExceptions(exceptions) = {}
  BY <1>1 DEF ToldExceptions
<1> QED BY <1>3, <1>4, <1>5 DEF w

(* The types after a snapshot. *)
LEMMA SnapshotTypes ==
  ASSUME IInv, NEW e, Taken(e), e.kind = "snapshot", ApplySnapshot(e)
  PROVE  HandledTypes' /\ ListTypes' /\ MailTypes'
<1>1. /\ WordTypes /\ ListTypes /\ PlaceTypes /\ MailTypes /\ TypeOK /\ HitsSound
      /\ e \in Events /\ events # <<>> /\ e = Head(events)
  BY TakenKeeps, TypesByGroup DEF IInv
<1>2. /\ state' = e.state /\ known' = TRUE /\ exceptions' = WithDefaults /\ breakpoints' = After(e)
      /\ lastCounted' = IF IsNew(e) THEN {Site(e)} ELSE lastCounted
      /\ catchSkip' = catchSkip \ Ended(e)
      /\ inCatch' = (e.state = "stopped" /\ e.stop.reason = "exception")
      /\ misled' = (misled \/ Mislead(breakpoints, SnapshotHits(e.hits)) \/ Wrong(e))
      /\ restarting' = (restarting /\ e.state # "stopped")
      /\ UNCHANGED <<launch, functions, data, resolving>>
  BY SnapshotStep
<1>3. \/ /\ Flush(After(e), exceptions', EndedFiles(e))
         /\ flushed' = (flushed \/ restarting \/ launch = "handled")
      \/ PushDefaults(exceptions') /\ UNCHANGED flushed /\ Push(After(e), EndedFiles(e))
  BY SnapshotStep
<1>4. /\ AreBreakpoints(After(e)) /\ AreBreakpoints(Counted(e)) /\ EndedFiles(e) \in SUBSET Files
      /\ IsNew(e) => /\ Site(e)[1] \in DOMAIN Counted(e) /\ Site(e)[2] \in DOMAIN Counted(e)[Site(e)[1]]
                     /\ Site(e) = <<Site(e)[1], Site(e)[2]>>
  BY <1>1, SnapshotLists
<1>5. exceptions' \in [Items -> [enabled : BOOLEAN, condition : BOOLEAN]]
  BY <1>1, <1>2, DefaultsTypes DEF ListTypes
<1>6. ListTypes'
  BY <1>1, <1>2, <1>4, <1>5 DEF ListTypes
<1>7. e.state \in {"running", "stopped"}
  BY <1>1, EventShapes
<1>8. lastCounted' \subseteq Sites /\ \A x, y \in lastCounted' : x = y
  <2>1. IsNew(e) => Site(e) \in Sites
    BY <1>4 DEF AreBreakpoints
  <2> QED BY <1>1, <1>2, <2>1 DEF PlaceTypes, AtMostOne
<1>9. flushed' \in BOOLEAN
  BY <1>1, <1>3 DEF WordTypes
<1>10. known' \in BOOLEAN /\ inCatch' \in BOOLEAN /\ misled' \in BOOLEAN /\ restarting' \in BOOLEAN
  BY <1>2
<1>11. HandledTypes'
  BY <1>1, <1>2, <1>7, <1>8, <1>9, <1>10 DEF HandledTypes, PlaceTypes, AtMostOne
<1>12. MailTypes'
  <2>1. PICK all, files, filters : all = After(e) /\ files = EndedFiles(e) /\ filters = exceptions'
    OBVIOUS
  <2>2. /\ AreBreakpoints(all) /\ files \in SUBSET Files
        /\ filters \in [Items -> [enabled : BOOLEAN, condition : BOOLEAN]]
    BY <1>4, <1>5, <2>1
  <2>3. CASE Flush(After(e), exceptions', EndedFiles(e))
    <3>1. Flush(all, filters, files)
      BY <2>1, <2>3
    <3> QED BY <1>1, <2>2, <3>1, FlushTypes
  <2>4. CASE PushDefaults(exceptions') /\ Push(After(e), EndedFiles(e))
    <3>1. Push(all, files)
      BY <2>1, <2>4
    <3>2. AtMostOne(sourceBox, Posts)' /\ (lost \subseteq Files \cup Kinds)'
      BY <1>1, <2>2, <3>1, PushTypes
    <3>3. ToldExceptions(filters) \in KindLists
      BY <2>2, KindListTypes
    <3>4. boxes' \in [Kinds -> SUBSET KindLists]
      <4>1. boxes' = boxes \/ boxes' = [boxes EXCEPT !["exception"] = {ToldExceptions(filters)}]
        BY <2>1, <2>4 DEF PushDefaults
      <4>2. {ToldExceptions(filters)} \in SUBSET KindLists
        BY <3>3
      <4> QED BY <1>1, <4>1, <4>2 DEF MailTypes
    <3> QED BY <3>2, <3>4 DEF MailTypes
  <2> QED BY <1>3, <2>3, <2>4
<1> QED BY <1>6, <1>11, <1>12

(* The lists of the other kinds after a snapshot that flushes nothing.       *)
LEMMA DefaultsSound ==
  ASSUME IInv, NEW e, Taken(e), e.kind = "snapshot", ApplySnapshot(e),
         PushDefaults(exceptions'), e.state # "running" => ~restarting, UNCHANGED flushed,
         \A k \in Kinds : k \in lost => k \in lost'
  PROVE  KindsSound'
<1>1. /\ KindsSound /\ exceptions \in [Items -> [enabled : BOOLEAN, condition : BOOLEAN]]
      /\ boxes \in [Kinds -> SUBSET KindLists]
  BY TypesByGroup DEF IInv, ListsSound, ListTypes, MailTypes
<1>2. /\ exceptions' = WithDefaults /\ restarting' = (restarting /\ e.state # "stopped")
      /\ UNCHANGED <<launch, functions, data>>
  BY SnapshotStep
<1>3. /\ UNCHANGED <<command, adapterLists>> /\ e \in Events
      /\ EntryComes => EntryComes' \/ (e.kind = "snapshot" /\ e.state = "stopped" /\ e.stop = Entry)
  BY TakenKeeps
<1>4. restarting => restarting' /\ e.state = "running"
  <2>1. e.state \in {"running", "stopped"}
    BY <1>3, EventShapes
  <2> QED BY <1>2, <2>1
<1>5. restarting /\ EntryComes => restarting' /\ EntryComes'
  BY <1>3, <1>4
<1>6. ASSUME NEW k \in Kinds
      PROVE  \/ boxes'[k] = {Current(k)'}
             \/ boxes'[k] = boxes[k] /\ Current(k)' = Current(k)
  <2>1. CASE k = "exception"
    <3>1. CASE ~known /\ ToldExceptions(exceptions') # {}
      <4>1. boxes' = [boxes EXCEPT !["exception"] = {ToldExceptions(exceptions')}]
        BY <3>1 DEF PushDefaults
      <4>2. boxes'[k] = {ToldExceptions(exceptions')}
        BY <1>1, <2>1, <4>1
      <4>3. Current(k)' = ToldExceptions(exceptions')
        BY <2>1 DEF Current
      <4> QED BY <4>2, <4>3
    <3>2. CASE known \/ ToldExceptions(exceptions') = {}
      <4>1. boxes' = boxes
        BY <3>2 DEF PushDefaults
      <4>2. ToldExceptions(exceptions') = ToldExceptions(exceptions)
        BY <1>1, <1>2, <3>2, DefaultsTypes
      <4>3. Current(k)' = ToldExceptions(exceptions') /\ Current(k) = ToldExceptions(exceptions)
        BY <2>1 DEF Current
      <4> QED BY <4>1, <4>2, <4>3
    <3> QED BY <3>1, <3>2
  <2>2. CASE k # "exception"
    <3>1. boxes'[k] = boxes[k]
      BY <1>1, <2>2 DEF PushDefaults
    <3>2. Current(k)' = Current(k)
      BY <1>2, <2>2 DEF Current, Kinds
    <3> QED BY <3>1, <3>2
  <2> QED BY <2>1, <2>2
<1>7. ASSUME NEW k \in Kinds PROVE KindSound(k)' /\ (boxes[k] \in {{}, {Current(k)}})'
  <2>1. KindSound(k) /\ boxes[k] \in {{}, {Current(k)}}
    BY <1>1 DEF KindsSound, BoxesSound
  <2>2. CASE boxes'[k] = {Current(k)'}
    BY <2>2 DEF KindSound
  <2>3. CASE boxes'[k] = boxes[k] /\ Current(k)' = Current(k)
    BY <1>2, <1>3, <1>5, <2>1, <2>3 DEF KindSound
  <2> QED BY <1>6, <2>2, <2>3
<1>8. \A k \in Kinds : boxes[k] # {} => boxes'[k] # {}
  BY <1>6
<1>9. RestartSound'
  BY <1>1, <1>3, <1>4, <1>8 DEF KindsSound, RestartSound
<1> QED BY <1>7, <1>9 DEF KindsSound, BoxesSound

(* The launch and the stops to come after a snapshot. *)
LEMMA SnapshotLaunch ==
  ASSUME IInv, NEW e, Taken(e), e.kind = "snapshot", ApplySnapshot(e)
  PROVE  LaunchSound' /\ FlushComes'
<1>1. LaunchSound /\ FlushComes /\ WordTypes
  BY TypesByGroup DEF IInv, ListsSound
<1>2. /\ UNCHANGED <<command, session>> /\ launch # "none" /\ e \in Events
      /\ StopComes => StopComes' \/ (e.kind = "snapshot" /\ e.state = "stopped")
      /\ e.kind = "snapshot" /\ e.state = "running" => ~known
  BY TakenKeeps
<1>3. /\ state' = e.state /\ known' = TRUE /\ launch' = launch
      /\ restarting' = (restarting /\ e.state # "stopped")
  BY SnapshotStep
<1>4. IF e.state = "stopped" /\ FlushDue(After(e))
      THEN flushed' = (flushed \/ restarting \/ launch = "handled")
      ELSE UNCHANGED flushed
  BY SnapshotStep
<1>5. e.state \in {"running", "stopped"}
  BY <1>2, EventShapes
<1>6. launch # "handled" => ~flushed' /\ ~restarting'
  BY <1>1, <1>3, <1>4 DEF LaunchSound
<1>7. LaunchSound'
  BY <1>1, <1>2, <1>3, <1>6 DEF LaunchSound
<1>8. CASE e.state = "stopped"
  <2>1. ASSUME launch = "handled" PROVE flushed'
    <3>1. CASE FlushDue(After(e))
      BY <1>4, <1>8, <2>1, <3>1
    <3>2. CASE ~FlushDue(After(e))
      BY <1>4, <2>1, <3>2 DEF FlushDue
    <3> QED BY <3>1, <3>2
  <2> QED BY <1>3, <1>7, <1>8, <2>1 DEF FlushComes
<1>9. CASE e.state = "running"
  <2>1. state = NoState /\ (StopComes => StopComes') /\ flushed' = flushed
    BY <1>1, <1>2, <1>4, <1>9 DEF LaunchSound
  <2>2. state # "stopped"
    BY <2>1 DEF NoState
  <2> QED BY <1>1, <1>2, <1>3, <1>7, <2>1, <2>2 DEF FlushComes
<1> QED BY <1>5, <1>8, <1>9

(* A snapshot. *)
LEMMA SnapshotIsSound ==
  ASSUME IInv, NEW e, Taken(e), e.kind = "snapshot", ApplySnapshot(e)
  PROVE  IInv'
<1>1. /\ TypeOK /\ HitsSound /\ LaunchSound /\ FilesSound /\ KindsSound
      /\ UNCHANGED <<command, requests, adapter, adapterLists>>
      /\ e \in Events /\ launch # "none" /\ events # <<>> /\ e = Head(events)
      /\ StopComes => StopComes' \/ (e.kind = "snapshot" /\ e.state = "stopped")
  BY TakenKeeps DEF IInv, ListsSound
<1>2. /\ breakpoints' = After(e) /\ seen' = e.passed /\ UNCHANGED <<launch, functions, data, promptVars>>
      /\ IF e.state = "stopped" /\ FlushDue(After(e))
         THEN Flush(After(e), exceptions', EndedFiles(e))
         ELSE PushDefaults(exceptions') /\ UNCHANGED flushed /\ Push(After(e), EndedFiles(e))
  BY SnapshotStep
<1>3. /\ AreBreakpoints(After(e)) /\ EndedFiles(e) \in SUBSET Files
      /\ \A g : g \notin EndedFiles(e) => Listing(After(e), g) = Listing(breakpoints, g)
  BY <1>1, SnapshotLists
<1>4. PICK all, files : all = After(e) /\ files = EndedFiles(e)
  OBVIOUS
<1>5. /\ AreBreakpoints(all) /\ files \in SUBSET Files /\ breakpoints' = all
      /\ \A g \in Files \ files : Listing(all, g) = Listing(breakpoints, g)
  BY <1>2, <1>3, <1>4
<1>6. FilesSound' /\ KindsSound'
  <2>1. CASE e.state = "stopped" /\ FlushDue(After(e))
    <3>1. Flush(all, exceptions', files)
      BY <1>2, <1>4, <2>1
    <3>2. FilesSound' /\ BoxesSound' /\ \A k \in Kinds : boxes'[k] # {}
      BY <1>1, <1>2, <1>5, <3>1, FlushSound
    <3>3. KindsSound'
      BY <3>2 DEF KindsSound, KindSound, RestartSound
    <3> QED BY <3>2, <3>3
  <2>2. CASE ~(e.state = "stopped" /\ FlushDue(After(e)))
    <3>1. PushDefaults(exceptions') /\ UNCHANGED flushed /\ Push(all, files)
      BY <1>2, <1>4, <2>2
    <3>2. FlushIsDue /\ (\E g \in Files : Listing(all, g) # {}) => FlushIsDue'
      <4>1. CASE e.state = "stopped"
        <5>1. DOMAIN all = {}
          BY <1>4, <2>2, <4>1 DEF FlushDue
        <5> QED BY <5>1, ListingOf
      <4>2. CASE e.state # "stopped"
        BY <1>1, <1>2, <3>1, <4>2 DEF FlushIsDue
      <4> QED BY <4>1, <4>2
    <3>3. FilesSound' /\ \A k \in Kinds : k \in lost => k \in lost'
      BY <1>1, <1>2, <1>5, <3>1, <3>2, PushSound
    <3>4. e.state # "running" => ~restarting
      <4>1. e.state \in {"running", "stopped"}
        BY <1>1, EventShapes
      <4> QED BY <2>2, <4>1 DEF FlushDue
    <3>5. KindsSound'
      BY <3>1, <3>3, <3>4, DefaultsSound
    <3> QED BY <3>3, <3>5
  <2> QED BY <2>1, <2>2
<1>7. LaunchSound' /\ FlushComes'
  BY SnapshotLaunch
<1>8. HandledTypes' /\ ListTypes' /\ MailTypes' /\ CountsSound'
  BY SnapshotTypes, SnapshotCounts
<1>9. seen' = IF HasCounts(e) THEN e.passed ELSE seen
  BY <1>2 DEF HasCounts
<1> QED BY <1>2, <1>6, <1>7, <1>8, <1>9, TakenSound

(* Any event. *)
LEMMA HandleIsSound ==
  ASSUME IInv, HandleSessionEvent
  PROVE  IInv'
<1>1. PICK e : e = Head(events)
  OBVIOUS
<1>2. Taken(e)
  BY <1>1 DEF HandleSessionEvent, Taken
<1>3. \/ e.kind = "snapshot" /\ ApplySnapshot(e)
      \/ e.kind = "results" /\ BreakpointsFinished(e)
      \/ e.kind = "info" /\ DataBreakpointInfo(e)
      \/ e.kind = "failed" /\ CommandFailed(e)
  BY <1>1 DEF HandleSessionEvent
<1> QED BY <1>2, <1>3, SnapshotIsSound, FinishedIsSound, InfoIsSound, FailedIsSound

-----------------------------------------------------------------------------
(* The specification. *)

(* The invariant holds at the start. *)
LEMMA InitIsSound ==
  ASSUME Init
  PROVE  IInv
<1>1. /\ NoHits \in PerSite /\ Entry \in PlacesOfStops /\ {} \in Listings /\ {} \in KindLists
  BY NothingTypes, StopPlaces, KindListTypes DEF Listings
<1>2. AreBreakpoints(breakpoints)
  BY DEF Init, AreBreakpoints
<1>3. WordTypes /\ ListTypes /\ PlaceTypes
  BY <1>2 DEF Init, WordTypes, ListTypes, PlaceTypes, AtMostOne
<1>4. MailTypes /\ EventTypes /\ AdapterTypes
  BY <1>1 DEF Init, MailTypes, EventTypes, AdapterTypes, AtMostOne, NoHits, PerSite
<1>5. TypeOK
  BY <1>3, <1>4, TypesByGroup
<1>6. LaunchSound /\ RunningIsFirst /\ FlushComes
  BY DEF Init, LaunchSound, RunningIsFirst, FlushComes
<1>7. FilesSound
  <2>1. \A f \in Files : Listing(breakpoints, f) = {}
    BY ListingOf DEF Init
  <2> QED BY <2>1 DEF Init, FilesSound, PostsSound, FileSound, Agrees
<1>8. KindsSound
  BY DEF Init, KindsSound, BoxesSound, KindSound, RestartSound
<1>9. HitsSound
  BY DEF Init, HitsSound, EventsSound, PassesSound, CountsSound, NoHits
<1> QED BY <1>5, <1>6, <1>7, <1>8, <1>9 DEF IInv, ListsSound

(* And when nothing happens. *)
LEMMA StutterIsSound ==
  ASSUME IInv, UNCHANGED vars
  PROVE  IInv'
<1>1. /\ UNCHANGED <<launch, known, flushed, restarting, state, breakpoints, exceptions, functions, data>>
      /\ UNCHANGED <<resolving, lastCounted, catchSkip, inCatch, editing, editingFilter, edits, commands>>
      /\ UNCHANGED <<command, sourceBox, boxes, infoBox, events, lost, seen, misled>>
      /\ UNCHANGED <<session, stopped, requests, hits, adapter, adapterLists, passes, stops>>
  BY DEF vars, launchVars, listVars, countVars, promptVars, boxVars, sessionVars
<1>2. /\ WordTypes /\ ListTypes /\ PlaceTypes /\ MailTypes /\ EventTypes /\ AdapterTypes /\ TypeOK
      /\ LaunchSound /\ RunningIsFirst /\ FlushComes /\ FilesSound /\ KindsSound /\ HitsSound
  BY TypesByGroup DEF IInv, ListsSound
<1>3. WordTypes' /\ ListTypes' /\ PlaceTypes'
  BY <1>1, <1>2 DEF WordTypes, ListTypes, PlaceTypes
<1>4. MailTypes' /\ EventTypes' /\ AdapterTypes'
  BY <1>1, <1>2 DEF MailTypes, EventTypes, AdapterTypes
<1>5. TypeOK'
  BY <1>3, <1>4, NextTypesByGroup
<1>6. LaunchSound' /\ RunningIsFirst' /\ FlushComes'
  BY <1>1, <1>2 DEF LaunchSound, RunningIsFirst, FlushComes, StopComes
<1>7. FilesSound'
  BY <1>1, <1>2, FilesStay DEF FlushIsDue, StopComes
<1>8. KindsSound'
  BY <1>1, <1>2, KindsStay DEF EntryComes
<1>9. HitsSound'
  <2>1. AreBreakpoints(breakpoints') /\ CountsKept(breakpoints')
    BY <1>1, <1>2 DEF ListTypes, CountsKept
  <2> QED BY <1>1, <1>2, <2>1, HitsStay
<1> QED BY <1>5, <1>6, <1>7, <1>8, <1>9 DEF IInv, ListsSound

(* Every step keeps it. *)
LEMMA StepIsSound ==
  ASSUME IInv, [Next]_vars
  PROVE  IInv'
<1>1. ASSUME User PROVE IInv'
  <2>1. ASSUME NEW site \in Sites,
               \/ RemoveBreakpointAt(site[1], site[2])
               \/ AddBreakpointAt(site[1], site[2])
               \/ \E onHits \in BOOLEAN : BeginEditBreakpoint(site[1], site[2], onHits)
        PROVE  IInv'
    BY <2>1, SitesArePairs, RemoveIsSound, AddIsSound, BeginEditIsSound
  <2>2. ASSUME NEW value \in BOOLEAN, SubmitCondition(value) PROVE IInv'
    BY <2>2, SubmitIsSound
  <2>3. ASSUME NEW x \in Items,
               ToggleException(x) \/ BeginEditException(x) \/ ToggleFunction(x) \/ RemoveData(x) \/ RequestData(x)
        PROVE  IInv'
    BY <2>3, ToggleExceptionIsSound, BeginExceptionIsSound, ToggleFunctionIsSound,
       RemoveDataIsSound,
       RequestDataIsSound
  <2>4. ASSUME NEW op \in Commands, SendCommand(op) PROVE IInv'
    BY <2>4, SendIsSound
  <2> QED BY <1>1, <2>1, <2>2, <2>3, <2>4 DEF User
<1>2. ASSUME Worker PROVE IInv'
  <2>1. ASSUME NEW site \in Sites, ReachBreakpoint(site[1], site[2]) PROVE IInv'
    BY <2>1, SitesArePairs, ReachIsSound
  <2> QED BY <1>2, <2>1, LaunchWorkerIsSound, StopElsewhereIsSound, RunIsSound, SetSourceIsSound, FetchIsSound,
             SetOtherIsSound DEF Worker
<1>3. CASE UNCHANGED vars
  BY <1>3, StutterIsSound
<1> QED BY <1>1, <1>2, <1>3, HandleIsSound, LaunchCompleteIsSound DEF Next

(* The invariant holds always. *)
LEMMA AlwaysSound == Spec => []IInv
<1>1. Init => IInv
  BY InitIsSound
<1>2. IInv /\ [Next]_vars => IInv'
  BY StepIsSound
<1> QED BY <1>1, <1>2, PTL DEF Spec

(* Every variable has its type, and every place holds one thing at most.     *)
THEOREM BreakpointTypes == Spec => []TypeOK
<1>1. IInv => TypeOK
  BY DEF IInv
<1> QED BY <1>1, AlwaysSound, PTL

(* Once a stop is dealt with, the adapter has the breakpoints the UI shows,  *)
(* of every kind, unless the list is one of those that were lost: each list  *)
(* is at the adapter, in the mailbox or sent by a flush that is to come, and *)
(* nothing is to come any more.                                              *)
THEOREM AdapterHasWhatIsShown == Spec => []AdapterHas
<1>1. ASSUME IInv, Settled PROVE AdapterHas
  <2>1. /\ FilesSound /\ KindsSound /\ FlushComes /\ LaunchSound /\ launch = "handled" /\ session = "stopped"
        /\ events = <<>> /\ sourceBox = {} /\ \A k \in Kinds : boxes[k] = {}
    BY <1>1 DEF IInv, ListsSound, Settled
  <2>2. ~StopComes /\ ~EntryComes
    BY <2>1 DEF StopComes, EntryComes
  <2>3. flushed
    BY <2>1, <2>2 DEF FlushComes
  <2>4. ~FlushIsDue
    BY <2>1, <2>2, <2>3 DEF FlushIsDue
  <2>5. \A f \in Files \ lost : adapter[f] = Listing(breakpoints, f)
    BY <2>1, <2>4 DEF FilesSound, FileSound, Agrees
  <2>6. \A k \in Kinds : k \notin lost => adapterLists[k] = Current(k)
    BY <2>1, <2>2, <2>3 DEF KindsSound, KindSound
  <2>7. /\ "exception" \notin lost => adapterLists["exception"] = ToldExceptions(exceptions)
        /\ "function" \notin lost => adapterLists["function"] = functions
        /\ "data" \notin lost => adapterLists["data"] = data
    BY <2>6 DEF Current, Kinds
  <2> QED BY <2>5, <2>7 DEF AdapterHas
<1>2. IInv => AdapterHas
  BY <1>1 DEF AdapterHas
<1> QED BY <1>2, AlwaysSound, PTL

(* A hit count the UI shows is one of hits there were, unless a count went   *)
(* astray: it is at most the passes that had been made when the event came   *)
(* to be that the UI handled last.                                           *)
THEOREM CountsAreReal == Spec => []CountIsReal
<1>1. ASSUME IInv, ~misled, NEW f \in DOMAIN breakpoints, NEW l \in DOMAIN breakpoints[f]
      PROVE  breakpoints[f][l].count <= passes[<<f, l>>]
  <2>1. /\ AreBreakpoints(breakpoints) /\ seen \in PerSite /\ passes \in PerSite /\ PassesSound /\ CountsSound
    BY <1>1, TypesByGroup DEF IInv, ListTypes, AdapterTypes, HitsSound
  <2>2. <<f, l>> \in Sites /\ breakpoints[f][l].count \in Nat /\ breakpoints[f][l].count <= seen[<<f, l>>]
    BY <1>1, <2>1 DEF AreBreakpoints, Breakpoint, CountsSound
  <2>3. PICK s \in Sites, n \in Nat : s = <<f, l>> /\ n = breakpoints[f][l].count
    BY <2>2
  <2>4. seen[s] \in Nat /\ passes[s] \in Nat /\ seen[s] <= passes[s] /\ n <= seen[s]
    BY <2>1, <2>2, <2>3 DEF PerSite, PassesSound
  <2>5. n <= passes[s]
    BY <2>3, <2>4
  <2> QED BY <2>3, <2>5
<1>2. IInv => CountIsReal
  BY <1>1 DEF CountIsReal
<1> QED BY <1>2, AlwaysSound, PTL
=============================================================================
