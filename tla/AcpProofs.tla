------------------------------ MODULE AcpProofs ------------------------------
(***************************************************************************)
(* What TLAPS proves of an ACP process: one connection serves a session,    *)
(* its journal is removed while none does, and the prompts and forks of an  *)
(* open session take turns.                                                 *)
(***************************************************************************)
EXTENDS AcpInvariant, SequenceTheorems, TLAPS

-----------------------------------------------------------------------------
\* Requests

\* A request that stays as it is.
LEMMA SameRequest ==
  ASSUME NEW q, request'[q] = request[q]
  PROVE  /\ Busy(q)' = Busy(q) /\ Claimant(q)' = Claimant(q) /\ Underway(q)' = Underway(q)
         /\ Opener(q)' = Opener(q) /\ Mine(q)' = Mine(q) /\ Lends(q)' = Lends(q)
         /\ Deletes(q)' = Deletes(q) /\ Relies(q)' = Relies(q)
         /\ Over(q)' = Over(q) /\ Cancelled(q)' = Cancelled(q)
         /\ crossed \subseteq crossed' => (Shape(q) => Shape(q)')
BY DEF Busy, Claimant, Underway, Opener, Mine, Lends, Deletes, Relies, Shape, Over, Cancelled

\* A request of which one thing changes.
LEMMA Changed ==
  ASSUME request \in [Requests -> RequestType], NEW r \in Requests
  PROVE  /\ \A open \in Opens : request' = [request EXCEPT ![r].open = open] =>
              /\ request' \in [Requests -> RequestType]
              /\ request'[r] = [request[r] EXCEPT !.open = open]
              /\ request'[r].open = open /\ request'[r].conn = request[r].conn
              /\ request'[r].method = request[r].method /\ request'[r].phase = request[r].phase
              /\ request'[r].aborted = request[r].aborted /\ request'[r].stopped = request[r].stopped
              /\ request'[r].claimed = request[r].claimed /\ request'[r].borrowed = request[r].borrowed
              /\ \A q \in Requests : q # r => request'[q] = request[q]
         /\ \A phase \in Phases : request' = [request EXCEPT ![r].phase = phase] =>
              /\ request' \in [Requests -> RequestType]
              /\ request'[r].phase = phase /\ request'[r].conn = request[r].conn
              /\ request'[r].method = request[r].method /\ request'[r].open = request[r].open
              /\ request'[r].aborted = request[r].aborted /\ request'[r].stopped = request[r].stopped
              /\ request'[r].claimed = request[r].claimed /\ request'[r].borrowed = request[r].borrowed
              /\ \A q \in Requests : q # r => request'[q] = request[q]
         /\ request' = [request EXCEPT ![r].aborted = TRUE] =>
              /\ request' \in [Requests -> RequestType]
              /\ request'[r].phase = request[r].phase /\ request'[r].conn = request[r].conn
              /\ request'[r].method = request[r].method /\ request'[r].open = request[r].open
              /\ request'[r].aborted /\ request'[r].stopped = request[r].stopped
              /\ request'[r].claimed = request[r].claimed /\ request'[r].borrowed = request[r].borrowed
              /\ \A q \in Requests : q # r => request'[q] = request[q]
<1>1. request[r] \in RequestType
  OBVIOUS
<1>2. \A open \in Opens : [request[r] EXCEPT !.open = open] \in RequestType
  BY <1>1 DEF RequestType
<1>3. \A phase \in Phases : [request[r] EXCEPT !.phase = phase] \in RequestType
  BY <1>1 DEF RequestType
<1>4. [request[r] EXCEPT !.aborted = TRUE] \in RequestType
  BY <1>1 DEF RequestType
<1>5. ASSUME NEW open \in Opens, request' = [request EXCEPT ![r].open = open]
      PROVE  /\ request' \in [Requests -> RequestType]
              /\ request'[r] = [request[r] EXCEPT !.open = open]
              /\ request'[r].open = open /\ request'[r].conn = request[r].conn
              /\ request'[r].method = request[r].method /\ request'[r].phase = request[r].phase
              /\ request'[r].aborted = request[r].aborted /\ request'[r].stopped = request[r].stopped
              /\ request'[r].claimed = request[r].claimed /\ request'[r].borrowed = request[r].borrowed
              /\ \A q \in Requests : q # r => request'[q] = request[q]
  BY <1>1, <1>2, <1>5 DEF RequestType
<1>6. ASSUME NEW phase \in Phases, request' = [request EXCEPT ![r].phase = phase]
      PROVE  /\ request' \in [Requests -> RequestType]
              /\ request'[r].phase = phase /\ request'[r].conn = request[r].conn
              /\ request'[r].method = request[r].method /\ request'[r].open = request[r].open
              /\ request'[r].aborted = request[r].aborted /\ request'[r].stopped = request[r].stopped
              /\ request'[r].claimed = request[r].claimed /\ request'[r].borrowed = request[r].borrowed
              /\ \A q \in Requests : q # r => request'[q] = request[q]
  BY <1>1, <1>3, <1>6 DEF RequestType
<1>7. ASSUME request' = [request EXCEPT ![r].aborted = TRUE]
      PROVE  /\ request' \in [Requests -> RequestType]
              /\ request'[r].phase = request[r].phase /\ request'[r].conn = request[r].conn
              /\ request'[r].method = request[r].method /\ request'[r].open = request[r].open
              /\ request'[r].aborted /\ request'[r].stopped = request[r].stopped
              /\ request'[r].claimed = request[r].claimed /\ request'[r].borrowed = request[r].borrowed
              /\ \A q \in Requests : q # r => request'[q] = request[q]
  BY <1>1, <1>4, <1>7 DEF RequestType
<1> QED BY <1>5, <1>6, <1>7

\* The other requests stay.
Apart(r) == \A q \in Requests : q # r => request'[q] = request[q]

LEMMA ApartFrom ==
  ASSUME NEW r, Apart(r)
  PROVE  \A q \in Requests : q # r =>
           /\ request'[q] = request[q]
           /\ Busy(q)' = Busy(q) /\ Claimant(q)' = Claimant(q) /\ Underway(q)' = Underway(q)
           /\ Opener(q)' = Opener(q) /\ Mine(q)' = Mine(q) /\ Lends(q)' = Lends(q)
           /\ Deletes(q)' = Deletes(q) /\ Relies(q)' = Relies(q)
           /\ Over(q)' = Over(q) /\ Cancelled(q)' = Cancelled(q)
           /\ crossed \subseteq crossed' => (Shape(q) => Shape(q)')
BY SameRequest DEF Apart

\* What is published is of its connection, or nothing; a request in flight has one.
LEMMA Here ==
  ASSUME AcpInv
  PROVE  /\ None \notin Conns /\ \A q \in Requests : q # None
         /\ \A q \in Requests : Busy(q) \/ Opener(q) => Mine(q) \in Conns /\ Mine(q) # None
         /\ \A c \in Conns : entry[c] # None => entry[c] \in EntryType /\ entry[c].by \in Requests
         /\ \A c \in Conns : operation[c] # None => operation[c] \in Requests
         /\ \A i \in DOMAIN claims : claims[i] \in Requests
         /\ claims # << >> => /\ Head(claims) \in Requests /\ request[Head(claims)].phase = "claiming"
                             /\ 1 \in DOMAIN claims /\ Head(claims) = claims[1]
<1>1. LeaseType /\ ClaimsInOrder /\ \A q \in Requests : Shape(q)
  BY DEF AcpInv
<1>2. None \notin Conns /\ \A q \in Requests : q # None
  BY AcpAssumption DEF Requests
<1>3. \A q \in Requests : Busy(q) \/ Opener(q) => Mine(q) \in Conns
  BY <1>1 DEF Shape, Opener, Mine, Busy
<1>4. \A c \in Conns : entry[c] # None => entry[c] \in EntryType
  BY <1>1 DEF LeaseType
<1>5. \A i \in DOMAIN claims : claims[i] \in Requests
  BY <1>1 DEF LeaseType
<1>6. claims # << >> => 1 \in DOMAIN claims /\ Head(claims) = claims[1]
  BY <1>1 DEF LeaseType
<1>7. \A c \in Conns : operation[c] # None => operation[c] \in Requests
  BY <1>1 DEF LeaseType
<1> QED BY <1>1, <1>2, <1>3, <1>4, <1>5, <1>6, <1>7 DEF ClaimsInOrder, EntryType

\* What relies on the lease claims it.
LEMMA Reliant ==
  ASSUME NEW q, Shape(q), Relies(q)
  PROVE  Busy(q) /\ Claimant(q)
BY DEF Shape, Relies, Busy, Claimant

\* Of two requests of a connection that claim the lease each is crossed, and a load or a
\* fork.
LEMMA Elsewhere ==
  ASSUME AcpInv, NEW q \in Requests, NEW r \in Requests, q # r, Mine(q) = Mine(r),
         Busy(q), Claimant(q), Busy(r), Claimant(r)
  PROVE  /\ q \in crossed /\ r \in crossed /\ ~Deletes(q) /\ ~Deletes(r)
         /\ ~(Lends(q) /\ Lends(r)) /\ ~(Opener(q) /\ Opener(r))
<1>1. OneOfEach /\ Shape(q) /\ Shape(r)
  BY DEF AcpInv
<1>2. /\ request[q].method = "load" \/ Deletes(q) \/ Lends(q)
      /\ request[r].method = "load" \/ Deletes(r) \/ Lends(r)
  BY DEF Claimant, Deletes, Lends
<1>3. (request[q].method = "load" => Opener(q)) /\ (request[r].method = "load" => Opener(r))
  BY <1>1 DEF Shape, Opener
<1> QED BY <1>1, <1>2, <1>3 DEF OneOfEach

\* One request goes on, or ends.
Goes(r) ==
  /\ request' \in [Requests -> RequestType] /\ Apart(r)
  /\ request[r].phase # "claiming" /\ request'[r].phase # "claiming"
  /\ Shape(r)'
  /\ Busy(r)' =>
       /\ Busy(r) /\ request'[r].conn = request[r].conn /\ request'[r].method = request[r].method
       /\ request'[r].borrowed = request[r].borrowed /\ request'[r].claimed = request[r].claimed
       /\ request[r].aborted => request'[r].aborted

\* What is published was, or has just been by a request that relies on the lease.
Lasts(r) ==
  \A c \in Conns : entry'[c] # None =>
    \/ entry[c] # None /\ entry'[c].by = entry[c].by
    \/ c = Mine(r) /\ entry'[c].by = r /\ Relies(r)

\* What its going on leaves as it was: who claims, and what an eviction waits for.
LEMMA GoesOn ==
  ASSUME AcpInv, NEW r \in Requests, Goes(r), Lasts(r),
         UNCHANGED <<claims, eviction, conn, crossed>>, holder' \in {holder, None}
  PROVE  /\ \A q \in Requests : Shape(q)'
         /\ Cut' /\ ClaimsInOrder' /\ Evicting'
<1>1. /\ LeaseType /\ Cut /\ ClaimsInOrder /\ Evicting /\ \A q \in Requests : Shape(q)
  BY DEF AcpInv
<1>2. \A q \in Requests : q # r =>
           /\ request'[q] = request[q]
           /\ Busy(q)' = Busy(q) /\ Mine(q)' = Mine(q) /\ Shape(q)'
  BY <1>1, ApartFrom DEF Goes
<1>3. /\ Shape(r)' /\ request[r].phase # "claiming" /\ request'[r].phase # "claiming"
      /\ Busy(r)' => /\ Busy(r) /\ Mine(r)' = Mine(r) /\ request'[r].method = request[r].method
                     /\ request'[r].claimed = request[r].claimed
                     /\ request[r].aborted => request'[r].aborted
  BY DEF Goes, Mine
<1>4. \A q \in Requests : Shape(q)'
  BY <1>1, <1>2, <1>3
<1>5. Cut'
  BY <1>1, <1>2, <1>3 DEF Cut
<1>6. ClaimsInOrder'
  <2>1. \A q \in Requests : request[q].phase = "claiming" => Mine(q) # None
    BY Here DEF Busy
  <2> QED BY <1>1, <1>2, <1>3, <2>1, Here DEF ClaimsInOrder
<1>7. Evicting'
  <2>1. claims # << >> => Mine(Head(claims))' = Mine(Head(claims))
    BY <1>2, <1>3, Here
  <2>2. ASSUME eviction # NoEviction, eviction.stage = "closing", entry'[eviction.from] # None
        PROVE  entry'[eviction.from].by \in {eviction.closes} \cup crossed
    <3>1. eviction.from \in Conns
      BY <1>1, <2>2 DEF Evicting
    <3>2. CASE entry[eviction.from] # None /\ entry'[eviction.from].by = entry[eviction.from].by
      BY <1>1, <2>2, <3>2 DEF Evicting
    <3>3. CASE eviction.from = Mine(r) /\ entry'[eviction.from].by = r /\ Relies(r)
      <4>1. Busy(r) /\ Claimant(r) /\ (r \notin crossed => request[r].claimed)
        BY <1>1, <3>3, Reliant DEF Shape
      <4> QED BY <1>1, <2>2, <3>3, <4>1 DEF Evicting
    <3> QED BY <2>2, <3>1, <3>2, <3>3 DEF Lasts
  <2>3. ASSUME eviction # NoEviction
        PROVE  \A q \in Requests :
                 Busy(q)' /\ request'[q].claimed /\ q \notin crossed /\ Mine(q)' = eviction.from =>
                   \/ eviction.stage = "stopping"
                   \/ eviction.stage = "operation" /\ eviction.operation = q /\ request'[q].aborted
    BY <1>1, <1>2, <1>3, <2>3 DEF Evicting
  <2> QED BY <1>1, <2>1, <2>2, <2>3 DEF Evicting
<1> QED BY <1>4, <1>5, <1>6, <1>7

\* The operations of the connections, when a request stays as busy as it was, or ends.
LEMMA OperatingOn ==
  ASSUME AcpInv, NEW r \in Requests, Goes(r), crossed' = crossed,
         \/ operation' = operation /\ (Busy(r) /\ Claimant(r) => Busy(r)')
         \/ operation' = SettledAt(Mine(r), r) /\ Mine(r) \in Conns /\ ~Busy(r)'
  PROVE  Operating'
<1>1. LeaseType /\ Operating
  BY DEF AcpInv
<1>2. \A q \in Requests : q # r =>
           /\ Busy(q)' = Busy(q) /\ Claimant(q)' = Claimant(q) /\ Mine(q)' = Mine(q)
  BY ApartFrom DEF Goes
<1>3. Busy(r)' => Busy(r) /\ Claimant(r)' = Claimant(r) /\ Mine(r)' = Mine(r)
  BY DEF Goes, Claimant, Mine
<1>4. CASE operation' = operation /\ (Busy(r) /\ Claimant(r) => Busy(r)')
  BY <1>1, <1>2, <1>3, <1>4, Here DEF Operating
<1>5. CASE operation' = SettledAt(Mine(r), r) /\ Mine(r) \in Conns /\ ~Busy(r)'
  <2>1. \A c \in Conns : \/ operation'[c] = operation[c] /\ operation[c] # r
                         \/ operation'[c] = None /\ operation[c] = r
                         \/ operation'[c] = operation[c] /\ c # Mine(r)
    BY <1>1, <1>5 DEF SettledAt, LeaseType
  <2>2. \A c \in Conns : operation'[c] # None => operation'[c] = operation[c] /\ operation[c] # r
    BY <1>1, <2>1 DEF Operating
  <2>3. \A c \in Conns : operation[c] # None /\ operation[c] # r => operation'[c] = operation[c]
    BY <2>1
  <2>4. \A q \in Requests : q # r /\ q \notin crossed /\ Busy(q) /\ Claimant(q) =>
          operation[Mine(q)] # None /\ operation[Mine(q)] = q /\ Mine(q) \in Conns
    BY <1>1, Here DEF Operating
  <2> QED BY <1>1, <1>2, <1>5, <2>2, <2>3, <2>4, Here DEF Operating
<1> QED BY <1>4, <1>5

\* What opens, borrows and deletes.
LEMMA OneOfEachOn ==
  ASSUME AcpInv, NEW r \in Requests, Goes(r), crossed' = crossed,
         Opener(r)' => Opener(r) /\ Mine(r)' = Mine(r),
         \/ opening' = opening
         \/ opening' = opening \ {Mine(r)} /\ Opener(r) /\ ~Opener(r)',
         \/ borrowed' = borrowed
         \/ borrowed' = borrowed \ {Mine(r)} /\ Lends(r) /\ ~Busy(r)',
         \/ deleting' = deleting
         \/ deleting' = deleting \ {Mine(r)} /\ Deletes(r) /\ ~Busy(r)'
  PROVE  OneOfEach'
<1>1. OneOfEach
  BY DEF AcpInv
<1>2. \A q \in Requests : q # r =>
           /\ request'[q] = request[q] /\ Busy(q)' = Busy(q) /\ Lends(q)' = Lends(q)
           /\ Deletes(q)' = Deletes(q) /\ Opener(q)' = Opener(q) /\ Mine(q)' = Mine(q)
  BY ApartFrom DEF Goes
<1>3. Busy(r)' => /\ Busy(r) /\ Mine(r)' = Mine(r) /\ request'[r].method = request[r].method
                  /\ Lends(r)' = Lends(r) /\ Deletes(r)' = Deletes(r)
  BY DEF Goes, Mine, Lends, Deletes
<1>4. (Lends(r)' => Busy(r)') /\ (Deletes(r)' => Busy(r)')
  BY DEF Lends, Deletes
<1>5. \A q, p \in Requests : Opener(q)' /\ Opener(p)' /\ Mine(q)' = Mine(p)' => q = p
  BY <1>1, <1>2, <1>3 DEF OneOfEach
<1>6. /\ \A q, p \in Requests : Lends(q)' /\ Lends(p)' /\ Mine(q)' = Mine(p)' => q = p
      /\ \A q, p \in Requests : Deletes(q)' /\ Deletes(p)' /\ Mine(q)' = Mine(p)' => q = p
  BY <1>1, <1>2, <1>3, <1>4 DEF OneOfEach
<1>7. \A q \in Requests : Opener(q)' => Mine(q)' \in opening' \ deleting'
  BY <1>1, <1>2, <1>3 DEF OneOfEach
<1>8. \A q \in Requests : Lends(q)' => Mine(q)' \in borrowed' \ deleting'
  BY <1>1, <1>2, <1>3, <1>4 DEF OneOfEach
<1>9. \A q \in Requests : Deletes(q)' => Mine(q)' \in deleting'
  BY <1>1, <1>2, <1>3, <1>4 DEF OneOfEach
<1>10. \A q, p \in Requests :
         Busy(q)' /\ request'[q].method = "load" /\ Lends(p)' /\ Mine(q)' = Mine(p)' =>
           {q, p} \subseteq crossed
  BY <1>1, <1>2, <1>3, <1>4 DEF OneOfEach
<1> QED BY <1>5, <1>6, <1>7, <1>8, <1>9, <1>10 DEF OneOfEach

-----------------------------------------------------------------------------
\* What is published

\* Closing what is published leaves it there.
LEMMA EntryCloses ==
  ASSUME LeaseType, NEW c \in Conns, entry[c] # None, NEW releases \in BOOLEAN,
         entry' = [entry EXCEPT ![c] = Closing(@, releases)]
  PROVE  /\ entry' \in [Conns -> EntryType \cup {None}]
         /\ entry'[c] # None /\ entry'[c].by = entry[c].by /\ entry'[c].closing
         /\ entry'[c].releases = (entry[c].releases \/ releases)
         /\ \A d \in Conns : d # c => entry'[d] = entry[d]
<1>1. PICK e \in EntryType : e = entry[c]
  BY DEF LeaseType
<1>2. /\ Closing(e, releases) \in EntryType /\ Closing(e, releases).by = e.by
      /\ Closing(e, releases).closing /\ Closing(e, releases).releases = (e.releases \/ releases)
  BY DEF Closing, EntryType
<1>3. entry'[c] = Closing(e, releases)
  BY <1>1 DEF LeaseType
<1>4. entry' \in [Conns -> EntryType \cup {None}]
  BY <1>1, <1>2 DEF LeaseType
<1>5. \A d \in Conns : d # c => entry'[d] = entry[d]
  BY DEF LeaseType
<1>6. None \notin EntryType
  BY AcpAssumption DEF EntryType, Requests
<1> QED BY <1>1, <1>2, <1>3, <1>4, <1>5, <1>6

\* What is published stays, or begins to close.
Kept ==
  /\ entry' \in [Conns -> EntryType \cup {None}]
  /\ \A c \in Conns :
       /\ entry'[c] = None <=> entry[c] = None
       /\ entry[c] # None => entry'[c].by = entry[c].by /\ (entry[c].closing => entry'[c].closing)

\* It does for a request; if it is then to let go of the lease, for one that has borrowed.
Marks(r) ==
  \/ entry' = entry
  \/ \E releases \in BOOLEAN :
       /\ Mine(r) \in Conns /\ entry[Mine(r)] # None
       /\ entry' = [entry EXCEPT ![Mine(r)] = Closing(@, releases)]
       /\ releases => Lends(r)

LEMMA MarksKeep ==
  ASSUME AcpInv, NEW r \in Requests, Marks(r)
  PROVE  /\ Kept /\ Lasts(r)
         /\ \A c \in Conns : entry[c] # None /\ entry'[c].releases =>
              entry[c].releases \/ (c = Mine(r) /\ Lends(r))
<1>1. LeaseType
  BY DEF AcpInv
<1>2. CASE entry' = entry
  BY <1>1, <1>2 DEF LeaseType, Kept, Lasts
<1>3. ASSUME NEW releases \in BOOLEAN, Mine(r) \in Conns, entry[Mine(r)] # None,
             entry' = [entry EXCEPT ![Mine(r)] = Closing(@, releases)], releases => Lends(r)
      PROVE  /\ Kept /\ Lasts(r)
             /\ \A c \in Conns : entry[c] # None /\ entry'[c].releases =>
                  entry[c].releases \/ (c = Mine(r) /\ Lends(r))
  <2>1. /\ entry' \in [Conns -> EntryType \cup {None}]
        /\ entry'[Mine(r)] # None /\ entry'[Mine(r)].by = entry[Mine(r)].by /\ entry'[Mine(r)].closing
        /\ entry'[Mine(r)].releases = (entry[Mine(r)].releases \/ releases)
        /\ \A d \in Conns : d # Mine(r) => entry'[d] = entry[d]
    BY <1>1, <1>3, EntryCloses
  <2> QED BY <1>3, <2>1 DEF Kept, Lasts
<1> QED BY <1>2, <1>3 DEF Marks

\* A request goes on, or ends, and what is published with it.
LEMMA PublishedOn ==
  ASSUME AcpInv, NEW r \in Requests, Goes(r), Kept, live' = live, request[r] # Ended,
         request[r].open \in {"flushing", "open"} =>
           \/ request'[r].open \in {"flushing", "open"} /\ Mine(r)' = Mine(r)
           \/ request'[r] = Ended,
         request'[r].open \in {"restoring", "readying", "unwinding"} <=>
           request[r].open \in {"restoring", "readying", "unwinding"}
  PROVE  Published' /\ Runtimes'
<1>1. /\ LeaseType /\ Published /\ Runtimes /\ live \subseteq Requests
  BY DEF AcpInv, LeaseType
<1>2. \A q \in Requests : q # r => request'[q] = request[q] /\ Mine(q)' = Mine(q)
  BY ApartFrom DEF Goes
<1>3. Published'
  <2>1. SUFFICES ASSUME NEW c \in Conns, entry'[c] # None
                 PROVE  /\ entry'[c].by \in live
                        /\ request'[entry'[c].by].open \in {"flushing", "open"} \/ request'[entry'[c].by] = Ended
                        /\ request'[entry'[c].by].conn \in {c, None}
    BY <1>1 DEF Published, Kept
  <2>2. /\ entry[c] # None /\ entry'[c].by = entry[c].by /\ entry[c].by \in live
        /\ request[entry[c].by].open \in {"flushing", "open"} \/ request[entry[c].by] = Ended
        /\ request[entry[c].by].conn \in {c, None}
    BY <1>1, <2>1 DEF Published, Kept
  <2>3. CASE entry[c].by = r
    BY <2>2, <2>3 DEF Mine, Ended, NoRequest
  <2>4. CASE entry[c].by # r
    BY <1>1, <1>2, <2>2, <2>4
  <2> QED BY <2>3, <2>4
<1>4. Runtimes'
  BY <1>1, <1>2 DEF Runtimes, Kept
<1> QED BY <1>3, <1>4

\* What needs the lease keeps it: a request that ends may let go of it.
LEMMA HeldOn ==
  ASSUME AcpInv, NEW r \in Requests, Goes(r), Lasts(r), crossed' = crossed,
         \/ holder' = holder
         \/ /\ holder' = ReleasedBy(Mine(r)) /\ Busy(r) /\ Claimant(r)
            /\ ~Relies(r) \/ entry' = entry
            /\ Mine(r) \in Conns => entry[Mine(r)] = None \/ entry[Mine(r)].by \in crossed,
         Relies(r)' /\ r \notin crossed => holder' = Mine(r)'
  PROVE  Held'
<1>1. LeaseType /\ Held /\ \A q \in Requests : Shape(q)
  BY DEF AcpInv
<1>2. \A q \in Requests : q # r => Relies(q)' = Relies(q) /\ Mine(q)' = Mine(q)
  BY ApartFrom DEF Goes
<1>3. CASE holder' = holder
  BY <1>1, <1>2, <1>3 DEF Held, Lasts
<1>4. CASE /\ holder' = ReleasedBy(Mine(r)) /\ Busy(r) /\ Claimant(r)
           /\ ~Relies(r) \/ entry' = entry
           /\ Mine(r) \in Conns => entry[Mine(r)] = None \/ entry[Mine(r)].by \in crossed
  <2>1. \A c \in Conns : entry'[c] # None =>
          entry[c] # None /\ entry'[c].by = entry[c].by
    BY <1>4 DEF Lasts
  <2>2. \A c \in Conns : entry[c] # None /\ entry[c].by \notin crossed => holder' = c
    BY <1>1, <1>4 DEF Held, ReleasedBy
  <2>3. \A q \in Requests : q # r /\ Relies(q) /\ q \notin crossed => holder' = Mine(q)
    <3>1. ASSUME NEW q \in Requests, q # r, Relies(q), q \notin crossed
          PROVE  holder' = Mine(q)
      <4>1. Mine(q) # Mine(r)
        BY <1>1, <1>4, <3>1, Reliant, Elsewhere
      <4> QED BY <1>1, <1>4, <3>1, <4>1 DEF Held, ReleasedBy
    <3> QED BY <3>1
  <2> QED BY <1>2, <2>1, <2>2, <2>3 DEF Held
<1> QED BY <1>3, <1>4

\* No session is published where it should not be.
LEMMA UnpublishedOn ==
  ASSUME AcpInv, NEW r \in Requests, Goes(r), Marks(r), crossed' = crossed,
         Opener(r)' /\ request'[r].open # "flushing" => Mine(r)' \in Conns /\ entry[Mine(r)'] = None,
         request'[r].phase = "removing" => Mine(r)' \in Conns /\ entry[Mine(r)'] = None,
         Busy(r)' /\ entry'[Mine(r)'] # None =>
           /\ request'[r].phase = "settling" => entry'[Mine(r)'].by \in crossed
           /\ Lends(r)' => \/ {r, entry'[Mine(r)'].by} \subseteq crossed
                           \/ /\ entry'[Mine(r)'].by = r
                              /\ request'[r].phase = "closing" => entry'[Mine(r)'].closing
  PROVE  Unpublished'
<1>1. LeaseType /\ OneOfEach /\ Unpublished /\ \A q \in Requests : Shape(q)
  BY DEF AcpInv
<1>2. \A q \in Requests : q # r =>
           /\ request'[q] = request[q] /\ Busy(q)' = Busy(q) /\ Lends(q)' = Lends(q)
           /\ Deletes(q)' = Deletes(q) /\ Opener(q)' = Opener(q) /\ Mine(q)' = Mine(q)
  BY ApartFrom DEF Goes
<1>3. /\ Kept
      /\ \A c \in Conns : entry[c] # None /\ entry'[c].releases =>
           entry[c].releases \/ (c = Mine(r) /\ Lends(r))
  BY MarksKeep
<1>4. /\ \A c \in Conns : (entry'[c] = None <=> entry[c] = None)
      /\ \A c \in Conns : entry[c] # None => entry'[c].by = entry[c].by /\ (entry[c].closing => entry'[c].closing)
  BY <1>3 DEF Kept
<1>5. \A q \in Requests : /\ Opener(q) \/ Busy(q) => Mine(q) \in Conns
                          /\ request[q].phase = "removing" => Busy(q)
  BY Here DEF Busy
<1>6. \A q \in Requests : Opener(q)' /\ request'[q].open # "flushing" => entry'[Mine(q)'] = None
  BY <1>1, <1>2, <1>4, <1>5 DEF Unpublished
<1>7. \A q \in Requests : request'[q].phase = "removing" => entry'[Mine(q)'] = None
  BY <1>1, <1>2, <1>4, <1>5 DEF Unpublished
<1>8. ASSUME NEW q \in Requests, Busy(q)', entry'[Mine(q)'] # None
      PROVE  /\ request'[q].phase = "settling" => entry'[Mine(q)'].by \in crossed
             /\ Lends(q)' => \/ {q, entry'[Mine(q)'].by} \subseteq crossed
                             \/ /\ entry'[Mine(q)'].by = q
                                /\ request'[q].phase = "closing" => entry'[Mine(q)'].closing
             /\ Deletes(q)' /\ q \notin crossed /\ entry'[Mine(q)'].releases => request'[q].aborted
  <2>1. CASE q = r
    <3>1. Busy(r) /\ Mine(r)' = Mine(r) /\ Mine(r) \in Conns /\ (request[r].aborted => request'[r].aborted)
      BY <1>5, <1>8, <2>1 DEF Goes, Mine
    <3>2. Deletes(r)' => Deletes(r)
      BY <3>1 DEF Goes, Deletes
    <3>3. Deletes(r) => ~Lends(r)
      BY <1>1 DEF OneOfEach
    <3>4. Deletes(r)' /\ r \notin crossed /\ entry'[Mine(r)'].releases => request'[r].aborted
      BY <1>1, <1>3, <1>4, <1>8, <2>1, <3>1, <3>2, <3>3 DEF Unpublished
    <3> QED BY <1>8, <2>1, <3>4
  <2>2. CASE q # r
    <3>1. /\ Busy(q) /\ Mine(q) \in Conns /\ Mine(q)' = Mine(q) /\ request'[q] = request[q]
          /\ Lends(q)' = Lends(q) /\ Deletes(q)' = Deletes(q)
      BY <1>2, <1>5, <1>8, <2>2
    <3>2. entry[Mine(q)] # None /\ entry'[Mine(q)].by = entry[Mine(q)].by
      BY <1>4, <1>8, <3>1
    <3>3. Deletes(q) /\ entry'[Mine(q)].releases => entry[Mine(q)].releases
      BY <1>1, <1>3, <3>1, <3>2 DEF OneOfEach
    <3> QED BY <1>1, <1>4, <3>1, <3>2, <3>3 DEF Unpublished
  <2> QED BY <2>1, <2>2
<1> QED BY <1>6, <1>7, <1>8 DEF Unpublished

\* A request goes on, or ends, and all the lease rests on stays.
LEMMA GoesSafely ==
  ASSUME AcpInv, NEW r \in Requests, Goes(r), Marks(r), UNCHANGED <<claims, eviction, conn, live, crossed>>,
         holder' \in {holder, None},
         Held', Unpublished', OneOfEach', request[r] # Ended,
         \/ operation' = operation /\ (Busy(r) /\ Claimant(r) => Busy(r)')
         \/ operation' = SettledAt(Mine(r), r) /\ Mine(r) \in Conns /\ ~Busy(r)',
         opening' \subseteq Conns, deleting' \subseteq deleting, borrowed' \subseteq borrowed,
         permitted' \subseteq Conns,
         request[r].open \in {"flushing", "open"} =>
           \/ request'[r].open \in {"flushing", "open"} /\ Mine(r)' = Mine(r)
           \/ request'[r] = Ended,
         request'[r].open \in {"restoring", "readying", "unwinding"} <=>
           request[r].open \in {"restoring", "readying", "unwinding"}
  PROVE  AcpInv'
<1>1. Kept /\ Lasts(r)
  BY MarksKeep
<1>2. (\A q \in Requests : Shape(q)') /\ Cut' /\ ClaimsInOrder' /\ Evicting'
  BY <1>1, GoesOn
<1>3. Operating' /\ Published' /\ Runtimes'
  BY <1>1, OperatingOn, PublishedOn
<1>4. LeaseType'
  <2>1. LeaseType /\ request' \in [Requests -> RequestType]
    BY DEF AcpInv, Goes
  <2>2. entry' \in [Conns -> EntryType \cup {None}]
    BY <1>1 DEF Kept
  <2>3. operation' \in [Conns -> Requests \cup {None}]
    BY <2>1 DEF LeaseType, SettledAt
  <2> QED BY <2>1, <2>2, <2>3 DEF LeaseType
<1> QED BY <1>2, <1>3, <1>4 DEF AcpInv
-----------------------------------------------------------------------------
\* A runtime is opened

\* On its way a runtime is restored, gets ready, unwinds or fails.
LEMMA OpeningOn ==
  ASSUME AcpInv, NEW r \in Requests, Underway(r),
         NEW open \in {"restoring", "readying", "unwinding", "failing"}, Opening(r, open),
         live' = IF open = "failing" THEN live \ {r} ELSE live \cup {r},
         UNCHANGED <<holder, claims, eviction, entry, operation, opening, deleting, borrowed, conn,
                     permitted, crossed>>
  PROVE  AcpInv'
<1>1. /\ LeaseType /\ Shape(r) /\ Held /\ Unpublished /\ Published /\ Runtimes
      /\ request \in [Requests -> RequestType]
  BY DEF AcpInv, LeaseType
<1>2. /\ request' \in [Requests -> RequestType]
      /\ request'[r].open = open /\ request'[r].conn = request[r].conn
      /\ request'[r].method = request[r].method /\ request'[r].phase = request[r].phase
      /\ request'[r].aborted = request[r].aborted /\ request'[r].stopped = request[r].stopped
      /\ request'[r].claimed = request[r].claimed /\ request'[r].borrowed = request[r].borrowed
      /\ \A q \in Requests : q # r => request'[q] = request[q]
  BY <1>1, Changed DEF Opening, Opens
<1>3. request[r].phase \notin {"claiming", "none", "removing"}
  BY <1>1 DEF Shape, Underway
<1>4. Relies(r)' => Relies(r)
  BY <1>1, <1>2, <1>3 DEF Relies
<1>5. Shape(r)'
  BY <1>1, <1>2, <1>3, <1>4 DEF Shape, Busy, Claimant, Opener, Underway, Cancelled
<1>6. Goes(r)
  BY <1>2, <1>3, <1>5 DEF Goes, Apart, Busy
<1>7. /\ Busy(r)' = Busy(r) /\ Opener(r) /\ Opener(r)' /\ Mine(r)' = Mine(r) /\ Mine(r) \in Conns
      /\ entry[Mine(r)] = None
  BY <1>1, <1>2, Here DEF Busy, Opener, Underway, Mine, Unpublished
<1>8. Marks(r) /\ Lasts(r)
  BY DEF Marks, Lasts
<1>9. (\A q \in Requests : Shape(q)') /\ Cut' /\ ClaimsInOrder' /\ Evicting'
  BY <1>6, <1>8, GoesOn
<1>10. Operating' /\ OneOfEach'
  BY <1>6, <1>7, OperatingOn, OneOfEachOn
<1>11. LeaseType'
  BY <1>1, <1>2 DEF LeaseType
<1>12. Held'
  BY <1>1, <1>4, <1>6, <1>7, <1>8, HeldOn DEF Held
<1>13. Unpublished'
  BY <1>2, <1>3, <1>6, <1>7, <1>8, UnpublishedOn
<1>14. \A c \in Conns : entry[c] # None => entry[c].by \in Requests /\ entry[c].by # r
  <2>1. request[r] # Ended /\ request[r].open \notin {"flushing", "open"}
    BY DEF Underway, Ended, NoRequest
  <2> QED BY <1>1, <2>1, Here DEF Published
<1>15. Published'
  BY <1>1, <1>2, <1>14 DEF Published
<1>16. Runtimes'
  <2>1. \A q \in Requests : q # r => (q \in live' <=> q \in live)
    OBVIOUS
  <2>2. live' \subseteq Requests
    BY <1>11 DEF LeaseType
  <2>3. r \in live' <=> open # "failing"
    OBVIOUS
  <2> QED BY <1>1, <1>2, <2>1, <2>2, <2>3 DEF Runtimes
<1> QED BY <1>9, <1>10, <1>11, <1>12, <1>13, <1>15, <1>16 DEF AcpInv

LEMMA NotYetLive ==
  ASSUME AcpInv, NEW r \in Requests, request[r].open \notin {"flushing", "open"}, request[r] # Ended,
         request[r].open \notin {"restoring", "readying", "unwinding"}
  PROVE  r \notin live
BY DEF AcpInv, Runtimes, Published

LEMMA OptionsResolveSafe ==
  ASSUME AcpInv, NEW r \in Requests, OptionsResolve(r)
  PROVE  AcpInv'
<1>1. Underway(r) /\ r \notin live
  BY NotYetLive DEF OptionsResolve, Underway, Ended, NoRequest
<1>2. CASE Opening(r, "failing") /\ UNCHANGED live
  BY <1>1, <1>2, OpeningOn DEF OptionsResolve
<1>3. CASE Opening(r, "restoring") /\ live' = live \cup {r}
  BY <1>1, <1>3, OpeningOn DEF OptionsResolve
<1> QED BY <1>2, <1>3 DEF OptionsResolve

LEMMA OptionsFailSafe ==
  ASSUME AcpInv, NEW r \in Requests, OptionsFail(r)
  PROVE  AcpInv'
<1>1. Underway(r) /\ r \notin live
  BY NotYetLive DEF OptionsFail, Underway, Ended, NoRequest
<1> QED BY <1>1, OpeningOn DEF OptionsFail

LEMMA RestoreFailsSafe ==
  ASSUME AcpInv, NEW r \in Requests, RestoreFails(r)
  PROVE  AcpInv'
BY OpeningOn DEF RestoreFails, Underway

LEMMA RestoresSafe ==
  ASSUME AcpInv, NEW r \in Requests, Restores(r)
  PROVE  AcpInv'
<1>1. Underway(r) /\ live \cup {r} = live
  BY DEF Restores, Underway, AcpInv, Runtimes
<1> QED BY <1>1, OpeningOn DEF Restores

LEMMA UnwindsSafe ==
  ASSUME AcpInv, NEW r \in Requests, Unwinds(r)
  PROVE  AcpInv'
BY OpeningOn DEF Unwinds, Underway

\* A parent is borrowed where nothing is open, being opened or deleted.
LEMMA BorrowStartsSafe ==
  ASSUME AcpInv, NEW r \in Requests, BorrowStarts(r)
  PROVE  AcpInv'
<1>1. /\ LeaseType /\ Shape(r) /\ Held /\ OneOfEach /\ request \in [Requests -> RequestType]
      /\ opening \subseteq Conns /\ permitted \subseteq Conns
      /\ request[r].method = "fork" /\ request[r].phase = "opening" /\ request[r].open = "none"
      /\ ~request[r].aborted /\ entry[Mine(r)] = None /\ Mine(r) \notin opening \cup deleting
      /\ opening' = opening \cup {Mine(r)} /\ request' = [request EXCEPT ![r].open = "options"]
      /\ UNCHANGED <<holder, claims, eviction, entry, operation, deleting, borrowed, conn, permitted,
                     live, crossed>>
  BY DEF AcpInv, LeaseType, BorrowStarts, Opening
<1>2. /\ request' \in [Requests -> RequestType]
      /\ request'[r].open = "options" /\ request'[r].conn = request[r].conn
      /\ request'[r].method = request[r].method /\ request'[r].phase = request[r].phase
      /\ request'[r].aborted = request[r].aborted /\ request'[r].stopped = request[r].stopped
      /\ request'[r].claimed = request[r].claimed /\ request'[r].borrowed = request[r].borrowed
      /\ \A q \in Requests : q # r => request'[q] = request[q]
  BY <1>1, Changed DEF Opens
<1>3. /\ Busy(r) /\ Busy(r)' /\ Mine(r)' = Mine(r) /\ Mine(r) \in Conns /\ request[r] # Ended
      /\ Relies(r) /\ Opener(r)' /\ Lends(r) /\ Lends(r)' /\ ~Deletes(r)'
  BY <1>1, <1>2 DEF Busy, Mine, Shape, Ended, NoRequest, Relies, Opener, Lends, Deletes
<1>4. Shape(r)'
  BY <1>1, <1>2, <1>3 DEF Shape, Claimant, Underway, Cancelled, Mine
<1>5. Goes(r) /\ Marks(r) /\ Lasts(r)
  BY <1>1, <1>2, <1>3, <1>4 DEF Goes, Apart, Marks, Lasts
<1>6. Held' /\ Unpublished'
  <2> HIDE DEF Mine, Busy, Opener, Underway, Relies, Lends
  <2>1. Held'
    BY <1>1, <1>3, <1>5, HeldOn DEF Held
  <2>2. Unpublished'
    BY <1>1, <1>2, <1>3, <1>5, UnpublishedOn
  <2> QED BY <2>1, <2>2
<1>7. OneOfEach'
  <2>1. \A q \in Requests : q # r =>
           /\ request'[q] = request[q] /\ Busy(q)' = Busy(q) /\ Lends(q)' = Lends(q)
           /\ Deletes(q)' = Deletes(q) /\ Opener(q)' = Opener(q) /\ Mine(q)' = Mine(q)
    BY <1>5, ApartFrom DEF Goes
  <2> QED BY <1>1, <1>2, <1>3, <2>1 DEF OneOfEach
<1> QED BY <1>1, <1>2, <1>3, <1>5, <1>6, <1>7, GoesSafely

\* A request that ends leaves nothing.
LEMMA EndsSo ==
  ASSUME AcpInv, NEW r \in Requests, request' = [request EXCEPT ![r] = Ended],
         request[r].phase # "claiming"
  PROVE  /\ Goes(r) /\ request'[r] = Ended /\ ~Busy(r)' /\ ~Opener(r)' /\ ~Underway(r)' /\ ~Relies(r)'
         /\ ~request'[r].borrowed /\ request'[r].phase = "over" /\ request'[r].method = "none"
         /\ request'[r].open = "none"
<1>1. request \in [Requests -> RequestType]
  BY DEF AcpInv, LeaseType
<1>2. /\ Ended \in RequestType /\ ~Ended.borrowed /\ Ended.phase = "over" /\ Ended.method = "none"
      /\ Ended.open = "none" /\ ~Ended.claimed
  BY DEF Ended, NoRequest, RequestType, Phases, Opens
<1>3. /\ request' \in [Requests -> RequestType] /\ request'[r] = Ended
      /\ \A q \in Requests : q # r => request'[q] = request[q]
  BY <1>1, <1>2
<1>4. ~Busy(r)' /\ ~Opener(r)' /\ ~Underway(r)' /\ ~Relies(r)'
  BY <1>2, <1>3 DEF Busy, Opener, Underway, Relies
<1>5. Shape(r)'
  BY <1>2, <1>3, <1>4 DEF Shape
<1>6. Goes(r)
  BY <1>2, <1>3, <1>4, <1>5 DEF Goes, Apart
<1> QED BY <1>2, <1>3, <1>4, <1>6

\* A session is published where it alone is opened, for a request that relies on the lease.
LEMMA PublishesSafe ==
  ASSUME AcpInv, NEW r \in Requests, Publishes(r)
  PROVE  AcpInv'
<1>1. CASE Opening(r, "unwinding") /\ UNCHANGED entry
  <2>1. live \cup {r} = live
    BY DEF AcpInv, Runtimes, Publishes
  <2> QED BY <1>1, <2>1, OpeningOn DEF Publishes, Underway
<1>2. ASSUME Opening(r, "flushing"), ~Cancelled(r), Access(Mine(r)),
             entry' = [entry EXCEPT ![Mine(r)] =
                 [by |-> r, accepting |-> Visible(r), closing |-> FALSE, releases |-> FALSE]]
      PROVE  AcpInv'
  <2>1. /\ LeaseType /\ Shape(r) /\ Held /\ Unpublished /\ Published /\ Runtimes /\ OneOfEach
        /\ request \in [Requests -> RequestType] /\ request[r].open = "readying" /\ live \subseteq Requests
        /\ UNCHANGED <<holder, claims, eviction, operation, opening, deleting, borrowed, conn, permitted,
                       live, crossed>>
    BY DEF AcpInv, LeaseType, Publishes
  <2>2. /\ request' \in [Requests -> RequestType]
        /\ request'[r].open = "flushing" /\ request'[r].conn = request[r].conn
        /\ request'[r].method = request[r].method /\ request'[r].phase = request[r].phase
        /\ request'[r].aborted = request[r].aborted /\ request'[r].stopped = request[r].stopped
        /\ request'[r].claimed = request[r].claimed /\ request'[r].borrowed = request[r].borrowed
        /\ \A q \in Requests : q # r => request'[q] = request[q]
    BY <1>2, <2>1, Changed DEF Opening, Opens
  <2>3. request[r].phase = "opening" /\ Mine(r) \in Conns
    BY <1>2, <2>1 DEF Shape, Underway, Claimant, Mine, LeaseType, RequestType, Phases
  <2>4. /\ Busy(r) /\ Busy(r)' /\ Mine(r)' = Mine(r) /\ Opener(r) /\ Opener(r)' /\ Relies(r) /\ ~Relies(r)'
        /\ entry[Mine(r)] = None /\ r \in live
    BY <2>1, <2>2, <2>3 DEF Busy, Opener, Underway, Mine, Unpublished, Relies, Runtimes
  <2>5. Shape(r)'
    BY <2>1, <2>2, <2>3, <2>4 DEF Shape, Busy, Claimant, Opener, Underway, Cancelled, Mine
  <2>6. Goes(r)
    BY <2>2, <2>3, <2>4, <2>5 DEF Goes, Apart
  <2>7. \A q \in Requests : q # r =>
             /\ request'[q] = request[q] /\ Busy(q)' = Busy(q) /\ Lends(q)' = Lends(q)
             /\ Deletes(q)' = Deletes(q) /\ Opener(q)' = Opener(q) /\ Mine(q)' = Mine(q)
    BY <2>6, ApartFrom DEF Goes
  <2>8. /\ entry' \in [Conns -> EntryType \cup {None}]
        /\ entry'[Mine(r)] # None /\ entry'[Mine(r)].by = r /\ ~entry'[Mine(r)].releases
        /\ \A c \in Conns : c # Mine(r) => entry'[c] = entry[c]
    <3>1. PICK e : e = [by |-> r, accepting |-> Visible(r), closing |-> FALSE, releases |-> FALSE]
      OBVIOUS
    <3>2. e \in EntryType /\ e.by = r /\ ~e.releases
      BY <3>1 DEF EntryType, Visible
    <3>3. None \notin EntryType
      BY AcpAssumption DEF EntryType, Requests
    <3>4. entry \in [Conns -> EntryType \cup {None}] /\ entry' = [entry EXCEPT ![Mine(r)] = e]
      BY <1>2, <2>1, <3>1 DEF LeaseType
    <3> QED BY <2>3, <3>2, <3>3, <3>4
  <2>9. Lasts(r)
    BY <2>4, <2>8 DEF Lasts
  <2>10. (\A q \in Requests : Shape(q)') /\ Cut' /\ ClaimsInOrder' /\ Evicting'
    BY <2>1, <2>6, <2>9, GoesOn
  <2>11. Operating' /\ OneOfEach'
    BY <2>1, <2>4, <2>6, OperatingOn, OneOfEachOn
  <2>12. LeaseType'
    BY <2>1, <2>2, <2>8 DEF LeaseType
  <2>13. Held'
    BY <2>1, <2>4, <2>6, <2>9, HeldOn
  <2>14. Unpublished'
    <3>1. (request[r].method = "load" \/ Lends(r)) /\ ~Deletes(r)
      BY <2>1, <2>4 DEF Shape, Claimant, Lends, Deletes
    <3>2. \A q \in Requests : q # r /\ Mine(q) = Mine(r) =>
            ~Opener(q) /\ ~Deletes(q) /\ (Lends(q) => {q, r} \subseteq crossed)
      BY <2>1, <2>4, <3>1 DEF OneOfEach
    <3>3. \A q \in Requests :
            /\ Opener(q) \/ Busy(q) => Mine(q) \in Conns
            /\ request[q].phase \in {"removing", "settling"} => Busy(q) /\ Deletes(q)
      <4>1. \A q \in Requests : Shape(q)
        BY DEF AcpInv
      <4> QED BY <4>1, Here DEF Busy, Deletes, Shape
    <3>4. \A q \in Requests : q # r =>
            /\ Opener(q) /\ request[q].open # "flushing" => entry'[Mine(q)] = None
            /\ request[q].phase = "removing" => entry'[Mine(q)] = None
      BY <2>1, <2>8, <3>2, <3>3 DEF Unpublished
    <3>5. ASSUME NEW q \in Requests, q # r, Busy(q), entry'[Mine(q)] # None
          PROVE  /\ request[q].phase = "settling" => entry'[Mine(q)].by \in crossed
                 /\ Lends(q) => \/ {q, entry'[Mine(q)].by} \subseteq crossed
                                \/ /\ entry'[Mine(q)].by = q
                                   /\ request[q].phase = "closing" => entry'[Mine(q)].closing
                 /\ Deletes(q) /\ q \notin crossed /\ entry'[Mine(q)].releases => request[q].aborted
      <4>1. CASE Mine(q) = Mine(r)
        BY <2>8, <3>2, <3>3, <3>5, <4>1
      <4>2. CASE Mine(q) # Mine(r)
        <5>1. Mine(q) \in Conns /\ entry'[Mine(q)] = entry[Mine(q)]
          BY <2>8, <3>3, <3>5, <4>2
        <5> QED BY <2>1, <3>5, <5>1 DEF Unpublished
      <4> QED BY <4>1, <4>2
    <3>6. ~Deletes(r)'
      BY <2>2, <3>1 DEF Lends, Deletes, Busy
    <3> QED BY <2>1, <2>2, <2>3, <2>4, <2>7, <2>8, <3>4, <3>5, <3>6 DEF Unpublished
  <2>15. \A c \in Conns : entry[c] # None => entry[c].by \in Requests /\ entry[c].by # r
    BY <2>1, <2>3, Here DEF Published, Ended, NoRequest
  <2>16. Published'
    <3>1. \A c \in Conns : entry'[c] # None => c = Mine(r) \/ (entry[c] # None /\ entry'[c] = entry[c])
      BY <2>8
    <3>2. \A c, d \in Conns : entry'[c] # None /\ entry'[d] # None /\ entry'[c].by = entry'[d].by => c = d
      BY <2>1, <2>8, <2>15, <3>1 DEF Published
    <3>3. ASSUME NEW c \in Conns, entry'[c] # None
          PROVE  /\ entry'[c].by \in live
                 /\ request'[entry'[c].by].open \in {"flushing", "open"} \/ request'[entry'[c].by] = Ended
                 /\ request'[entry'[c].by].conn \in {c, None}
      <4>1. CASE c = Mine(r)
        BY <2>2, <2>4, <2>8, <4>1 DEF Mine
      <4>2. CASE entry[c] # None /\ entry'[c] = entry[c]
        BY <2>1, <2>7, <2>15, <4>2 DEF Published
      <4> QED BY <3>1, <3>3, <4>1, <4>2
    <3> QED BY <2>1, <3>2, <3>3 DEF Published
  <2>17. Runtimes'
    BY <2>1, <2>2, <2>3, <2>4, <2>7, <2>8 DEF Runtimes
  <2> QED BY <2>10, <2>11, <2>12, <2>13, <2>14, <2>16, <2>17 DEF AcpInv
<1>3. Cancelled(r) \/ ~Access(Mine(r)) \/ (~Cancelled(r) /\ Access(Mine(r)))
  OBVIOUS
<1> QED BY <1>1, <1>2, <1>3 DEF Publishes

LEMMA FlushesSafe ==
  ASSUME AcpInv, NEW r \in Requests, Flushes(r)
  PROVE  AcpInv'
<1>1. /\ Shape(r) /\ OneOfEach /\ Unpublished /\ request \in [Requests -> RequestType]
      /\ opening \subseteq Conns /\ permitted \subseteq Conns
      /\ request[r].open = "flushing" /\ opening' = opening \ {Mine(r)}
      /\ UNCHANGED <<holder, claims, eviction, entry, deleting, borrowed, conn, permitted, live, crossed>>
  BY DEF AcpInv, LeaseType, Flushes
<1>2. /\ Opener(r) /\ Mine(r) \in Conns /\ request[r].phase \notin {"claiming", "none"} /\ Lasts(r)
      /\ Claimant(r) /\ request[r] # Ended /\ Marks(r)
  BY <1>1 DEF Opener, Shape, Mine, Lasts, Ended, NoRequest, Marks
<1>3. CASE Visible(r)
  <2>1. request' = [request EXCEPT ![r] = Ended] /\ operation' = SettledAt(Mine(r), r)
    BY <1>3 DEF Flushes
  <2>2. /\ Goes(r) /\ request'[r] = Ended /\ ~Busy(r)' /\ ~Opener(r)' /\ ~Underway(r)' /\ ~Relies(r)'
        /\ ~request'[r].borrowed /\ request'[r].phase = "over" /\ request'[r].method = "none"
        /\ request'[r].open = "none"
    BY <1>2, <2>1, EndsSo
  <2>3. OneOfEach'
    BY <1>1, <1>2, <2>2, OneOfEachOn
  <2>4. Held' /\ Unpublished'
    BY <1>1, <1>2, <2>2, HeldOn, UnpublishedOn
  <2> QED BY <1>1, <1>2, <2>1, <2>2, <2>3, <2>4, GoesSafely
<1>4. CASE ~Visible(r)
  <2>1. request' = [request EXCEPT ![r].open = "open"] /\ operation' = operation
    BY <1>4 DEF Flushes
  <2>2. /\ request' \in [Requests -> RequestType]
        /\ request'[r].open = "open" /\ request'[r].conn = request[r].conn
        /\ request'[r].method = request[r].method /\ request'[r].phase = request[r].phase
        /\ request'[r].aborted = request[r].aborted /\ request'[r].stopped = request[r].stopped
        /\ request'[r].claimed = request[r].claimed /\ request'[r].borrowed = request[r].borrowed
        /\ \A q \in Requests : q # r => request'[q] = request[q]
    BY <1>1, <2>1, Changed DEF Opens
  <2>3. /\ Busy(r)' = Busy(r) /\ Mine(r)' = Mine(r) /\ ~Opener(r)' /\ ~Underway(r)' /\ Lends(r)' = Lends(r)
        /\ request[r].method = "fork" /\ request[r].phase \notin {"removing", "settling"}
    BY <1>1, <1>2, <1>4, <2>2 DEF Busy, Mine, Opener, Underway, Lends, Shape, Claimant, Visible
  <2>4. ~Relies(r)'
    BY <1>1, <2>2, <2>3 DEF Relies, Shape
  <2>5. Shape(r)'
    BY <1>1, <1>2, <1>4, <2>2, <2>3, <2>4 DEF Shape, Busy, Claimant, Opener, Underway, Visible, Mine
  <2>6. Goes(r)
    BY <1>1, <1>2, <2>2, <2>3, <2>5 DEF Goes, Apart, Mine
  <2>7. OneOfEach'
    BY <1>1, <1>2, <2>3, <2>6, OneOfEachOn
  <2>8. Held' /\ Unpublished'
    <3>1. Held'
      BY <1>1, <1>2, <2>4, <2>6, HeldOn
    <3>2. Unpublished'
      BY <1>1, <1>2, <2>2, <2>3, <2>6, UnpublishedOn DEF Unpublished
    <3> QED BY <3>1, <3>2
  <2> QED BY <1>1, <1>2, <2>1, <2>2, <2>3, <2>6, <2>7, <2>8, GoesSafely
<1> QED BY <1>3, <1>4

\* An opening that fails lets go of the lease, but for a fork's.
LEMMA OpenFailsSafe ==
  ASSUME AcpInv, NEW r \in Requests, OpenFails(r)
  PROVE  AcpInv'
<1>1. /\ Shape(r) /\ OneOfEach /\ Unpublished /\ LeaseType
      /\ request \in [Requests -> RequestType] /\ opening \subseteq Conns /\ permitted \subseteq Conns
      /\ request[r].open = "failing" /\ opening' = opening \ {Mine(r)}
      /\ UNCHANGED <<claims, eviction, entry, deleting, borrowed, conn, permitted, live, crossed>>
  BY DEF AcpInv, LeaseType, OpenFails
<1>2. /\ Opener(r) /\ Mine(r) \in Conns /\ request[r].phase \notin {"claiming", "none"} /\ Lasts(r)
      /\ Claimant(r) /\ request[r] # Ended /\ entry[Mine(r)] = None /\ Marks(r) /\ ~Relies(r)
  BY <1>1 DEF Opener, Shape, Mine, Lasts, Ended, NoRequest, Unpublished, Marks, Relies, Underway
<1>3. CASE Visible(r) \/ Over(r)
  <2>1. /\ request' = [request EXCEPT ![r] = Ended]
        /\ Visible(r) => holder' = ReleasedBy(Mine(r)) /\ operation' = SettledAt(Mine(r), r)
        /\ ~Visible(r) => holder' = holder /\ operation' = operation
    BY <1>3 DEF OpenFails
  <2>2. /\ Goes(r) /\ request'[r] = Ended /\ ~Busy(r)' /\ ~Opener(r)' /\ ~Underway(r)' /\ ~Relies(r)'
        /\ ~request'[r].borrowed /\ request'[r].phase = "over" /\ request'[r].method = "none"
        /\ request'[r].open = "none"
    BY <1>2, <2>1, EndsSo
  <2>3. (Visible(r) => Busy(r)) /\ (~Visible(r) => ~Busy(r))
    BY <1>1, <1>2, <1>3 DEF Shape, Visible, Busy, Over
  <2>4. OneOfEach'
    BY <1>1, <1>2, <2>2, OneOfEachOn
  <2>5. Held' /\ Unpublished'
    BY <1>1, <1>2, <2>1, <2>2, <2>3, HeldOn, UnpublishedOn
  <2>6. holder' \in {holder, None}
    BY <2>1 DEF ReleasedBy
  <2> QED BY <1>1, <1>2, <2>1, <2>2, <2>3, <2>4, <2>5, <2>6, GoesSafely
<1>4. CASE ~(Visible(r) \/ Over(r))
  <2>1. request' = [request EXCEPT ![r].open = "failed"] /\ operation' = operation /\ holder' = holder
    BY <1>4 DEF OpenFails
  <2>2. /\ request' \in [Requests -> RequestType]
        /\ request'[r].open = "failed" /\ request'[r].conn = request[r].conn
        /\ request'[r].method = request[r].method /\ request'[r].phase = request[r].phase
        /\ request'[r].aborted = request[r].aborted /\ request'[r].stopped = request[r].stopped
        /\ request'[r].claimed = request[r].claimed /\ request'[r].borrowed = request[r].borrowed
        /\ \A q \in Requests : q # r => request'[q] = request[q]
    BY <1>1, <2>1, Changed DEF Opens
  <2>3. /\ Busy(r)' = Busy(r) /\ Mine(r)' = Mine(r) /\ ~Opener(r)' /\ ~Underway(r)' /\ Lends(r)' = Lends(r)
        /\ request[r].method = "fork" /\ request[r].phase \notin {"removing", "settling", "forking"}
    BY <1>1, <1>2, <1>4, <2>2 DEF Busy, Mine, Opener, Underway, Lends, Shape, Claimant, Visible
  <2>4. ~Relies(r)'
    BY <1>1, <2>2, <2>3 DEF Relies, Shape
  <2>5. Shape(r)'
    BY <1>1, <1>2, <1>4, <2>2, <2>3, <2>4 DEF Shape, Busy, Claimant, Opener, Underway, Visible, Mine
  <2>6. Goes(r)
    BY <1>1, <1>2, <2>2, <2>3, <2>5 DEF Goes, Apart, Mine
  <2>7. OneOfEach'
    BY <1>1, <1>2, <2>3, <2>6, OneOfEachOn
  <2>8. Held' /\ Unpublished'
    <3>1. Held'
      BY <1>1, <1>2, <2>1, <2>4, <2>6, HeldOn
    <3>2. Unpublished'
      BY <1>1, <1>2, <2>2, <2>3, <2>6, UnpublishedOn
    <3> QED BY <3>1, <3>2
  <2> QED BY <1>1, <1>2, <2>1, <2>2, <2>3, <2>6, <2>7, <2>8, GoesSafely
<1> QED BY <1>3, <1>4

-----------------------------------------------------------------------------
\* Forks, deletes and closes

LEMMA ForkGoesOnSafe ==
  ASSUME AcpInv, NEW r \in Requests, ForkGoesOn(r)
  PROVE  AcpInv'
<1>1. /\ Shape(r) /\ Unpublished /\ request \in [Requests -> RequestType]
      /\ opening \subseteq Conns /\ permitted \subseteq Conns
      /\ request[r].method = "fork" /\ request[r].phase = "opening" /\ request[r].open = "open"
      /\ request' = [request EXCEPT ![r].phase = "forking"]
      /\ UNCHANGED <<holder, claims, eviction, entry, operation, opening, deleting, borrowed, conn,
                     permitted, live, crossed>>
  BY DEF AcpInv, LeaseType, ForkGoesOn
<1>2. /\ request' \in [Requests -> RequestType]
      /\ request'[r].phase = "forking" /\ request'[r].conn = request[r].conn
      /\ request'[r].method = request[r].method /\ request'[r].open = request[r].open
      /\ request'[r].aborted = request[r].aborted /\ request'[r].stopped = request[r].stopped
      /\ request'[r].claimed = request[r].claimed /\ request'[r].borrowed = request[r].borrowed
      /\ \A q \in Requests : q # r => request'[q] = request[q]
  BY <1>1, Changed DEF Phases
<1>3. /\ Busy(r) /\ Busy(r)' /\ Mine(r)' = Mine(r) /\ Lasts(r) /\ Marks(r) /\ request[r] # Ended
      /\ ~Opener(r)' /\ ~Relies(r)' /\ Lends(r)' = Lends(r)
  BY <1>1, <1>2 DEF Busy, Mine, Lasts, Marks, Ended, NoRequest, Opener, Relies, Lends
<1>4. Shape(r)'
  BY <1>1, <1>2, <1>3 DEF Shape, Busy, Claimant, Mine, Underway
<1>5. Goes(r)
  BY <1>1, <1>2, <1>3, <1>4 DEF Goes, Apart
<1>6. Held' /\ OneOfEach'
  BY <1>1, <1>3, <1>5, HeldOn, OneOfEachOn
<1>7. Unpublished'
  BY <1>1, <1>2, <1>3, <1>5, UnpublishedOn DEF Unpublished
<1> QED BY <1>1, <1>2, <1>3, <1>5, <1>6, <1>7, GoesSafely

\* A fork gives back what it borrowed.
LEMMA ForkReturnsSafe ==
  ASSUME AcpInv, NEW r \in Requests, ForkReturns(r)
  PROVE  AcpInv'
<1>1. /\ Shape(r) /\ Unpublished /\ LeaseType /\ request \in [Requests -> RequestType]
      /\ opening \subseteq Conns /\ permitted \subseteq Conns
      /\ request[r].method = "fork" /\ request[r].borrowed /\ entry[Mine(r)] # None
      /\ \/ request[r].phase = "forking"
         \/ request[r].phase = "opening" /\ (Underway(r) => request[r].aborted)
      /\ request' = [request EXCEPT ![r].phase = "closing"]
      /\ entry' = [entry EXCEPT ![Mine(r)] = Closing(@, TRUE)]
      /\ UNCHANGED <<holder, claims, eviction, operation, opening, deleting, borrowed, conn,
                     permitted, live, crossed>>
  BY DEF AcpInv, LeaseType, ForkReturns, Gives, Returns, Abandons, Underway
<1>2. /\ request' \in [Requests -> RequestType]
      /\ request'[r].phase = "closing" /\ request'[r].conn = request[r].conn
      /\ request'[r].method = request[r].method /\ request'[r].open = request[r].open
      /\ request'[r].aborted = request[r].aborted /\ request'[r].stopped = request[r].stopped
      /\ request'[r].claimed = request[r].claimed /\ request'[r].borrowed = request[r].borrowed
      /\ \A q \in Requests : q # r => request'[q] = request[q]
  BY <1>1, Changed DEF Phases
<1>3. /\ Busy(r) /\ Mine(r) \in Conns /\ request[r] # Ended /\ Busy(r)' /\ Mine(r)' = Mine(r)
      /\ Opener(r)' = Opener(r) /\ ~Relies(r)' /\ Lends(r) /\ Lends(r)'
      /\ request[r].phase = "forking" => ~Underway(r)
  BY <1>1, <1>2 DEF Busy, Mine, Shape, Ended, NoRequest, Underway, Opener, Relies, Lends
<1>4. Marks(r)
  BY <1>1, <1>3 DEF Marks
<1>5. Lasts(r)
  BY <1>4, MarksKeep
<1>6. Shape(r)'
  BY <1>1, <1>2, <1>3 DEF Shape, Busy, Claimant, Cancelled, Underway, Mine
<1>7. Goes(r)
  BY <1>1, <1>2, <1>3, <1>6 DEF Goes, Apart
<1>8. Held' /\ OneOfEach'
  BY <1>1, <1>3, <1>5, <1>7, HeldOn, OneOfEachOn
<1>9. Unpublished'
  <2>1. entry'[Mine(r)].by = entry[Mine(r)].by /\ entry'[Mine(r)].closing
    BY <1>1, <1>3, EntryCloses
  <2>2. {r, entry[Mine(r)].by} \subseteq crossed \/ entry[Mine(r)].by = r
    BY <1>1, <1>3 DEF Unpublished
  <2>3. ~(Opener(r) /\ request[r].open # "flushing")
    BY <1>1 DEF Unpublished
  <2>4. {r, entry'[Mine(r)'].by} \subseteq crossed \/ entry'[Mine(r)'].by = r
    BY <1>3, <2>1, <2>2
  <2>5. entry'[Mine(r)'].closing
    BY <1>3, <2>1
  <2> QED BY <1>1, <1>2, <1>3, <1>4, <1>7, <2>3, <2>4, <2>5, UnpublishedOn
<1> QED BY <1>1, <1>2, <1>3, <1>4, <1>7, <1>8, <1>9, GoesSafely

\* It ends where nothing that relies on the lease is open.
LEMMA ForkEndsSafe ==
  ASSUME AcpInv, NEW r \in Requests, ForkEnds(r)
  PROVE  AcpInv'
<1>1. /\ Shape(r) /\ Unpublished /\ OneOfEach /\ LeaseType /\ request \in [Requests -> RequestType]
      /\ opening \subseteq Conns /\ permitted \subseteq Conns
      /\ request[r].method = "fork"
      /\ \/ request[r].phase = "closing" /\ ~ClosingAt(Mine(r))
         \/ request[r].phase \in {"forking", "opening"} /\ ~Returns(r)
      /\ UNCHANGED <<claims, eviction, entry, opening, deleting, conn, permitted, live, crossed>>
  BY DEF AcpInv, LeaseType, ForkEnds, Gives, Abandons
<1>2. /\ Busy(r) /\ Mine(r) \in Conns /\ request[r] # Ended /\ Lasts(r) /\ Marks(r)
      /\ request[r].borrowed => Claimant(r) /\ Lends(r)
  BY <1>1 DEF Busy, Mine, Shape, Ended, NoRequest, Lasts, Marks, Claimant, Lends
<1>3. IF request[r].borrowed
        THEN /\ borrowed' = borrowed \ {Mine(r)} /\ holder' = ReleasedBy(Mine(r))
             /\ operation' = SettledAt(Mine(r), r)
        ELSE UNCHANGED <<borrowed, holder, operation>>
  BY DEF ForkEnds
<1>4. holder' \in {holder, None} /\ borrowed' \subseteq borrowed
  BY <1>3 DEF ReleasedBy
<1>5. request[r].borrowed => entry[Mine(r)] = None \/ entry[Mine(r)].by \in crossed
  BY <1>1, <1>2 DEF Unpublished, ClosingAt, Returns
<1>6. request[r].borrowed \/ ~Claimant(r)
  BY <1>1 DEF Claimant
<1>7. CASE request[r].open \in {"none", "open", "failed"}
  <2>1. request' = [request EXCEPT ![r] = Ended]
    BY <1>7 DEF ForkEnds
  <2>2. /\ Goes(r) /\ request'[r] = Ended /\ ~Busy(r)' /\ ~Opener(r)' /\ ~Underway(r)' /\ ~Relies(r)'
        /\ ~request'[r].borrowed /\ request'[r].phase = "over" /\ request'[r].method = "none"
        /\ request'[r].open = "none"
    BY <1>1, <2>1, EndsSo
  <2>3. Held' /\ OneOfEach'
    BY <1>1, <1>2, <1>3, <1>5, <2>2, HeldOn, OneOfEachOn
  <2>4. Unpublished'
    BY <1>1, <1>2, <2>2, UnpublishedOn
  <2>5. request'[r].open \in {"restoring", "readying", "unwinding"} <=>
           request[r].open \in {"restoring", "readying", "unwinding"}
    BY <1>7, <2>2
  <2> QED BY <1>1, <1>2, <1>3, <1>4, <1>6, <2>2, <2>3, <2>4, <2>5, GoesSafely
<1>8. CASE request[r].open \notin {"none", "open", "failed"}
  <2>1. request' = [request EXCEPT ![r].phase = "over"]
    BY <1>8 DEF ForkEnds
  <2>2. /\ request' \in [Requests -> RequestType]
        /\ request'[r].phase = "over" /\ request'[r].conn = request[r].conn
        /\ request'[r].method = request[r].method /\ request'[r].open = request[r].open
        /\ request'[r].aborted = request[r].aborted /\ request'[r].stopped = request[r].stopped
        /\ request'[r].claimed = request[r].claimed /\ request'[r].borrowed = request[r].borrowed
        /\ \A q \in Requests : q # r => request'[q] = request[q]
    BY <1>1, <2>1, Changed DEF Phases
  <2>3. ~Busy(r)' /\ Mine(r)' = Mine(r) /\ Opener(r)' = Opener(r) /\ ~Relies(r)'
    BY <1>1, <2>2 DEF Busy, Mine, Opener, Relies
  <2>4. Underway(r) => Cancelled(r)
    BY <1>1, <1>8 DEF Shape, ForkEnds, Gives, Abandons, Cancelled
  <2>5. Shape(r)'
    BY <1>1, <1>2, <2>2, <2>3, <2>4 DEF Shape, Busy, Claimant, Cancelled, Underway, Mine
  <2>6. Goes(r)
    BY <1>1, <1>2, <2>2, <2>3, <2>5 DEF Goes, Apart
  <2>7. Held' /\ OneOfEach'
    BY <1>1, <1>2, <1>3, <1>5, <2>2, <2>3, <2>6, HeldOn, OneOfEachOn
  <2>8. Unpublished'
    BY <1>1, <1>2, <2>2, <2>3, <2>6, UnpublishedOn DEF Unpublished
  <2> QED BY <1>1, <1>2, <1>3, <1>4, <1>6, <2>2, <2>3, <2>6, <2>7, <2>8, GoesSafely
<1> QED BY <1>7, <1>8

\* A delete closes what is open here, and goes on to remove the journal.
LEMMA DeleteClosesSafe ==
  ASSUME AcpInv, NEW r \in Requests, DeleteCloses(r)
  PROVE  AcpInv'
<1>1. /\ Shape(r) /\ Held /\ LeaseType /\ request \in [Requests -> RequestType]
      /\ opening \subseteq Conns /\ permitted \subseteq Conns
      /\ request[r].method = "delete" /\ request[r].phase = "closing"
      /\ UNCHANGED <<holder, claims, eviction, operation, opening, deleting, borrowed, conn,
                     permitted, live, crossed>>
  BY DEF AcpInv, LeaseType, DeleteCloses
<1>2. /\ Busy(r) /\ Mine(r) \in Conns /\ request[r] # Ended /\ ~request[r].borrowed /\ ~Lends(r)
      /\ request[r].open = "none" /\ ~Opener(r) /\ (~request[r].aborted => Relies(r))
  BY <1>1 DEF Busy, Mine, Shape, Ended, NoRequest, Opener, Relies, Lends
<1>3. CASE entry[Mine(r)] = None
  <2>1. PICK phase \in {"settling", "removing"} :
          /\ request' = [request EXCEPT ![r].phase = phase] /\ entry' = entry
          /\ phase = "removing" => ~request[r].aborted
    BY <1>3 DEF DeleteCloses
  <2>2. /\ request' \in [Requests -> RequestType]
        /\ request'[r].phase = phase /\ request'[r].conn = request[r].conn
        /\ request'[r].method = request[r].method /\ request'[r].open = request[r].open
        /\ request'[r].aborted = request[r].aborted /\ request'[r].stopped = request[r].stopped
        /\ request'[r].claimed = request[r].claimed /\ request'[r].borrowed = request[r].borrowed
        /\ \A q \in Requests : q # r => request'[q] = request[q]
    BY <1>1, <2>1, Changed DEF Phases
  <2>3. /\ Busy(r)' /\ Mine(r)' = Mine(r) /\ ~Opener(r)' /\ Lasts(r) /\ Marks(r) /\ ~Lends(r)'
        /\ Relies(r)' => Relies(r)
    BY <1>1, <1>2, <2>1, <2>2 DEF Busy, Mine, Opener, Lasts, Marks, Lends, Relies
  <2>4. Shape(r)'
    BY <1>1, <1>2, <2>2, <2>3 DEF Shape, Busy, Claimant, Mine, Underway
  <2>5. Goes(r)
    BY <1>1, <1>2, <2>2, <2>3, <2>4 DEF Goes, Apart
  <2>6. Held' /\ OneOfEach'
    BY <1>1, <1>2, <2>3, <2>5, HeldOn, OneOfEachOn DEF Held
  <2>7. Unpublished'
    BY <1>2, <1>1, <1>3, <2>1, <2>2, <2>3, <2>5, UnpublishedOn
  <2> QED BY <1>1, <1>2, <2>2, <2>3, <2>5, <2>6, <2>7, GoesSafely
<1>4. CASE entry[Mine(r)] # None
  <2>1. request' = request /\ entry' = [entry EXCEPT ![Mine(r)] = Closing(@, FALSE)]
    BY <1>4 DEF DeleteCloses
  <2>2. /\ Busy(r)' = Busy(r) /\ Mine(r)' = Mine(r) /\ Opener(r)' = Opener(r) /\ Shape(r)'
        /\ Lends(r)' = Lends(r) /\ Relies(r)' = Relies(r)
    BY <1>1, <2>1, SameRequest
  <2>3. Goes(r) /\ Marks(r)
    BY <1>1, <1>2, <1>4, <2>1, <2>2 DEF Goes, Apart, Marks
  <2>4. Lasts(r)
    BY <2>3, MarksKeep
  <2>5. Held' /\ OneOfEach'
    BY <1>1, <1>2, <2>1, <2>2, <2>3, <2>4, HeldOn, OneOfEachOn DEF Held
  <2>6. Unpublished'
    BY <1>1, <1>2, <2>1, <2>2, <2>3, UnpublishedOn
  <2> QED BY <1>1, <1>2, <2>1, <2>2, <2>3, <2>5, <2>6, GoesSafely
<1> QED BY <1>3, <1>4

LEMMA DeleteEndsSafe ==
  ASSUME AcpInv, NEW r \in Requests, DeleteEnds(r)
  PROVE  AcpInv'
<1>1. /\ Shape(r) /\ Unpublished /\ opening \subseteq Conns /\ permitted \subseteq Conns
      /\ request[r].method = "delete" /\ request[r].phase \in {"removing", "settling"}
      /\ request' = [request EXCEPT ![r] = Ended]
      /\ deleting' = deleting \ {Mine(r)} /\ holder' = ReleasedBy(Mine(r))
      /\ operation' = SettledAt(Mine(r), r)
      /\ UNCHANGED <<claims, eviction, entry, opening, borrowed, conn, permitted, live, crossed>>
  BY DEF AcpInv, LeaseType, DeleteEnds
<1>2. /\ Busy(r) /\ Claimant(r) /\ Mine(r) \in Conns /\ request[r] # Ended /\ Lasts(r) /\ Marks(r)
      /\ request[r].open = "none" /\ Deletes(r)
  BY <1>1 DEF Busy, Mine, Shape, Ended, NoRequest, Lasts, Marks, Claimant, Deletes
<1>3. entry[Mine(r)] = None \/ entry[Mine(r)].by \in crossed
  BY <1>1, <1>2 DEF Unpublished
<1>4. /\ Goes(r) /\ request'[r] = Ended /\ ~Busy(r)' /\ ~Opener(r)' /\ ~Underway(r)' /\ ~Relies(r)'
      /\ ~request'[r].borrowed /\ request'[r].phase = "over" /\ request'[r].method = "none"
      /\ request'[r].open = "none"
  BY <1>1, EndsSo
<1>5. Held' /\ OneOfEach' /\ Unpublished'
  BY <1>1, <1>2, <1>3, <1>4, HeldOn, OneOfEachOn, UnpublishedOn
<1>6. holder' \in {holder, None}
  BY <1>1 DEF ReleasedBy
<1> QED BY <1>1, <1>2, <1>4, <1>5, <1>6, GoesSafely

LEMMA CloseAnswersSafe ==
  ASSUME AcpInv, NEW r \in Requests, CloseAnswers(r)
  PROVE  AcpInv'
<1>1. /\ Shape(r) /\ opening \subseteq Conns /\ permitted \subseteq Conns
      /\ request[r].method = "close" /\ request[r].phase = "closing"
      /\ request' = [request EXCEPT ![r] = Ended]
      /\ UNCHANGED <<holder, claims, eviction, entry, operation, opening, deleting, borrowed, conn,
                     permitted, live, crossed>>
  BY DEF AcpInv, LeaseType, CloseAnswers
<1>2. /\ Busy(r) /\ Mine(r) \in Conns /\ request[r] # Ended /\ Lasts(r) /\ Marks(r)
      /\ request[r].open = "none" /\ ~Claimant(r)
  BY <1>1 DEF Busy, Mine, Shape, Ended, NoRequest, Lasts, Marks, Claimant
<1>3. /\ Goes(r) /\ request'[r] = Ended /\ ~Busy(r)' /\ ~Opener(r)' /\ ~Underway(r)' /\ ~Relies(r)'
      /\ ~request'[r].borrowed /\ request'[r].phase = "over" /\ request'[r].method = "none"
      /\ request'[r].open = "none"
  BY <1>1, EndsSo
<1>4. Held' /\ OneOfEach' /\ Unpublished'
  BY <1>1, <1>2, <1>3, HeldOn, OneOfEachOn, UnpublishedOn
<1> QED BY <1>1, <1>2, <1>3, <1>4, GoesSafely

-----------------------------------------------------------------------------
\* Requests that begin

\* A request that has not begun.
LEMMA Unasked ==
  ASSUME AcpInv, NEW r \in Requests, Next1(r)
  PROVE  /\ request[r] = NoRequest /\ ~Busy(r) /\ ~Opener(r) /\ ~Lends(r) /\ ~Deletes(r) /\ ~Relies(r)
         /\ \A d \in Conns : operation[d] # r /\ (entry[d] # None => entry[d].by # r)
         /\ \A i \in DOMAIN claims : claims[i] # r
<1>1. Shape(r) /\ Operating /\ Published /\ ClaimsInOrder /\ request[r].phase = "none"
  BY DEF AcpInv, Next1
<1>2. request[r] = NoRequest
  BY <1>1 DEF Shape
<1>3. ~Busy(r) /\ ~Opener(r) /\ ~Lends(r) /\ ~Deletes(r) /\ ~Relies(r)
  BY <1>2 DEF NoRequest, Busy, Opener, Lends, Deletes, Relies
<1>4. \A d \in Conns : operation[d] # r
  BY <1>1, <1>3, Here DEF Operating
<1>5. \A d \in Conns : entry[d] # None => entry[d].by # r
  BY <1>1, <1>2 DEF Published, NoRequest, Ended
<1>6. \A i \in DOMAIN claims : claims[i] # r
  BY <1>1 DEF ClaimsInOrder
<1> QED BY <1>2, <1>3, <1>4, <1>5, <1>6

\* A request put in another's place.
LEMMA PutIn ==
  ASSUME LeaseType, NEW r \in Requests, NEW n \in RequestType, request' = [request EXCEPT ![r] = n]
  PROVE  request' \in [Requests -> RequestType] /\ request'[r] = n /\ Apart(r)
BY DEF LeaseType, Apart

\* Which requests may begin beside which, and which cross.
Joins(r, c, method) ==
  \/ /\ method = "load" /\ entry[c] = None /\ c \notin opening \cup deleting
     /\ opening' = opening \cup {c} /\ UNCHANGED <<deleting, borrowed>> /\ Crosses(r, Borrowers(c))
  \/ /\ method = "fork" /\ entry[c] = None /\ c \notin deleting \cup borrowed
     /\ borrowed' = borrowed \cup {c} /\ UNCHANGED <<opening, deleting>> /\ Crosses(r, Loaders(c))
  \/ /\ method = "delete" /\ c \notin opening \cup borrowed \cup deleting
     /\ deleting' = deleting \cup {c} /\ UNCHANGED <<opening, borrowed>>
     /\ crossed' = IF entry[c] # None /\ entry[c].releases THEN crossed \cup {r} ELSE crossed

\* Whom it meets are loads and forks that cross.
LEMMA JoinsSo ==
  ASSUME AcpInv, NEW r \in Requests, NEW c \in Conns, NEW method \in {"load", "fork", "delete"},
         Joins(r, c, method)
  PROVE  /\ crossed \subseteq crossed'
         /\ \A q \in Requests : Busy(q) /\ Claimant(q) /\ Mine(q) = c => {q, r} \subseteq crossed'
         /\ \A q \in Requests : Mine(q) = c => /\ ~Deletes(q) /\ (method # "fork" => ~Opener(q))
                                              /\ (method # "load" => ~Lends(q))
<1>1. /\ OneOfEach /\ \A q \in Requests : Shape(q)
  BY DEF AcpInv
<1>2. \A q \in Requests : /\ Busy(q) /\ request[q].method = "load" => Opener(q)
                          /\ Busy(q) /\ Claimant(q) => \/ request[q].method = "load" \/ Deletes(q) \/ Lends(q)
  BY <1>1 DEF Shape, Opener, Busy, Claimant, Deletes, Lends
<1>3. crossed \subseteq crossed'
  BY DEF Joins, Crosses
<1>4. \A q \in Requests : Mine(q) = c => /\ ~Deletes(q) /\ (method # "fork" => ~Opener(q))
                                         /\ (method # "load" => ~Lends(q))
  BY <1>1 DEF Joins, OneOfEach
<1>5. ASSUME NEW q \in Requests, Busy(q), Claimant(q), Mine(q) = c
      PROVE  {q, r} \subseteq crossed'
  <2>1. CASE request[q].method = "load"
    <3>1. method = "fork" /\ q \in Loaders(c)
      BY <1>2, <1>4, <1>5, <2>1 DEF Loaders, InFlight, Busy, Mine
    <3> QED BY <3>1 DEF Joins, Crosses
  <2>2. CASE Lends(q)
    <3>1. method = "load" /\ q \in Borrowers(c)
      BY <1>4, <1>5, <2>2 DEF Borrowers, InFlight, Busy, Mine, Lends
    <3> QED BY <3>1 DEF Joins, Crosses
  <2> QED BY <1>2, <1>4, <1>5, <2>1, <2>2
<1> QED BY <1>3, <1>4, <1>5

\* Its claim waits behind the others, and it is its connection's operation.
LEMMA ClaimsSafely ==
  ASSUME AcpInv, NEW r \in Requests, NEW c \in Conns, Next1(r), Access(c),
         NEW method \in {"load", "fork", "delete"}, NEW borrows \in BOOLEAN,
         borrows <=> method = "fork", Asks(r, c, method, "claiming", borrows),
         claims' = Append(claims, r), operation' = [operation EXCEPT ![c] = r],
         Joins(r, c, method),
         UNCHANGED <<holder, eviction, entry, conn, permitted, live>>
  PROVE  AcpInv'
<1>1. /\ LeaseType /\ Cut /\ Operating /\ OneOfEach /\ ClaimsInOrder /\ Evicting /\ Held
      /\ Unpublished /\ Published /\ Runtimes /\ (\A q \in Requests : Shape(q)) /\ live \subseteq Requests
  BY DEF AcpInv, LeaseType
<1>2. /\ request' \in [Requests -> RequestType] /\ Apart(r)
      /\ request'[r].conn = c /\ request'[r].method = method /\ request'[r].phase = "claiming"
      /\ request'[r].open = "none" /\ ~request'[r].aborted /\ ~request'[r].stopped
      /\ ~request'[r].claimed /\ request'[r].borrowed = borrows
  <2>1. PICK n : n = [NoRequest EXCEPT !.conn = c, !.method = method, !.phase = "claiming", !.borrowed = borrows]
    OBVIOUS
  <2>2. /\ n \in RequestType /\ n.conn = c /\ n.method = method /\ n.phase = "claiming"
        /\ n.open = "none" /\ ~n.aborted /\ ~n.stopped /\ ~n.claimed /\ n.borrowed = borrows
    BY <2>1 DEF NoRequest, RequestType, Opens, Phases, Methods
  <2>3. request' = [request EXCEPT ![r] = n]
    BY <2>1 DEF Asks
  <2> QED BY <1>1, <2>2, <2>3, PutIn
<1>3. /\ request[r] = NoRequest /\ ~Busy(r) /\ ~Opener(r) /\ ~Lends(r) /\ ~Deletes(r) /\ ~Relies(r)
      /\ \A d \in Conns : operation[d] # r /\ (entry[d] # None => entry[d].by # r)
      /\ \A i \in DOMAIN claims : claims[i] # r
  BY Unasked
<1>4. /\ Busy(r)' /\ Claimant(r)' /\ ~Underway(r)' /\ ~Relies(r)' /\ Mine(r)' = c
      /\ (Opener(r)' <=> method = "load") /\ (Lends(r)' <=> method = "fork")
      /\ (Deletes(r)' <=> method = "delete")
  BY <1>2 DEF Busy, Claimant, Underway, Relies, Opener, Mine, Lends, Deletes
<1>5. /\ crossed \subseteq crossed'
      /\ \A q \in Requests : Busy(q) /\ Claimant(q) /\ Mine(q) = c => {q, r} \subseteq crossed'
      /\ \A q \in Requests : Mine(q) = c => /\ ~Deletes(q) /\ (method # "fork" => ~Opener(q))
                                           /\ (method # "load" => ~Lends(q))
  BY JoinsSo
<1>6. \A q \in Requests : q # r =>
           /\ request'[q] = request[q]
           /\ Busy(q)' = Busy(q) /\ Claimant(q)' = Claimant(q) /\ Lends(q)' = Lends(q)
           /\ Deletes(q)' = Deletes(q) /\ Opener(q)' = Opener(q) /\ Mine(q)' = Mine(q)
           /\ Relies(q)' = Relies(q) /\ Shape(q)'
  BY <1>1, <1>2, <1>5, ApartFrom
<1>7. Shape(r)'
  BY <1>2, <1>4 DEF Shape, Methods, Mine
<1>8. LeaseType'
  <2>1. Append(claims, r) \in Seq(Requests)
    BY <1>1 DEF LeaseType
  <2>2. opening' \subseteq Conns /\ deleting' \subseteq Conns /\ borrowed' \subseteq Conns
    BY <1>1 DEF LeaseType, Joins
  <2> QED BY <1>1, <1>2, <2>1, <2>2 DEF LeaseType
<1>9. Cut'
  BY <1>1, <1>2, <1>4, <1>6 DEF Cut, Access
<1>10. Operating'
  <2>1. \A d \in Conns : operation'[d] = IF d = c THEN r ELSE operation[d]
    BY <1>1 DEF LeaseType
  <2>2. \A q \in Requests : Busy(q) => Mine(q) \in Conns
    BY Here
  <2>3. \A d \in Conns : operation'[d] # None =>
          (Busy(operation[d]) /\ Mine(operation[d]) = d /\ Claimant(operation[d]))'
    <3>1. ASSUME NEW d \in Conns, operation'[d] # None, d # c
          PROVE  (Busy(operation[d]) /\ Mine(operation[d]) = d /\ Claimant(operation[d]))'
      BY <1>1, <1>3, <1>6, <2>1, <3>1, Here DEF Operating
    <3>2. (Busy(operation[c]) /\ Mine(operation[c]) = c /\ Claimant(operation[c]))'
      BY <1>4, <2>1
    <3> QED BY <3>1, <3>2
  <2>4. \A q \in Requests : Busy(q)' /\ Claimant(q)' /\ q \notin crossed' => operation'[Mine(q)'] = q
    BY <1>1, <1>4, <1>5, <1>6, <2>1, <2>2 DEF Operating
  <2> QED BY <2>3, <2>4 DEF Operating
<1>11. OneOfEach'
  <2>1. \A q, p \in Requests : Opener(q)' /\ Opener(p)' /\ Mine(q)' = Mine(p)' => q = p
    BY <1>1, <1>4, <1>5, <1>6 DEF OneOfEach
  <2>2. \A q, p \in Requests : Lends(q)' /\ Lends(p)' /\ Mine(q)' = Mine(p)' => q = p
    BY <1>1, <1>4, <1>5, <1>6 DEF OneOfEach
  <2>3. \A q, p \in Requests : Deletes(q)' /\ Deletes(p)' /\ Mine(q)' = Mine(p)' => q = p
    BY <1>1, <1>4, <1>5, <1>6 DEF OneOfEach
  <2>4. \A q \in Requests : /\ Opener(q)'  => Mine(q)' \in opening' \ deleting'
                            /\ Lends(q)'   => Mine(q)' \in borrowed' \ deleting'
                            /\ Deletes(q)' => Mine(q)' \in deleting'
    BY <1>1, <1>4, <1>5, <1>6 DEF OneOfEach, Joins
  <2>5. \A q \in Requests : /\ Busy(q) /\ request[q].method = "load" => Claimant(q)
                            /\ Lends(q) => Busy(q) /\ Claimant(q)
    BY DEF Claimant, Lends
  <2>6. \A q, p \in Requests :
          Busy(q)' /\ request'[q].method = "load" /\ Lends(p)' /\ Mine(q)' = Mine(p)' => {q, p} \subseteq crossed'
    BY <1>1, <1>2, <1>4, <1>5, <1>6, <2>5 DEF OneOfEach
  <2> QED BY <2>1, <2>2, <2>3, <2>4, <2>6 DEF OneOfEach
<1>12. /\ DOMAIN claims = 1..Len(claims) /\ Len(claims) \in Nat /\ DOMAIN claims' = 1..(Len(claims) + 1)
       /\ \A i \in DOMAIN claims : claims[i] \in Requests /\ claims'[i] = claims[i]
       /\ claims'[Len(claims) + 1] = r
       /\ claims # << >> => Head(claims') = Head(claims) /\ Head(claims) \in Requests /\ Head(claims) # r
  <2>1. claims \in Seq(Requests)
    BY <1>1 DEF LeaseType
  <2>2. /\ DOMAIN claims = 1..Len(claims) /\ Len(claims) \in Nat
        /\ \A i \in DOMAIN claims : claims[i] \in Requests
    BY <2>1
  <2>3. /\ DOMAIN Append(claims, r) = 1..(Len(claims) + 1)
        /\ \A i \in 1..Len(claims) : Append(claims, r)[i] = claims[i]
        /\ Append(claims, r)[Len(claims) + 1] = r
    BY <2>1
  <2>4. claims # << >> => /\ Head(Append(claims, r)) = claims[1] /\ Head(claims) = claims[1] /\ 1 \in DOMAIN claims
    BY <2>1
  <2> QED BY <1>3, <2>2, <2>3, <2>4
<1>13. ClaimsInOrder'
  <2> DEFINE n == Len(claims)
  <2>1. n \in Nat /\ DOMAIN claims = 1..n /\ DOMAIN claims' = 1..(n + 1)
    BY <1>12
  <2>2. n + 1 \in DOMAIN claims' /\ \A i \in DOMAIN claims' : i \in DOMAIN claims \/ i = n + 1
    BY <2>1
  <2>3. \A i \in DOMAIN claims : i \in DOMAIN claims'
    BY <2>1
  <2>4. claims'[n + 1] = r
    BY <1>12
  <2> HIDE DEF n
  <2>5. \A i, j \in DOMAIN claims' : claims'[i] = claims'[j] => i = j
    BY <1>1, <1>3, <1>12, <2>2, <2>4 DEF ClaimsInOrder
  <2>6. \A i \in DOMAIN claims' : request'[claims'[i]].phase = "claiming"
    BY <1>1, <1>2, <1>6, <1>12, <2>2, <2>4 DEF ClaimsInOrder
  <2>7. \A q \in Requests : request'[q].phase = "claiming" => \E i \in DOMAIN claims' : claims'[i] = q
    BY <1>1, <1>6, <1>12, <2>2, <2>3, <2>4 DEF ClaimsInOrder
  <2>8. \A q \in Requests :
          /\ request'[q].phase = "claiming" /\ request'[q].aborted /\ eviction = NoEviction
          /\ q \notin crossed' \/ request'[q].method = "delete"
          => holder # Mine(q)'
    BY <1>1, <1>2, <1>5, <1>6 DEF ClaimsInOrder
  <2> QED BY <2>5, <2>6, <2>7, <2>8 DEF ClaimsInOrder
<1>14. Evicting'
  <2>1. claims' # << >>
    BY <1>1, AppendProperties DEF LeaseType
  <2>2. claims # << >> => Mine(Head(claims))' = Mine(Head(claims))
    BY <1>6, <1>12 DEF Mine
  <2> QED BY <1>1, <1>2, <1>5, <1>6, <1>12, <2>1, <2>2 DEF Evicting
<1>15. Held'
  BY <1>1, <1>4, <1>5, <1>6 DEF Held
<1>16. Unpublished'
  <2>1. method # "delete" => entry[c] = None
    BY DEF Joins
  <2>2. method = "delete" /\ entry[c] # None /\ entry[c].releases => r \in crossed'
    BY DEF Joins
  <2>3. \A q \in Requests : Opener(q)' /\ request'[q].open # "flushing" => entry[Mine(q)'] = None
    BY <1>1, <1>4, <1>6, <2>1 DEF Unpublished
  <2>4. \A q \in Requests : request'[q].phase = "removing" => entry[Mine(q)'] = None
    BY <1>1, <1>2, <1>6 DEF Unpublished
  <2>5. ASSUME NEW q \in Requests, Busy(q)', entry[Mine(q)'] # None
        PROVE  /\ request'[q].phase = "settling" => entry[Mine(q)'].by \in crossed'
               /\ Lends(q)' => \/ {q, entry[Mine(q)'].by} \subseteq crossed'
                               \/ /\ entry[Mine(q)'].by = q
                                  /\ request'[q].phase = "closing" => entry[Mine(q)'].closing
               /\ Deletes(q)' /\ q \notin crossed' /\ entry[Mine(q)'].releases => request'[q].aborted
    <3>1. CASE q = r
      BY <1>2, <1>4, <2>1, <2>2, <2>5, <3>1
    <3>2. CASE q # r
      BY <1>1, <1>5, <1>6, <2>5, <3>2 DEF Unpublished
    <3> QED BY <3>1, <3>2
  <2> QED BY <2>3, <2>4, <2>5 DEF Unpublished
<1>17. Published'
  BY <1>1, <1>3, <1>6 DEF Published
<1>18. Runtimes'
  <2>1. request[r].open = "none" /\ request'[r].open = "none"
    BY <1>2, <1>3 DEF NoRequest
  <2> QED BY <1>1, <1>6, <2>1 DEF Runtimes
<1> QED BY <1>6, <1>7, <1>8, <1>9, <1>10, <1>11, <1>13, <1>14, <1>15, <1>16, <1>17, <1>18 DEF AcpInv

LEMMA LoadStartsSafe ==
  ASSUME AcpInv, NEW r \in Requests, NEW c \in Conns, LoadStarts(r, c)
  PROVE  AcpInv'
<1>1. Joins(r, c, "load")
  BY DEF Joins, LoadStarts
<1> QED BY <1>1, ClaimsSafely DEF LoadStarts

LEMMA DeleteStartsSafe ==
  ASSUME AcpInv, NEW r \in Requests, NEW c \in Conns, DeleteStarts(r, c)
  PROVE  AcpInv'
<1>1. Joins(r, c, "delete")
  BY DEF Joins, DeleteStarts
<1> QED BY <1>1, ClaimsSafely DEF DeleteStarts

\* A fork of what is open, or a close, needs no lease.
LEMMA AsksSafely ==
  ASSUME AcpInv, NEW r \in Requests, NEW c \in Conns, Next1(r), conn[c] = "open", c \notin deleting,
         entry[c] # None, NEW method \in {"fork", "close"}, NEW phase \in {"forking", "closing"},
         Asks(r, c, method, phase, FALSE), method = "close" => phase = "closing",
         method = "fork" => phase = "forking" /\ entry' = entry,
         method = "close" => entry' = [entry EXCEPT ![c] = Closing(@, TRUE)],
         UNCHANGED <<holder, claims, eviction, operation, opening, deleting, borrowed, conn, permitted,
                     live, crossed>>
  PROVE  AcpInv'
<1>1. /\ LeaseType /\ Cut /\ Operating /\ OneOfEach /\ ClaimsInOrder /\ Evicting /\ Held
      /\ Unpublished /\ Published /\ Runtimes /\ (\A q \in Requests : Shape(q)) /\ live \subseteq Requests
  BY DEF AcpInv, LeaseType
<1>2. (method = "close" => phase = "closing") /\ (method = "fork" => phase = "forking")
  OBVIOUS
<1>3. /\ request' \in [Requests -> RequestType] /\ Apart(r)
      /\ request'[r].conn = c /\ request'[r].method = method /\ request'[r].phase = phase
      /\ request'[r].open = "none" /\ ~request'[r].aborted /\ ~request'[r].stopped
      /\ ~request'[r].claimed /\ ~request'[r].borrowed
  <2>1. PICK n : n = [NoRequest EXCEPT !.conn = c, !.method = method, !.phase = phase, !.borrowed = FALSE]
    OBVIOUS
  <2>2. /\ n \in RequestType /\ n.conn = c /\ n.method = method /\ n.phase = phase
        /\ n.open = "none" /\ ~n.aborted /\ ~n.stopped /\ ~n.claimed /\ ~n.borrowed
    BY <2>1 DEF NoRequest, RequestType, Opens, Phases, Methods
  <2>3. request' = [request EXCEPT ![r] = n]
    BY <2>1 DEF Asks
  <2> QED BY <1>1, <2>2, <2>3, PutIn
<1>4. /\ request[r] = NoRequest /\ ~Busy(r) /\ ~Opener(r) /\ ~Lends(r) /\ ~Deletes(r) /\ ~Relies(r)
      /\ \A d \in Conns : operation[d] # r /\ (entry[d] # None => entry[d].by # r)
      /\ \A i \in DOMAIN claims : claims[i] # r
  BY Unasked
<1>5. /\ Busy(r)' /\ ~Claimant(r)' /\ ~Underway(r)' /\ ~Relies(r)' /\ Mine(r)' = c /\ ~Opener(r)'
      /\ ~Lends(r)' /\ ~Deletes(r)'
  BY <1>2, <1>3 DEF Busy, Claimant, Underway, Relies, Opener, Mine, Lends, Deletes
<1>6. \A q \in Requests : q # r =>
           /\ request'[q] = request[q]
           /\ Busy(q)' = Busy(q) /\ Claimant(q)' = Claimant(q) /\ Lends(q)' = Lends(q)
           /\ Deletes(q)' = Deletes(q) /\ Opener(q)' = Opener(q) /\ Mine(q)' = Mine(q)
           /\ Relies(q)' = Relies(q) /\ Shape(q)'
  BY <1>1, <1>3, ApartFrom
<1>7. Shape(r)'
  BY <1>2, <1>3, <1>5 DEF Shape, Methods, Mine
<1>8. /\ Kept
      /\ \A d \in Conns : entry[d] # None /\ entry'[d].releases => entry[d].releases \/ (d = c /\ method = "close")
  <2>1. CASE method = "fork"
    BY <1>1, <2>1 DEF LeaseType, Kept
  <2>2. CASE method = "close"
    <3>1. /\ entry' \in [Conns -> EntryType \cup {None}]
          /\ entry'[c] # None /\ entry'[c].by = entry[c].by /\ entry'[c].closing
          /\ \A d \in Conns : d # c => entry'[d] = entry[d]
      BY <1>1, <2>2, EntryCloses
    <3> QED BY <2>2, <3>1 DEF Kept
  <2> QED BY <2>1, <2>2
<1>9. /\ entry' \in [Conns -> EntryType \cup {None}]
      /\ \A d \in Conns :
           /\ entry'[d] = None <=> entry[d] = None
           /\ entry[d] # None => entry'[d].by = entry[d].by /\ (entry[d].closing => entry'[d].closing)
           /\ entry[d] # None /\ entry'[d].releases => entry[d].releases \/ (d = c /\ method = "close")
  BY <1>8 DEF Kept
<1>10. LeaseType'
  BY <1>1, <1>3, <1>9 DEF LeaseType
<1>11. Cut' /\ Operating' /\ OneOfEach'
  <2>1. Cut'
    BY <1>1, <1>3, <1>5, <1>6 DEF Cut
  <2>2. Operating'
    BY <1>1, <1>4, <1>5, <1>6, Here DEF Operating
  <2>3. OneOfEach'
    BY <1>1, <1>2, <1>3, <1>5, <1>6 DEF OneOfEach
  <2> QED BY <2>1, <2>2, <2>3
<1>12. ClaimsInOrder'
  BY <1>1, <1>2, <1>3, <1>6, <1>4, Here DEF ClaimsInOrder
<1>13. Evicting'
  <2>1. claims # << >> => Mine(Head(claims))' = Mine(Head(claims))
    BY <1>4, <1>6, Here
  <2> QED BY <1>1, <1>3, <1>6, <1>9, <2>1 DEF Evicting
<1>14. Held'
  BY <1>1, <1>5, <1>6, <1>9 DEF Held
<1>15. Unpublished'
  <2>1. \A q \in Requests : /\ Busy(q) \/ Opener(q) => Mine(q) \in Conns
                            /\ request[q].phase = "removing" => Busy(q)
    BY Here DEF Busy
  <2>2. \A q \in Requests : Mine(q) = c => ~Deletes(q)
    BY <1>1 DEF OneOfEach
  <2>3. \A q \in Requests : Opener(q)' /\ request'[q].open # "flushing" => entry'[Mine(q)'] = None
    BY <1>1, <1>5, <1>6, <1>9, <2>1 DEF Unpublished
  <2>4. \A q \in Requests : request'[q].phase = "removing" => entry'[Mine(q)'] = None
    BY <1>1, <1>2, <1>3, <1>6, <1>9, <2>1 DEF Unpublished
  <2>5. ASSUME NEW q \in Requests, Busy(q)', entry'[Mine(q)'] # None
        PROVE  /\ request'[q].phase = "settling" => entry'[Mine(q)'].by \in crossed
               /\ Lends(q)' => \/ {q, entry'[Mine(q)'].by} \subseteq crossed
                               \/ /\ entry'[Mine(q)'].by = q
                                  /\ request'[q].phase = "closing" => entry'[Mine(q)'].closing
               /\ Deletes(q)' /\ q \notin crossed /\ entry'[Mine(q)'].releases => request'[q].aborted
    <3>1. CASE q = r
      BY <1>2, <1>3, <1>5, <3>1
    <3>2. CASE q # r
      <4>1. Busy(q) /\ Mine(q) \in Conns /\ entry[Mine(q)] # None
        BY <1>6, <1>9, <2>1, <2>5, <3>2
      <4> QED BY <1>1, <1>6, <1>9, <2>2, <2>5, <3>2, <4>1 DEF Unpublished
    <3> QED BY <3>1, <3>2
  <2> QED BY <2>3, <2>4, <2>5 DEF Unpublished
<1>16. Published'
  BY <1>1, <1>4, <1>6, <1>9 DEF Published
<1>17. Runtimes'
  <2>1. request[r].open = "none" /\ request'[r].open = "none"
    BY <1>3, <1>4 DEF NoRequest
  <2> QED BY <1>1, <1>6, <1>9, <2>1 DEF Runtimes
<1> QED BY <1>6, <1>7, <1>10, <1>11, <1>12, <1>13, <1>14, <1>15, <1>16, <1>17 DEF AcpInv

LEMMA ForkStartsSafe ==
  ASSUME AcpInv, NEW r \in Requests, NEW c \in Conns, ForkStarts(r, c)
  PROVE  AcpInv'
<1>1. CASE entry[c] # None
  BY <1>1, AsksSafely DEF ForkStarts, Access
<1>2. CASE entry[c] = None
  <2>1. Joins(r, c, "fork")
    BY <1>2 DEF Joins, ForkStarts
  <2> QED BY <1>2, <2>1, ClaimsSafely DEF ForkStarts
<1> QED BY <1>1, <1>2

LEMMA CloseStartsSafe ==
  ASSUME AcpInv, NEW r \in Requests, NEW c \in Conns, CloseStarts(r, c)
  PROVE  AcpInv'
BY AsksSafely DEF CloseStarts

-----------------------------------------------------------------------------
\* Cancelled requests, ended connections and changed credentials

\* A request is told that it is cancelled, or not.
Told(q) ==
  /\ request'[q].conn = request[q].conn /\ request'[q].method = request[q].method
  /\ request'[q].phase = request[q].phase /\ request'[q].open = request[q].open
  /\ request'[q].claimed = request[q].claimed /\ request'[q].borrowed = request[q].borrowed
  /\ request[q].aborted => request'[q].aborted
  /\ request[q].stopped => request'[q].stopped
  /\ request[q].conn = None => request'[q] = request[q]

LEMMA ToldSo ==
  ASSUME NEW q, Told(q), crossed \subseteq crossed'
  PROVE  /\ Busy(q)' = Busy(q) /\ Claimant(q)' = Claimant(q) /\ Lends(q)' = Lends(q)
         /\ Deletes(q)' = Deletes(q) /\ Opener(q)' = Opener(q) /\ Mine(q)' = Mine(q)
         /\ Relies(q)' => Relies(q)
         /\ Shape(q) => Shape(q)'
<1>1. /\ Busy(q)' = Busy(q) /\ Claimant(q)' = Claimant(q) /\ Lends(q)' = Lends(q)
      /\ Deletes(q)' = Deletes(q) /\ Opener(q)' = Opener(q) /\ Mine(q)' = Mine(q)
      /\ Underway(q)' = Underway(q) /\ (Cancelled(q) => Cancelled(q)')
  BY DEF Told, Busy, Claimant, Lends, Deletes, Opener, Mine, Underway, Cancelled
<1>2. Relies(q)' => Relies(q)
  BY <1>1 DEF Told, Relies
<1>3. Shape(q) => Shape(q)'
  <2>1. Shape(q) /\ request[q].phase = "none" => request'[q] = request[q]
    BY DEF Shape, NoRequest, Told
  <2> QED BY <1>1, <1>2, <2>1 DEF Shape, Told
<1> QED BY <1>1, <1>2, <1>3

\* No claim is undecided then, but for one that waits for an eviction; and no delete that
\* relies on the lease meets a close that lets go of it.
LEMMA MarksOn ==
  ASSUME AcpInv, Quiet, LeaseType', Cut', Evicting', eviction' = NoEviction => eviction = NoEviction,
         \A q \in Requests : Told(q), Kept, crossed \subseteq crossed',
         \A c \in Conns : entry[c] # None /\ entry'[c].releases =>
           \/ entry[c].releases
           \/ \A q \in Requests : Deletes(q) /\ Mine(q) = c => q \in crossed' \/ request'[q].aborted,
         UNCHANGED <<holder, claims, operation, opening, deleting, borrowed, live>>
  PROVE  AcpInv'
<1>1. /\ LeaseType /\ Operating /\ OneOfEach /\ ClaimsInOrder /\ Held
      /\ Unpublished /\ Published /\ Runtimes /\ (\A q \in Requests : Shape(q)) /\ live \subseteq Requests
  BY DEF AcpInv, LeaseType
<1>2. \A q \in Requests :
        /\ Busy(q)' = Busy(q) /\ Claimant(q)' = Claimant(q) /\ Lends(q)' = Lends(q)
        /\ Deletes(q)' = Deletes(q) /\ Opener(q)' = Opener(q) /\ Mine(q)' = Mine(q)
        /\ (Relies(q)' => Relies(q)) /\ Shape(q)'
  BY <1>1, ToldSo
<1>3. \A q \in Requests :
        /\ request'[q].method = request[q].method /\ request'[q].conn = request[q].conn
        /\ request'[q].phase = request[q].phase /\ request'[q].open = request[q].open
        /\ request[q].aborted => request'[q].aborted
        /\ request[q].conn = None => request'[q] = request[q]
  BY DEF Told
<1>4. \A c \in Conns :
        /\ entry'[c] = None <=> entry[c] = None
        /\ entry[c] # None => entry'[c].by = entry[c].by /\ (entry[c].closing => entry'[c].closing)
  BY DEF Kept
<1>5. Operating'
  BY <1>1, <1>2, Here DEF Operating
<1>6. OneOfEach'
  BY <1>1, <1>2, <1>3 DEF OneOfEach
<1>7. ClaimsInOrder'
  <2>1. \A q \in Requests : request[q].phase = "claiming" => eviction # NoEviction
    <3>1. \A q \in Requests : request[q].phase = "claiming" => claims # << >>
      BY <1>1 DEF ClaimsInOrder
    <3> QED BY <3>1 DEF Quiet
  <2> QED BY <1>1, <1>3, <2>1, Here DEF ClaimsInOrder
<1>8. Held'
  BY <1>1, <1>2, <1>4 DEF Held
<1>9. Unpublished'
  <2>1. \A q \in Requests : /\ Busy(q) \/ Opener(q) => Mine(q) \in Conns
                            /\ request[q].phase = "removing" => Busy(q)
    BY Here DEF Busy
  <2>2. \A q \in Requests : Opener(q)' /\ request'[q].open # "flushing" => entry'[Mine(q)'] = None
    BY <1>1, <1>2, <1>3, <1>4, <2>1 DEF Unpublished
  <2>3. \A q \in Requests : request'[q].phase = "removing" => entry'[Mine(q)'] = None
    BY <1>1, <1>2, <1>3, <1>4, <2>1 DEF Unpublished
  <2>4. ASSUME NEW q \in Requests, Busy(q)', entry'[Mine(q)'] # None
        PROVE  /\ request'[q].phase = "settling" => entry'[Mine(q)'].by \in crossed'
               /\ Lends(q)' => \/ {q, entry'[Mine(q)'].by} \subseteq crossed'
                               \/ /\ entry'[Mine(q)'].by = q
                                  /\ request'[q].phase = "closing" => entry'[Mine(q)'].closing
               /\ Deletes(q)' /\ q \notin crossed' /\ entry'[Mine(q)'].releases => request'[q].aborted
    <3>1. /\ Busy(q) /\ Mine(q) \in Conns /\ Mine(q)' = Mine(q) /\ entry[Mine(q)] # None
          /\ entry'[Mine(q)].by = entry[Mine(q)].by /\ (entry[Mine(q)].closing => entry'[Mine(q)].closing)
          /\ Lends(q)' = Lends(q) /\ Deletes(q)' = Deletes(q)
      BY <1>2, <1>4, <2>1, <2>4
    <3> QED BY <1>1, <1>3, <3>1 DEF Unpublished
  <2> QED BY <2>2, <2>3, <2>4 DEF Unpublished
<1>10. Published'
  <2>1. ASSUME NEW c \in Conns, entry[c] # None
        PROVE  /\ entry[c].by \in live /\ entry[c].by \in Requests
               /\ request'[entry[c].by].open \in {"flushing", "open"} \/ request'[entry[c].by] = Ended
               /\ request'[entry[c].by].conn \in {c, None}
    <3>1. /\ entry[c].by \in live /\ entry[c].by \in Requests
          /\ request[entry[c].by].open \in {"flushing", "open"} \/ request[entry[c].by] = Ended
          /\ request[entry[c].by].conn \in {c, None}
      BY <1>1, <2>1 DEF Published
    <3>2. request[entry[c].by] = Ended => request'[entry[c].by] = Ended
      BY <1>3, <3>1 DEF Ended, NoRequest
    <3> QED BY <1>3, <3>1, <3>2
  <2> QED BY <1>1, <1>4, <2>1 DEF Published
<1>11. Runtimes'
  BY <1>1, <1>3, <1>4 DEF Runtimes
<1> QED BY <1>2, <1>5, <1>6, <1>7, <1>8, <1>9, <1>10, <1>11 DEF AcpInv

\* Where the eviction stays too.
LEMMA MarksSafely ==
  ASSUME AcpInv, Quiet, request' \in [Requests -> RequestType], \A q \in Requests : Told(q),
         \A q \in Requests : Busy(q) /\ conn'[Mine(q)] # "open" => request'[q].aborted,
         Kept, crossed \subseteq crossed',
         \A c \in Conns : entry[c] # None /\ entry'[c].releases =>
           \/ entry[c].releases
           \/ \A q \in Requests : Deletes(q) /\ Mine(q) = c => q \in crossed' \/ request'[q].aborted,
         conn' \in [Conns -> {"open", "stopping", "closed"}], permitted' \subseteq Conns,
         UNCHANGED <<holder, claims, eviction, operation, opening, deleting, borrowed, live>>
  PROVE  AcpInv'
<1>1. LeaseType /\ Evicting
  BY DEF AcpInv
<1>2. \A q \in Requests : Busy(q)' = Busy(q) /\ Mine(q)' = Mine(q)
  BY ToldSo
<1>3. LeaseType'
  BY <1>1 DEF LeaseType, Kept
<1>4. Cut'
  BY <1>2 DEF Cut
<1>5. Evicting'
  <2>1. claims # << >> => Mine(Head(claims))' = Mine(Head(claims))
    BY <1>2, Here
  <2>2. \A q \in Requests : /\ request'[q].claimed = request[q].claimed
                            /\ request[q].aborted => request'[q].aborted
    BY DEF Told
  <2> QED BY <1>1, <1>2, <2>1, <2>2 DEF Evicting, Kept
<1> QED BY <1>3, <1>4, <1>5, MarksOn

LEMMA CancelsSafe ==
  ASSUME AcpInv, Quiet, NEW r \in Requests, Cancels(r)
  PROVE  AcpInv'
<1>1. LeaseType /\ Cut /\ Shape(r) /\ request \in [Requests -> RequestType]
  BY DEF AcpInv, LeaseType
<1>2. /\ request' \in [Requests -> RequestType]
      /\ request'[r].phase = request[r].phase /\ request'[r].conn = request[r].conn
      /\ request'[r].method = request[r].method /\ request'[r].open = request[r].open
      /\ request'[r].aborted /\ request'[r].stopped = request[r].stopped
      /\ request'[r].claimed = request[r].claimed /\ request'[r].borrowed = request[r].borrowed
      /\ \A q \in Requests : q # r => request'[q] = request[q]
  BY <1>1, Changed DEF Cancels
<1>3. request[r].conn # None
  BY <1>1, AcpAssumption DEF Shape, Busy, Cancels
<1>4. UNCHANGED <<holder, claims, eviction, entry, operation, opening, deleting, borrowed, conn,
                  permitted, live, crossed>>
  BY DEF Cancels
<1>5. \A q \in Requests : Told(q)
  BY <1>2, <1>3 DEF Told
<1>6. \A q \in Requests : Busy(q) /\ conn[Mine(q)] # "open" => request'[q].aborted
  BY <1>1, <1>2 DEF Cut
<1>7. /\ Kept /\ conn' \in [Conns -> {"open", "stopping", "closed"}] /\ permitted' \subseteq Conns
  BY <1>1, <1>4 DEF LeaseType, Kept
<1> QED BY <1>2, <1>4, <1>5, <1>6, <1>7, MarksSafely

\* The session of a connection that ends closes, and lets go of the lease.
LEMMA EndsItsSession ==
  ASSUME LeaseType, NEW c \in Conns,
         entry' = IF entry[c] = None THEN entry ELSE [entry EXCEPT ![c] = Closing(@, TRUE)]
  PROVE  /\ Kept
         /\ \A d \in Conns : entry[d] # None /\ entry'[d].releases => entry[d].releases \/ d = c
<1>1. CASE entry[c] = None
  BY <1>1 DEF LeaseType, Kept
<1>2. CASE entry[c] # None
  <2>1. /\ entry' \in [Conns -> EntryType \cup {None}]
        /\ entry'[c] # None /\ entry'[c].by = entry[c].by /\ entry'[c].closing
        /\ \A d \in Conns : d # c => entry'[d] = entry[d]
    BY <1>2, EntryCloses
  <2> QED BY <1>2, <2>1 DEF Kept
<1> QED BY <1>1, <1>2

LEMMA DisconnectsSafe ==
  ASSUME AcpInv, Quiet, NEW c \in Conns, Disconnects(c)
  PROVE  AcpInv'
<1>1. LeaseType /\ Cut /\ request \in [Requests -> RequestType] /\ c # None
  BY AcpAssumption DEF AcpInv, LeaseType
<1>2. ASSUME NEW q \in Requests
      PROVE  /\ request'[q] \in RequestType /\ Told(q)
             /\ OfConn(c, q) => request'[q].aborted
             /\ request[q].conn # c => request'[q] = request[q]
  <2>1. request[q] \in RequestType
    BY <1>1
  <2>2. request'[q] = IF OfConn(c, q) THEN [request[q] EXCEPT !.aborted = TRUE]
                      ELSE IF request[q].conn = c THEN [request[q] EXCEPT !.stopped = TRUE] ELSE request[q]
    BY DEF Disconnects
  <2>3. CASE OfConn(c, q)
    <3>1. request'[q] = [request[q] EXCEPT !.aborted = TRUE] /\ request[q].conn = c
      BY <2>2, <2>3 DEF OfConn
    <3> QED BY <1>1, <2>1, <2>3, <3>1 DEF RequestType, Told
  <2>4. CASE ~OfConn(c, q) /\ request[q].conn = c
    <3>1. request'[q] = [request[q] EXCEPT !.stopped = TRUE]
      BY <2>2, <2>4
    <3> QED BY <1>1, <2>1, <2>4, <3>1 DEF RequestType, Told
  <2>5. CASE ~OfConn(c, q) /\ request[q].conn # c
    BY <2>1, <2>2, <2>5 DEF Told
  <2> QED BY <2>3, <2>4, <2>5
<1>3. request' \in [Requests -> RequestType]
  <2>1. request' = [q \in Requests |-> request'[q]]
    BY DEF Disconnects
  <2> QED BY <1>2, <2>1
<1>4. /\ conn' \in [Conns -> {"open", "stopping", "closed"}] /\ permitted' \subseteq Conns
      /\ \A d \in Conns : d # c => conn'[d] = conn[d]
  BY <1>1 DEF Disconnects, LeaseType
<1>5. \A q \in Requests : Busy(q) /\ Mine(q) = c => OfConn(c, q)
  BY DEF Busy, OfConn, Over, Mine
<1>6. \A q \in Requests : Busy(q) /\ conn'[Mine(q)] # "open" => request'[q].aborted
  <2>1. \A q \in Requests : Busy(q) => Mine(q) \in Conns
    BY Here
  <2> QED BY <1>1, <1>2, <1>4, <1>5, <2>1 DEF Cut, Told
<1>7. /\ Kept /\ \A d \in Conns : entry[d] # None /\ entry'[d].releases => entry[d].releases \/ d = c
  BY <1>1, EndsItsSession DEF Disconnects
<1>8. \A q \in Requests : Deletes(q) /\ Mine(q) = c => request'[q].aborted
  BY <1>2, <1>5 DEF Deletes
<1>9. UNCHANGED <<holder, claims, eviction, operation, opening, deleting, borrowed, live, crossed>>
  BY DEF Disconnects
<1> QED BY <1>2, <1>3, <1>4, <1>6, <1>7, <1>8, <1>9, MarksSafely

LEMMA RevokesSafe ==
  ASSUME AcpInv, Quiet, NEW c \in Conns, Revokes(c)
  PROVE  AcpInv'
<1>1. LeaseType /\ Cut /\ request \in [Requests -> RequestType] /\ c # None
  BY AcpAssumption DEF AcpInv, LeaseType
<1>2. ASSUME NEW q \in Requests
      PROVE  request'[q] \in RequestType /\ Told(q)
  <2>1. request[q] \in RequestType
    BY <1>1
  <2>2. \/ request'[q] = request[q]
        \/ /\ request[q].conn = c
           /\ request'[q] = [request[q] EXCEPT !.stopped = TRUE, !.aborted = @ \/ request[q].method = "load"]
    BY DEF Revokes
  <2>3. CASE request'[q] = request[q]
    BY <2>1, <2>3 DEF Told
  <2>4. CASE /\ request[q].conn = c
             /\ request'[q] = [request[q] EXCEPT !.stopped = TRUE, !.aborted = @ \/ request[q].method = "load"]
    <3>1. PICK a \in BOOLEAN : a = (request[q].aborted \/ request[q].method = "load")
      OBVIOUS
    <3>2. request'[q] = [request[q] EXCEPT !.stopped = TRUE, !.aborted = a]
      BY <2>4, <3>1
    <3> QED BY <1>1, <2>1, <2>4, <3>1, <3>2 DEF RequestType, Told
  <2> QED BY <2>2, <2>3, <2>4
<1>3. request' \in [Requests -> RequestType]
  <2>1. request' = [q \in Requests |-> request'[q]]
    BY DEF Revokes
  <2> QED BY <1>2, <2>1
<1>4. /\ conn' = conn /\ conn' \in [Conns -> {"open", "stopping", "closed"}] /\ permitted' \subseteq Conns
      /\ UNCHANGED <<holder, claims, eviction, operation, opening, deleting, borrowed, live>>
  BY <1>1 DEF Revokes, LeaseType
<1>5. \A q \in Requests : Busy(q) /\ conn'[Mine(q)] # "open" => request'[q].aborted
  BY <1>1, <1>2, <1>4 DEF Cut, Told
<1>6. /\ Kept /\ \A d \in Conns : entry[d] # None /\ entry'[d].releases => entry[d].releases \/ d = c
  BY <1>1, EndsItsSession DEF Revokes
<1>7. \A q \in Requests : Deletes(q) /\ Mine(q) = c /\ entry[c] # None => q \in crossed'
  BY DEF Deletes, Busy, Mine, InFlight, Revokes
<1>8. crossed \subseteq crossed'
  BY DEF Revokes
<1> QED BY <1>2, <1>3, <1>4, <1>5, <1>6, <1>7, <1>8, MarksSafely

-----------------------------------------------------------------------------
\* Sessions that close

\* The requests are all as they were.
LEMMA SameRequests ==
  ASSUME request' = request, crossed' = crossed
  PROVE  \A q : /\ Busy(q)' = Busy(q) /\ Claimant(q)' = Claimant(q) /\ Lends(q)' = Lends(q)
                /\ Deletes(q)' = Deletes(q) /\ Opener(q)' = Opener(q) /\ Mine(q)' = Mine(q)
                /\ Relies(q)' = Relies(q) /\ (Shape(q) => Shape(q)')
BY SameRequest

\* The connections change, and nothing is cut off.
LEMMA ConnsOn ==
  ASSUME AcpInv, \A d \in Conns : conn'[d] # "open" => conn[d] # "open",
         conn' \in [Conns -> {"open", "stopping", "closed"}], permitted' \subseteq Conns,
         UNCHANGED <<holder, claims, eviction, request, entry, operation, opening, deleting, borrowed,
                     live, crossed>>
  PROVE  AcpInv'
<1>1. /\ LeaseType /\ Cut /\ Operating /\ OneOfEach /\ ClaimsInOrder /\ Evicting /\ Held
      /\ Unpublished /\ Published /\ Runtimes /\ \A q \in Requests : Shape(q)
  BY DEF AcpInv
<1>2. \A q : /\ Busy(q)' = Busy(q) /\ Claimant(q)' = Claimant(q) /\ Lends(q)' = Lends(q)
             /\ Deletes(q)' = Deletes(q) /\ Opener(q)' = Opener(q) /\ Mine(q)' = Mine(q)
             /\ Relies(q)' = Relies(q) /\ (Shape(q) => Shape(q)')
  BY SameRequests
<1>3. LeaseType' /\ \A q \in Requests : Shape(q)'
  BY <1>1, <1>2 DEF LeaseType
<1>4. Cut'
  BY <1>1, <1>2, Here DEF Cut
<1>5. Operating' /\ OneOfEach'
  BY <1>1, <1>2 DEF Operating, OneOfEach
<1>6. ClaimsInOrder' /\ Evicting'
  BY <1>1, <1>2 DEF ClaimsInOrder, Evicting
<1>7. Held' /\ Unpublished'
  BY <1>1, <1>2 DEF Held, Unpublished
<1>8. Published' /\ Runtimes'
  BY <1>1, <1>2 DEF Published, Runtimes
<1> QED BY <1>3, <1>4, <1>5, <1>6, <1>7, <1>8 DEF AcpInv

LEMMA PermitsSafe ==
  ASSUME AcpInv, NEW c \in Conns, Permits(c)
  PROVE  AcpInv'
<1>1. LeaseType
  BY DEF AcpInv
<1>2. conn' \in [Conns -> {"open", "stopping", "closed"}] /\ permitted' \subseteq Conns /\ conn' = conn
  BY <1>1 DEF LeaseType, Permits
<1> QED BY <1>2, ConnsOn DEF Permits

\* A session leaves the registry; if its close lets go of the lease, no delete of its
\* connection relies on that.
LEMMA LeavesSafely ==
  ASSUME AcpInv, NEW c \in Conns, entry[c] # None, entry' = [entry EXCEPT ![c] = None],
         live' = live \ {entry[c].by},
         \/ holder' = holder
         \/ /\ holder' = ReleasedBy(c)
            /\ \A q \in Requests : Deletes(q) /\ Mine(q) = c => q \in crossed \/ request[q].aborted,
         conn' \in [Conns -> {"open", "stopping", "closed"}],
         \A d \in Conns : conn'[d] # "open" => conn[d] # "open",
         UNCHANGED <<claims, eviction, request, operation, opening, deleting, borrowed, permitted, crossed>>
  PROVE  AcpInv'
<1>1. /\ LeaseType /\ Cut /\ Operating /\ OneOfEach /\ ClaimsInOrder /\ Evicting /\ Held
      /\ Unpublished /\ Published /\ Runtimes /\ (\A q \in Requests : Shape(q)) /\ live \subseteq Requests
  BY DEF AcpInv, LeaseType
<1>2. \A q : /\ Busy(q)' = Busy(q) /\ Claimant(q)' = Claimant(q) /\ Lends(q)' = Lends(q)
             /\ Deletes(q)' = Deletes(q) /\ Opener(q)' = Opener(q) /\ Mine(q)' = Mine(q)
             /\ Relies(q)' = Relies(q) /\ (Shape(q) => Shape(q)')
  BY SameRequests
<1>3. entry'[c] = None /\ \A d \in Conns : d # c => entry'[d] = entry[d]
  BY <1>1 DEF LeaseType
<1>4. holder' \in {holder, None}
  BY DEF ReleasedBy
<1>5. \A q \in Requests : /\ Busy(q) \/ Opener(q) => Mine(q) \in Conns /\ Mine(q) # None
                          /\ request[q].phase \in {"claiming", "removing", "opening", "closing"} => Busy(q)
  BY Here DEF Busy
<1>6. LeaseType' /\ \A q \in Requests : Shape(q)'
  <2>1. entry' \in [Conns -> EntryType \cup {None}]
    BY <1>1 DEF LeaseType
  <2> QED BY <1>1, <1>2, <1>4, <2>1 DEF LeaseType
<1>7. Cut'
  BY <1>1, <1>2, <1>5 DEF Cut
<1>8. Operating' /\ OneOfEach'
  BY <1>1, <1>2 DEF Operating, OneOfEach
<1>9. ClaimsInOrder'
  BY <1>1, <1>2, <1>4, <1>5 DEF ClaimsInOrder
<1>10. Evicting'
  BY <1>1, <1>2, <1>3, <1>4 DEF Evicting
<1>11. Held'
  <2>1. \A d \in Conns : entry'[d] # None /\ entry'[d].by \notin crossed => holder' = d
    BY <1>1, <1>3 DEF Held, ReleasedBy
  <2>2. ASSUME NEW q \in Requests, Relies(q), q \notin crossed, Mine(q) = c
        PROVE  Deletes(q) /\ ~request[q].aborted
    <3>1. CASE request[q].phase = "opening" /\ Underway(q)
      BY <1>1, <2>2, <3>1 DEF Unpublished, Underway, Opener
    <3>2. CASE request[q].phase = "opening" /\ request[q].open = "none"
      <4>1. Busy(q) /\ Lends(q)
        BY <1>1, <3>2 DEF Shape, Opener, Busy, Lends
      <4>2. entry[c].by = q
        BY <1>1, <2>2, <4>1 DEF Unpublished
      <4> QED BY <1>1, <3>2, <4>2 DEF Published, Ended, NoRequest
    <3>3. CASE request[q].phase = "removing"
      BY <1>1, <2>2, <3>3 DEF Unpublished
    <3>4. CASE request[q].phase = "closing" /\ request[q].method = "delete" /\ ~request[q].aborted
      BY <3>4 DEF Deletes, Busy
    <3> QED BY <2>2, <3>1, <3>2, <3>3, <3>4 DEF Relies
  <2>3. \A q \in Requests : Relies(q) /\ q \notin crossed => holder' = Mine(q)
    BY <1>1, <2>2 DEF Held, ReleasedBy
  <2> QED BY <1>2, <2>1, <2>3 DEF Held
<1>12. Unpublished'
  <2>1. \A q \in Requests : Opener(q) /\ request[q].open # "flushing" => entry'[Mine(q)] = None
    BY <1>1, <1>3, <1>5 DEF Unpublished
  <2>2. \A q \in Requests : request[q].phase = "removing" => entry'[Mine(q)] = None
    BY <1>1, <1>3, <1>5 DEF Unpublished
  <2>3. \A q \in Requests : Busy(q) /\ entry'[Mine(q)] # None => entry'[Mine(q)] = entry[Mine(q)]
    BY <1>3, <1>5
  <2> QED BY <1>1, <1>2, <2>1, <2>2, <2>3 DEF Unpublished
<1>13. Published'
  BY <1>1, <1>3 DEF Published
<1>14. Runtimes'
  <2>1. request[entry[c].by].open \notin {"restoring", "readying", "unwinding"}
    BY <1>1 DEF Published, Ended, NoRequest
  <2> QED BY <1>1, <1>2, <1>3, <2>1 DEF Runtimes
<1> QED BY <1>6, <1>7, <1>8, <1>9, <1>10, <1>11, <1>12, <1>13, <1>14 DEF AcpInv

LEMMA CloseEndsSafe ==
  ASSUME AcpInv, NEW c \in Conns, CloseEnds(c)
  PROVE  AcpInv'
<1>1. LeaseType /\ Unpublished
  BY DEF AcpInv
<1>2. /\ entry[c] # None /\ entry' = [entry EXCEPT ![c] = None] /\ live' = live \ {entry[c].by}
      /\ UNCHANGED <<claims, eviction, request, operation, opening, deleting, borrowed, conn, permitted,
                     crossed>>
  BY DEF CloseEnds, ClosingAt
<1>3. conn' \in [Conns -> {"open", "stopping", "closed"}]
  BY <1>1, <1>2 DEF LeaseType
<1>4. \/ holder' = holder
      \/ /\ holder' = ReleasedBy(c)
         /\ \A q \in Requests : Deletes(q) /\ Mine(q) = c => q \in crossed \/ request[q].aborted
  <2>1. CASE ~entry[c].releases
    BY <2>1 DEF CloseEnds
  <2>2. CASE entry[c].releases
    <3>1. \A q \in Requests : Deletes(q) /\ Mine(q) = c => q \in crossed \/ request[q].aborted
      BY <1>1, <1>2, <2>2 DEF Unpublished, Deletes
    <3> QED BY <2>2, <3>1 DEF CloseEnds
  <2> QED BY <2>1, <2>2
<1> QED BY <1>2, <1>3, <1>4, LeavesSafely

LEMMA ShutdownEndsSafe ==
  ASSUME AcpInv, NEW c \in Conns, ShutdownEnds(c)
  PROVE  AcpInv'
<1>1. LeaseType /\ Cut
  BY DEF AcpInv
<1>2. /\ conn' \in [Conns -> {"open", "stopping", "closed"}] /\ conn[c] # "open"
      /\ permitted' = permitted /\ permitted' \subseteq Conns
      /\ \A d \in Conns : conn'[d] # "open" => conn[d] # "open"
  BY <1>1 DEF LeaseType, ShutdownEnds
<1>3. CASE entry[c] = None
  <2>1. UNCHANGED <<holder, claims, eviction, request, entry, operation, opening, deleting, borrowed,
                    live, crossed>>
    BY <1>3 DEF ShutdownEnds
  <2> QED BY <1>2, <2>1, ConnsOn
<1>4. CASE entry[c] # None
  <2>1. /\ entry' = [entry EXCEPT ![c] = None] /\ live' = live \ {entry[c].by}
        /\ holder' = ReleasedBy(c)
        /\ UNCHANGED <<claims, eviction, request, operation, opening, deleting, borrowed, permitted, crossed>>
    BY <1>4 DEF ShutdownEnds
  <2>2. \A q \in Requests : Deletes(q) /\ Mine(q) = c => request[q].aborted
    BY <1>1, <1>2 DEF Cut, Deletes
  <2> QED BY <1>2, <1>4, <2>1, <2>2, LeavesSafely
<1> QED BY <1>3, <1>4

-----------------------------------------------------------------------------
\* The lease

\* A request is marked as the one that has the lease, or stays.
Noted(q) ==
  /\ request'[q].conn = request[q].conn /\ request'[q].method = request[q].method
  /\ request'[q].phase = request[q].phase /\ request'[q].open = request[q].open
  /\ request'[q].aborted = request[q].aborted /\ request'[q].borrowed = request[q].borrowed
  /\ Busy(q) \/ request'[q] = request[q]

LEMMA NotedSo ==
  ASSUME NEW q, Noted(q)
  PROVE  /\ Busy(q)' = Busy(q) /\ Claimant(q)' = Claimant(q) /\ Lends(q)' = Lends(q)
         /\ Deletes(q)' = Deletes(q) /\ Opener(q)' = Opener(q) /\ Mine(q)' = Mine(q)
         /\ Relies(q)' = Relies(q)
BY DEF Noted, Busy, Claimant, Lends, Deletes, Opener, Mine, Underway, Relies

\* The first claim leaves.
LEMMA ClaimLeaves ==
  ASSUME AcpInv, NEW r \in Requests, First(r), claims' = Tail(claims), crossed' = crossed,
         \A q \in Requests : q # r => Noted(q), request'[r].phase # "claiming",
         \A q \in Requests :
           /\ q # r /\ request[q].phase = "claiming" /\ request[q].aborted /\ eviction' = NoEviction
           /\ q \notin crossed \/ request[q].method = "delete"
           => holder' # Mine(q)
  PROVE  claims' \in Seq(Requests) /\ ClaimsInOrder'
<1>1. LeaseType /\ ClaimsInOrder /\ claims \in Seq(Requests) /\ claims # << >> /\ Head(claims) = r
  BY DEF AcpInv, LeaseType, First
<1>2. \A q \in Requests : q # r =>
        /\ request'[q].phase = request[q].phase /\ request'[q].aborted = request[q].aborted
        /\ request'[q].method = request[q].method /\ Mine(q)' = Mine(q)
  BY DEF Noted, Mine
<1>3. PICK n \in Nat : n = Len(claims) /\ n > 0 /\ DOMAIN claims = 1..n /\ claims[1] = r
  <2>1. Len(claims) \in Nat /\ Len(claims) # 0 /\ DOMAIN claims = 1..Len(claims) /\ claims[1] = r
    BY <1>1
  <2>2. Len(claims) > 0
    BY <2>1
  <2> QED BY <2>1, <2>2
<1>4. /\ claims' \in Seq(Requests) /\ DOMAIN claims' = 1..(n - 1)
      /\ \A i \in 1..(n - 1) : claims'[i] = claims[i + 1]
  <2>1. Tail(claims) \in Seq(Requests) /\ Len(Tail(claims)) = n - 1
    BY <1>1, <1>3, HeadTailProperties
  <2>2. \A i \in 1..(n - 1) : Tail(claims)[i] = claims[i + 1]
    BY <1>1, <1>3, <2>1, HeadTailProperties
  <2> QED BY <2>1, <2>2
<1>5. \A i \in DOMAIN claims' : i + 1 \in DOMAIN claims /\ i + 1 # 1 /\ claims'[i] = claims[i + 1]
  BY <1>3, <1>4
<1>6. \A j \in DOMAIN claims : j # 1 => \E i \in DOMAIN claims' : claims'[i] = claims[j]
  <2>1. ASSUME NEW j \in DOMAIN claims, j # 1
        PROVE  j - 1 \in 1..(n - 1) /\ (j - 1) + 1 = j
    BY <1>3, <2>1
  <2> QED BY <1>4, <2>1
<1>7. 1 \in DOMAIN claims /\ claims[1] = r /\ \A i \in DOMAIN claims : claims[i] \in Requests
  BY <1>1, <1>3
<1>8. \A i, j \in DOMAIN claims' : claims'[i] = claims'[j] => i = j
  <2>1. ASSUME NEW i \in DOMAIN claims', NEW j \in DOMAIN claims', claims'[i] = claims'[j]
        PROVE  i = j
    <3>1. i + 1 = j + 1
      BY <1>1, <1>5, <2>1 DEF ClaimsInOrder
    <3> QED BY <1>4, <3>1
  <2> QED BY <2>1
<1>9. \A i \in DOMAIN claims' : request'[claims'[i]].phase = "claiming"
  <2>1. \A i \in DOMAIN claims' : claims'[i] \in Requests /\ claims'[i] # r
    BY <1>1, <1>5, <1>7 DEF ClaimsInOrder
  <2> QED BY <1>1, <1>2, <1>5, <2>1 DEF ClaimsInOrder
<1>10. \A q \in Requests : request'[q].phase = "claiming" => \E i \in DOMAIN claims' : claims'[i] = q
  <2>1. ASSUME NEW q \in Requests, request'[q].phase = "claiming"
        PROVE  \E i \in DOMAIN claims' : claims'[i] = q
    <3>1. q # r /\ request[q].phase = "claiming"
      BY <1>2, <2>1
    <3>2. PICK j \in DOMAIN claims : claims[j] = q
      BY <1>1, <3>1 DEF ClaimsInOrder
    <3> QED BY <1>6, <1>7, <3>1, <3>2
  <2> QED BY <2>1
<1>11. \A q \in Requests :
         /\ request'[q].phase = "claiming" /\ request'[q].aborted /\ eviction' = NoEviction
         /\ q \notin crossed' \/ request'[q].method = "delete"
         => holder' # Mine(q)'
  BY <1>2
<1> QED BY <1>4, <1>8, <1>9, <1>10, <1>11 DEF ClaimsInOrder

\* What the claim of a request is, while it waits.
LEMMA Waits ==
  ASSUME AcpInv, NEW r, First(r)
  PROVE  /\ r \in Requests /\ request[r].phase = "claiming" /\ Busy(r) /\ Claimant(r) /\ Mine(r) \in Conns
         /\ request[r].open = "none" /\ Shape(r)
         /\ r \notin crossed => ~request[r].claimed /\ operation[Mine(r)] = r
         /\ request[r].method \in {"load", "fork", "delete"} /\ request[r] \in RequestType
         /\ \A c \in Conns : entry[c] # None => entry[c].by # r
<1>1. /\ LeaseType /\ ClaimsInOrder /\ Operating /\ Published
      /\ claims \in Seq(Requests) /\ claims # << >> /\ Head(claims) = r
  BY DEF AcpInv, LeaseType, First
<1>2. r \in Requests /\ request[r].phase = "claiming"
  BY <1>1, Here
<1>3. Shape(r) /\ request[r] \in RequestType
  BY <1>1, <1>2 DEF AcpInv, LeaseType
<1>4. /\ Busy(r) /\ Claimant(r) /\ Mine(r) \in Conns /\ request[r].open = "none"
      /\ r \notin crossed => ~request[r].claimed
  BY <1>2, <1>3 DEF Shape, Busy, Mine
<1>5. request[r].method \in {"load", "fork", "delete"}
  BY <1>3, <1>4 DEF Shape, Claimant
<1>6. r \notin crossed => operation[Mine(r)] = r
  BY <1>1, <1>2, <1>4 DEF Operating
<1>7. \A c \in Conns : entry[c] # None => entry[c].by # r
  BY <1>1, <1>2, <1>4 DEF Published, Ended, NoRequest
<1> QED BY <1>2, <1>3, <1>4, <1>5, <1>6, <1>7

\* A claim is decided, and nothing that needs the lease is left at another connection.
LEMMA DecidesSafely ==
  ASSUME AcpInv, NEW r \in Requests, First(r), claims' = Tail(claims), eviction' = NoEviction,
         request' \in [Requests -> RequestType], Shape(r)',
         \A q \in Requests : q # r => Noted(q) /\ Shape(q)',
         request'[r].phase \in {"opening", "closing", "settling"},
         request'[r].conn = request[r].conn, request'[r].method = request[r].method,
         request'[r].aborted = request[r].aborted, request'[r].borrowed = request[r].borrowed,
         request'[r].phase = "closing" => request'[r].method = "delete",
         request'[r].open \in {"none", "options", "failing", "failed"}, Opener(r)' => Opener(r),
         request'[r].phase = "settling" => entry[Mine(r)] = None \/ entry[Mine(r)].by \in crossed,
         Relies(r)' /\ r \notin crossed => holder' = Mine(r),
         holder' \in Conns \cup {None},
         \A c \in Conns : entry[c] # None /\ entry[c].by \notin crossed => holder' = c,
         \A q \in Requests : q # r /\ Relies(q) /\ q \notin crossed => holder' = Mine(q),
         \A q \in Requests :
           /\ q # r /\ request[q].phase = "claiming" /\ request[q].aborted
           /\ q \notin crossed \/ request[q].method = "delete"
           => holder' # Mine(q),
         UNCHANGED <<entry, operation, opening, deleting, borrowed, conn, permitted, live, crossed>>
  PROVE  AcpInv'
<1>1. /\ LeaseType /\ Cut /\ Operating /\ OneOfEach /\ ClaimsInOrder /\ Evicting /\ Held
      /\ Unpublished /\ Published /\ Runtimes /\ live \subseteq Requests
  BY DEF AcpInv, LeaseType
<1>2. /\ request[r].phase = "claiming" /\ Busy(r) /\ Claimant(r) /\ Mine(r) \in Conns
      /\ request[r].open = "none"
      /\ \A c \in Conns : entry[c] # None => entry[c].by # r
  BY Waits
<1>3. \A q \in Requests : q # r =>
           /\ Busy(q)' = Busy(q) /\ Claimant(q)' = Claimant(q) /\ Lends(q)' = Lends(q)
           /\ Deletes(q)' = Deletes(q) /\ Opener(q)' = Opener(q) /\ Mine(q)' = Mine(q)
           /\ Relies(q)' = Relies(q)
  BY NotedSo
<1>4. \A q \in Requests : q # r =>
        /\ request'[q].conn = request[q].conn /\ request'[q].method = request[q].method
        /\ request'[q].phase = request[q].phase /\ request'[q].open = request[q].open
        /\ request'[q].aborted = request[q].aborted
        /\ Busy(q) \/ request'[q] = request[q]
  BY DEF Noted
<1>5. /\ Busy(r)' /\ Claimant(r)' /\ Mine(r)' = Mine(r) /\ Lends(r)' = Lends(r) /\ Deletes(r)' = Deletes(r)
  BY <1>2 DEF Busy, Claimant, Mine, Lends, Deletes
<1>6. claims' \in Seq(Requests) /\ ClaimsInOrder'
  BY ClaimLeaves
<1>7. LeaseType'
  BY <1>1, <1>6 DEF LeaseType, NoEviction, Stages
<1>8. Cut'
  BY <1>1, <1>2, <1>3, <1>4, <1>5 DEF Cut
<1>9. Operating'
  BY <1>1, <1>2, <1>3, <1>5, Here DEF Operating
<1>10. OneOfEach'
  BY <1>1, <1>2, <1>3, <1>4, <1>5 DEF OneOfEach
<1>11. Evicting'
  BY DEF Evicting
<1>12. Held'
  BY <1>3, <1>5 DEF Held
<1>13. Unpublished'
  <2>1. Opener(r) => entry[Mine(r)] = None
    BY <1>1, <1>2 DEF Unpublished
  <2>2. entry[Mine(r)] # None =>
          /\ Lends(r) => {r, entry[Mine(r)].by} \subseteq crossed
          /\ Deletes(r) /\ r \notin crossed /\ entry[Mine(r)].releases => request[r].aborted
    BY <1>1, <1>2 DEF Unpublished
  <2>3. \A q \in Requests : Opener(q)' /\ request'[q].open # "flushing" => entry[Mine(q)'] = None
    BY <1>1, <1>3, <1>4, <1>5, <2>1 DEF Unpublished
  <2>4. \A q \in Requests : request'[q].phase = "removing" => entry[Mine(q)'] = None
    BY <1>1, <1>3, <1>4 DEF Unpublished
  <2>5. ASSUME NEW q \in Requests, Busy(q)', entry[Mine(q)'] # None
        PROVE  /\ request'[q].phase = "settling" => entry[Mine(q)'].by \in crossed
               /\ Lends(q)' => \/ {q, entry[Mine(q)'].by} \subseteq crossed
                               \/ /\ entry[Mine(q)'].by = q
                                  /\ request'[q].phase = "closing" => entry[Mine(q)'].closing
               /\ Deletes(q)' /\ q \notin crossed /\ entry[Mine(q)'].releases => request'[q].aborted
    <3>1. CASE q = r
      BY <1>5, <2>2, <2>5, <3>1
    <3>2. CASE q # r
      BY <1>1, <1>3, <1>4, <2>5, <3>2 DEF Unpublished
    <3> QED BY <3>1, <3>2
  <2> QED BY <2>3, <2>4, <2>5 DEF Unpublished
<1>14. Published'
  <2>1. ASSUME NEW c \in Conns, entry[c] # None
        PROVE  /\ entry[c].by \in live
               /\ request'[entry[c].by].open \in {"flushing", "open"} \/ request'[entry[c].by] = Ended
               /\ request'[entry[c].by].conn \in {c, None}
    <3>1. /\ entry[c].by \in live /\ entry[c].by \in Requests /\ entry[c].by # r
          /\ request[entry[c].by].open \in {"flushing", "open"} \/ request[entry[c].by] = Ended
          /\ request[entry[c].by].conn \in {c, None}
      BY <1>1, <1>2, <2>1 DEF Published
    <3>2. request[entry[c].by] = Ended => request'[entry[c].by] = Ended
      BY <1>4, <3>1 DEF Busy, Ended, NoRequest
    <3> QED BY <1>4, <3>1, <3>2
  <2> QED BY <1>1, <2>1 DEF Published
<1>15. Runtimes'
  BY <1>1, <1>2, <1>4 DEF Runtimes
<1> QED BY <1>6, <1>7, <1>8, <1>9, <1>10, <1>11, <1>12, <1>13, <1>14, <1>15 DEF AcpInv

\* A claim that is refused.
LEMMA RefusedSo ==
  ASSUME AcpInv, NEW r \in Requests, First(r), request' = [request EXCEPT ![r] = Refused(@)],
         crossed' = crossed
  PROVE  /\ request' \in [Requests -> RequestType] /\ Shape(r)'
         /\ \A q \in Requests : q # r => Noted(q) /\ Shape(q)'
         /\ request'[r].phase \in {"opening", "settling"}
         /\ request'[r].conn = request[r].conn /\ request'[r].method = request[r].method
         /\ request'[r].aborted = request[r].aborted /\ request'[r].borrowed = request[r].borrowed
         /\ request'[r].phase = "settling" => request[r].method = "delete"
         /\ request'[r].open \in {"none", "failing", "failed"} /\ (Opener(r)' => Opener(r)) /\ ~Relies(r)'
<1>1. /\ request[r].phase = "claiming" /\ Claimant(r) /\ request[r].open = "none"
      /\ request[r].method \in {"load", "fork", "delete"} /\ request[r] \in RequestType /\ Shape(r)
      /\ Mine(r) \in Conns
  BY Waits
<1>2. LeaseType /\ request \in [Requests -> RequestType] /\ \A q \in Requests : Shape(q)
  BY DEF AcpInv, LeaseType
<1>3. PICK n : n = Refused(request[r])
  OBVIOUS
<1>4. /\ request[r].method = "load" => n = [request[r] EXCEPT !.phase = "opening", !.open = "failing"]
      /\ request[r].method = "fork" => n = [request[r] EXCEPT !.phase = "opening", !.open = "failed"]
      /\ request[r].method = "delete" => n = [request[r] EXCEPT !.phase = "settling"]
  BY <1>1, <1>3 DEF Refused
<1>5. /\ n \in RequestType
      /\ n.conn = request[r].conn /\ n.method = request[r].method /\ n.claimed = request[r].claimed
      /\ n.aborted = request[r].aborted /\ n.borrowed = request[r].borrowed
      /\ request[r].method = "load" => n.phase = "opening" /\ n.open = "failing"
      /\ request[r].method = "fork" => n.phase = "opening" /\ n.open = "failed"
      /\ request[r].method = "delete" => n.phase = "settling" /\ n.open = "none"
  <2>1. CASE request[r].method = "load"
    BY <1>1, <1>4, <2>1 DEF RequestType, Phases, Opens
  <2>2. CASE request[r].method = "fork"
    BY <1>1, <1>4, <2>2 DEF RequestType, Phases, Opens
  <2>3. CASE request[r].method = "delete"
    BY <1>1, <1>4, <2>3 DEF RequestType, Phases, Opens
  <2> QED BY <1>1, <2>1, <2>2, <2>3
<1>6. request' = [request EXCEPT ![r] = n]
  BY <1>3
<1>7. request' \in [Requests -> RequestType] /\ request'[r] = n /\ Apart(r)
  BY <1>2, <1>5, <1>6, PutIn
<1>8. (Opener(r)' => Opener(r)) /\ ~Relies(r)'
  BY <1>1, <1>5, <1>7 DEF Opener, Underway, Relies
<1>9. Shape(r)'
  BY <1>1, <1>5, <1>7, <1>8 DEF Shape, Busy, Claimant, Opener, Underway, Mine, Methods
<1>10. \A q \in Requests : q # r => Noted(q) /\ Shape(q)'
  BY <1>2, <1>7, ApartFrom DEF Noted, Apart
<1> QED BY <1>1, <1>5, <1>7, <1>8, <1>9, <1>10

LEMMA ClaimCancelledSafe ==
  ASSUME AcpInv, NEW r \in Requests, ClaimCancelled(r)
  PROVE  AcpInv'
<1>1. /\ First(r) /\ eviction = NoEviction /\ request[r].aborted /\ claims' = Tail(claims)
      /\ request' = [request EXCEPT ![r] = Refused(@)]
      /\ UNCHANGED <<holder, eviction, entry, operation, opening, deleting, borrowed, conn, permitted,
                     live, crossed>>
  BY DEF ClaimCancelled
<1>2. /\ request' \in [Requests -> RequestType] /\ Shape(r)'
      /\ \A q \in Requests : q # r => Noted(q) /\ Shape(q)'
      /\ request'[r].phase \in {"opening", "settling"}
      /\ request'[r].conn = request[r].conn /\ request'[r].method = request[r].method
      /\ request'[r].aborted = request[r].aborted /\ request'[r].borrowed = request[r].borrowed
      /\ request'[r].phase = "settling" => request[r].method = "delete"
      /\ request'[r].open \in {"none", "failing", "failed"} /\ (Opener(r)' => Opener(r)) /\ ~Relies(r)'
  BY <1>1, RefusedSo
<1>3. LeaseType /\ Held /\ ClaimsInOrder
  BY DEF AcpInv
<1>4. request[r].phase = "claiming" /\ Mine(r) \in Conns
  BY <1>1, Waits
<1>5. request[r].method = "delete" => entry[Mine(r)] = None \/ entry[Mine(r)].by \in crossed
  BY <1>1, <1>3, <1>4 DEF ClaimsInOrder, Held
<1>6. /\ holder \in Conns \cup {None}
      /\ \A c \in Conns : entry[c] # None /\ entry[c].by \notin crossed => holder = c
      /\ \A q \in Requests : Relies(q) /\ q \notin crossed => holder = Mine(q)
      /\ \A q \in Requests :
           /\ request[q].phase = "claiming" /\ request[q].aborted
           /\ q \notin crossed \/ request[q].method = "delete"
           => holder # Mine(q)
  BY <1>1, <1>3 DEF LeaseType, Held, ClaimsInOrder
<1> QED BY <1>1, <1>2, <1>5, <1>6, DecidesSafely

\* A claim that lands marks its connection's operation, which is another request only
\* where two have crossed.
LEMMA LandsSo ==
  ASSUME AcpInv, NEW r \in Requests, First(r), Lands(r), crossed' = crossed
  PROVE  /\ request' \in [Requests -> RequestType] /\ Shape(r)'
         /\ \A q \in Requests : q # r => Noted(q) /\ Shape(q)'
         /\ request'[r].phase \in {"opening", "closing"}
         /\ request'[r].conn = request[r].conn /\ request'[r].method = request[r].method
         /\ request'[r].aborted = request[r].aborted /\ request'[r].borrowed = request[r].borrowed
         /\ request'[r].phase = "closing" => request'[r].method = "delete"
         /\ request'[r].open \in {"none", "options", "failing"} /\ (Opener(r)' => Opener(r))
<1>1. /\ request[r].phase = "claiming" /\ Claimant(r) /\ request[r].open = "none" /\ Busy(r)
      /\ request[r].method \in {"load", "fork", "delete"} /\ request[r] \in RequestType /\ Shape(r)
      /\ Mine(r) \in Conns /\ (r \notin crossed => operation[Mine(r)] = r)
  BY Waits
<1>2. /\ LeaseType /\ request \in [Requests -> RequestType] /\ Operating /\ \A q \in Requests : Shape(q)
  BY DEF AcpInv, LeaseType
<1>3. PICK t : t = IF operation[Mine(r)] = r THEN [request[r] EXCEPT !.claimed = TRUE] ELSE request[r]
  OBVIOUS
<1>4. PICK n : n = AfterClaim(t)
  OBVIOUS
<1>5. /\ request'[r] = n
      /\ \A q \in Requests : q # r =>
           request'[q] = IF operation[Mine(r)] = q THEN [request[q] EXCEPT !.claimed = TRUE] ELSE request[q]
  BY <1>1, <1>3, <1>4 DEF Lands
<1>6. /\ t \in RequestType /\ (r \notin crossed => t.claimed)
      /\ t.conn = request[r].conn /\ t.method = request[r].method /\ t.phase = request[r].phase
      /\ t.open = request[r].open /\ t.aborted = request[r].aborted /\ t.borrowed = request[r].borrowed
  BY <1>1, <1>3 DEF RequestType
<1>7. /\ n \in RequestType /\ (r \notin crossed => n.claimed)
      /\ n.conn = request[r].conn /\ n.method = request[r].method
      /\ n.aborted = request[r].aborted /\ n.borrowed = request[r].borrowed
      /\ request[r].method = "load" =>
           n.phase = "opening" /\ n.open = IF request[r].aborted THEN "failing" ELSE "options"
      /\ request[r].method = "fork" => n.phase = "opening" /\ n.open = "none"
      /\ request[r].method = "delete" => n.phase = "closing" /\ n.open = "none"
  <2>1. CASE t.method = "load" /\ t.aborted
    <3>1. n = [t EXCEPT !.phase = "opening", !.open = "failing"]
      BY <1>4, <2>1 DEF AfterClaim
    <3> QED BY <1>1, <1>6, <2>1, <3>1 DEF RequestType, Phases, Opens
  <2>2. CASE t.method = "load" /\ ~t.aborted
    <3>1. n = [t EXCEPT !.phase = "opening", !.open = "options"]
      BY <1>4, <2>2 DEF AfterClaim
    <3> QED BY <1>1, <1>6, <2>2, <3>1 DEF RequestType, Phases, Opens
  <2>3. CASE t.method = "fork"
    <3>1. n = [t EXCEPT !.phase = "opening"]
      BY <1>4, <2>3 DEF AfterClaim
    <3> QED BY <1>1, <1>6, <2>3, <3>1 DEF RequestType, Phases, Opens
  <2>4. CASE t.method = "delete"
    <3>1. n = [t EXCEPT !.phase = "closing"]
      BY <1>4, <2>4 DEF AfterClaim
    <3> QED BY <1>1, <1>6, <2>4, <3>1 DEF RequestType, Phases, Opens
  <2> QED BY <1>1, <1>6, <2>1, <2>2, <2>3, <2>4
<1>8. ASSUME NEW q \in Requests, q # r
      PROVE  request'[q] \in RequestType /\ Noted(q) /\ Shape(q)'
  <2>1. request[q] \in RequestType /\ Shape(q)
    BY <1>2
  <2>2. CASE operation[Mine(r)] # q
    <3>1. request'[q] = request[q]
      BY <1>5, <1>8, <2>2
    <3> QED BY <2>1, <3>1, SameRequest DEF Noted
  <2>3. CASE operation[Mine(r)] = q
    <3>1. Busy(q) /\ Mine(q) = Mine(r) /\ Claimant(q)
      BY <1>1, <1>2, <2>3, Here DEF Operating
    <3>2. q \in crossed
      BY <1>1, <1>8, <3>1, Elsewhere
    <3>3. request'[q] = [request[q] EXCEPT !.claimed = TRUE]
      BY <1>5, <1>8, <2>3
    <3>4. /\ request'[q] \in RequestType
          /\ request'[q].conn = request[q].conn /\ request'[q].method = request[q].method
          /\ request'[q].phase = request[q].phase /\ request'[q].open = request[q].open
          /\ request'[q].aborted = request[q].aborted /\ request'[q].stopped = request[q].stopped
          /\ request'[q].borrowed = request[q].borrowed
      BY <2>1, <3>3 DEF RequestType
    <3>5. Noted(q) /\ (Cancelled(q)' = Cancelled(q)) /\ Underway(q)' = Underway(q)
      BY <3>1, <3>4 DEF Noted, Cancelled, Underway
    <3>6. /\ Busy(q)' = Busy(q) /\ Claimant(q)' = Claimant(q) /\ Opener(q)' = Opener(q)
          /\ Mine(q)' = Mine(q) /\ Relies(q)' = Relies(q)
      BY <3>5, NotedSo
    <3> QED BY <2>1, <3>1, <3>2, <3>4, <3>5, <3>6 DEF Shape, Busy
  <2> QED BY <2>2, <2>3
<1>9. request' \in [Requests -> RequestType]
  <2>1. request' = [q \in Requests |-> request'[q]]
    BY DEF Lands
  <2> QED BY <1>5, <1>7, <1>8, <2>1
<1>10. (Opener(r)' => Opener(r)) /\ Claimant(r)'
  BY <1>1, <1>5, <1>7 DEF Opener, Claimant
<1>11. Shape(r)'
  BY <1>1, <1>5, <1>7, <1>10 DEF Shape, Busy, Claimant, Opener, Underway, Mine, Methods, Relies
<1> QED BY <1>1, <1>5, <1>7, <1>8, <1>9, <1>10, <1>11

\* Nothing that needs the lease is left at another connection.
LEMMA LandsSafely ==
  ASSUME AcpInv, NEW r \in Requests, First(r), Lands(r),
         \A c \in Conns : entry[c] # None /\ entry[c].by \notin crossed => c = Mine(r),
         \A q \in Requests : Relies(q) /\ q \notin crossed => Mine(q) = Mine(r),
         UNCHANGED <<entry, operation, opening, deleting, borrowed, conn, permitted, live, crossed>>
  PROVE  AcpInv'
<1>1. Mine(r) \in Conns /\ Busy(r) /\ Claimant(r) /\ \A q \in Requests : Shape(q)
  BY Waits DEF AcpInv
<1>2. holder' = Mine(r) /\ claims' = Tail(claims) /\ eviction' = NoEviction
  BY DEF Lands
<1>3. \A q \in Requests :
        /\ q # r /\ request[q].phase = "claiming" /\ request[q].aborted
        /\ q \notin crossed \/ request[q].method = "delete"
        => holder' # Mine(q)
  <2>1. ASSUME NEW q \in Requests, q # r, request[q].phase = "claiming", Mine(q) = Mine(r)
        PROVE  q \in crossed /\ request[q].method # "delete"
    <3>1. Busy(q) /\ Claimant(q)
      BY <1>1, <2>1 DEF Shape, Busy
    <3> QED BY <1>1, <2>1, <3>1, Elsewhere DEF Deletes
  <2> QED BY <1>2, <2>1
<1>4. /\ request' \in [Requests -> RequestType] /\ Shape(r)'
      /\ \A q \in Requests : q # r => Noted(q) /\ Shape(q)'
      /\ request'[r].phase \in {"opening", "closing"}
      /\ request'[r].conn = request[r].conn /\ request'[r].method = request[r].method
      /\ request'[r].aborted = request[r].aborted /\ request'[r].borrowed = request[r].borrowed
      /\ request'[r].phase = "closing" => request'[r].method = "delete"
      /\ request'[r].open \in {"none", "options", "failing"} /\ (Opener(r)' => Opener(r))
  BY LandsSo
<1> QED BY <1>1, <1>2, <1>3, <1>4, DecidesSafely

LEMMA ClaimLandsSafe ==
  ASSUME AcpInv, NEW r \in Requests, ClaimLands(r)
  PROVE  AcpInv'
<1>1. /\ First(r) /\ Lands(r) /\ holder \in {None, Mine(r)} /\ Held
      /\ UNCHANGED <<entry, operation, opening, deleting, borrowed, conn, permitted, live, crossed>>
      /\ \A q \in Requests : Shape(q)
  BY DEF ClaimLands, AcpInv
<1>2. \A c \in Conns : entry[c] # None /\ entry[c].by \notin crossed => c = Mine(r)
  BY <1>1, Here DEF Held
<1>3. \A q \in Requests : Relies(q) /\ q \notin crossed => Mine(q) = Mine(r)
  BY <1>1, Here, Reliant DEF Held
<1> QED BY <1>1, <1>2, <1>3, LandsSafely

\* What an eviction that is to end leaves.
LEMMA EvictedLeaves ==
  ASSUME AcpInv, Evicted
  PROVE  /\ eviction.from \in Conns /\ holder \in {None, eviction.from} /\ claims # << >>
         /\ \A c \in Conns : entry[c] # None => entry[c].by \in crossed
         /\ \A q \in Requests : Relies(q) => q \in crossed
<1>1. /\ Evicting /\ Held /\ eviction # NoEviction /\ eviction.stage = "closing"
      /\ \A q \in Requests : Shape(q)
  BY DEF AcpInv, NoEviction, Evicted
<1>2. /\ eviction.from \in Conns /\ holder \in {None, eviction.from} /\ claims # << >>
      /\ \A q \in Requests :
           Busy(q) /\ request[q].claimed /\ q \notin crossed => Mine(q) # eviction.from
      /\ entry[eviction.from] # None => entry[eviction.from].by \in crossed
  BY <1>1 DEF Evicting, Evicted
<1>3. \A c \in Conns : entry[c] # None => entry[c].by \in crossed
  BY <1>1, <1>2, Here DEF Held
<1>4. ASSUME NEW q \in Requests, Relies(q), q \notin crossed PROVE FALSE
  <2>1. Busy(q) /\ request[q].claimed
    BY <1>1, <1>4, Reliant DEF Shape
  <2> QED BY <1>1, <1>2, <1>4, <2>1, Here DEF Held
<1> QED BY <1>2, <1>3, <1>4

LEMMA EvictEndsSafe ==
  ASSUME AcpInv, NEW r \in Requests, EvictEnds(r)
  PROVE  AcpInv'
<1>1. /\ First(r) /\ Lands(r)
      /\ UNCHANGED <<entry, operation, opening, deleting, borrowed, conn, permitted, live, crossed>>
  BY DEF EvictEnds
<1>2. /\ \A c \in Conns : entry[c] # None => entry[c].by \in crossed
      /\ \A q \in Requests : Relies(q) => q \in crossed
  BY EvictedLeaves DEF EvictEnds
<1> QED BY <1>1, <1>2, LandsSafely

LEMMA EvictFailsSafe ==
  ASSUME AcpInv, NEW r \in Requests, EvictFails(r)
  PROVE  AcpInv'
<1>1. /\ First(r) /\ claims' = Tail(claims) /\ eviction' = NoEviction
      /\ request' = [request EXCEPT ![r] = Refused(@)] /\ holder' = ReleasedBy(eviction.from)
      /\ UNCHANGED <<entry, operation, opening, deleting, borrowed, conn, permitted, live, crossed>>
  BY DEF EvictFails
<1>2. /\ request' \in [Requests -> RequestType] /\ Shape(r)'
      /\ \A q \in Requests : q # r => Noted(q) /\ Shape(q)'
      /\ request'[r].phase \in {"opening", "settling"}
      /\ request'[r].conn = request[r].conn /\ request'[r].method = request[r].method
      /\ request'[r].aborted = request[r].aborted /\ request'[r].borrowed = request[r].borrowed
      /\ request'[r].phase = "settling" => request[r].method = "delete"
      /\ request'[r].open \in {"none", "failing", "failed"} /\ (Opener(r)' => Opener(r)) /\ ~Relies(r)'
  BY <1>1, RefusedSo
<1>3. /\ holder \in {None, eviction.from}
      /\ \A c \in Conns : entry[c] # None => entry[c].by \in crossed
      /\ \A q \in Requests : Relies(q) => q \in crossed
  BY EvictedLeaves DEF EvictFails
<1>4. holder' = None
  BY <1>1, <1>3 DEF ReleasedBy
<1>5. \A q \in Requests : request[q].phase = "claiming" => Mine(q) # None
  BY Here DEF Busy
<1>6. Mine(r) \in Conns
  BY <1>1, Waits
<1> QED BY <1>1, <1>2, <1>3, <1>4, <1>5, <1>6, DecidesSafely

LEMMA EvictBeginsSafe ==
  ASSUME AcpInv, NEW r \in Requests, EvictBegins(r)
  PROVE  AcpInv'
<1>1. /\ LeaseType /\ Cut /\ Operating /\ OneOfEach /\ ClaimsInOrder /\ Held
      /\ Unpublished /\ Published /\ Runtimes /\ \A q \in Requests : Shape(q)
  BY DEF AcpInv
<1>2. /\ First(r) /\ holder \notin {None, Mine(r)}
      /\ eviction' = [NoEviction EXCEPT !.stage = "stopping", !.from = holder]
      /\ UNCHANGED <<holder, claims, request, entry, operation, opening, deleting, borrowed, conn,
                     permitted, live, crossed>>
  BY DEF EvictBegins
<1>3. \A q : /\ Busy(q)' = Busy(q) /\ Claimant(q)' = Claimant(q) /\ Lends(q)' = Lends(q)
             /\ Deletes(q)' = Deletes(q) /\ Opener(q)' = Opener(q) /\ Mine(q)' = Mine(q)
             /\ Relies(q)' = Relies(q) /\ (Shape(q) => Shape(q)')
  BY <1>2, SameRequests
<1>4. /\ eviction'.stage = "stopping" /\ eviction'.from = holder /\ eviction' # NoEviction
      /\ eviction' \in [stage : Stages, from : Conns \cup {None},
                        operation : Requests \cup {None}, closes : Requests \cup {None}]
  BY <1>1, <1>2 DEF NoEviction, Stages, LeaseType
<1>5. LeaseType' /\ \A q \in Requests : Shape(q)'
  BY <1>1, <1>2, <1>3, <1>4 DEF LeaseType
<1>6. Cut' /\ Operating' /\ OneOfEach'
  BY <1>1, <1>2, <1>3 DEF Cut, Operating, OneOfEach
<1>7. ClaimsInOrder'
  BY <1>1, <1>2, <1>3, <1>4 DEF ClaimsInOrder
<1>8. Evicting'
  <2>1. holder \in Conns /\ claims # << >> /\ Mine(Head(claims))' # holder
    BY <1>1, <1>2, <1>3 DEF LeaseType, First
  <2> QED BY <1>2, <1>4, <2>1 DEF Evicting
<1>9. Held' /\ Unpublished'
  BY <1>1, <1>2, <1>3 DEF Held, Unpublished
<1>10. Published' /\ Runtimes'
  BY <1>1, <1>2, <1>3 DEF Published, Runtimes
<1> QED BY <1>5, <1>6, <1>7, <1>8, <1>9, <1>10 DEF AcpInv

LEMMA EvictAbortsSafe ==
  ASSUME AcpInv, EvictAborts
  PROVE  AcpInv'
<1>1. /\ LeaseType /\ Cut /\ Operating /\ Evicting /\ (\A q \in Requests : Shape(q))
      /\ request \in [Requests -> RequestType]
  BY DEF AcpInv, LeaseType
<1>2. PICK o : o = Displaced(eviction.from)
  OBVIOUS
<1>3. /\ eviction.stage = "stopping" /\ eviction' = [eviction EXCEPT !.stage = "operation", !.operation = o]
      /\ request' = IF o = None THEN request ELSE [request EXCEPT ![o].aborted = TRUE]
      /\ UNCHANGED <<holder, claims, entry, operation, opening, deleting, borrowed, conn, permitted,
                     live, crossed>>
  BY <1>2 DEF EvictAborts
<1>4. eviction # NoEviction /\ eviction.from \in Conns
  BY <1>1, <1>3 DEF NoEviction, Evicting
<1>5. /\ operation[eviction.from] = None \/ ~request[operation[eviction.from]].claimed => o = None
      /\ o # None => o = operation[eviction.from] /\ request[o].claimed /\ o \in Requests
      /\ o \in Requests \cup {None}
  BY <1>1, <1>2, <1>4 DEF Displaced, LeaseType
<1>6. o # None => Busy(o) /\ Mine(o) = eviction.from
  BY <1>1, <1>4, <1>5 DEF Operating
<1>7. /\ request' \in [Requests -> RequestType]
      /\ \A q \in Requests :
           /\ request'[q].conn = request[q].conn /\ request'[q].method = request[q].method
           /\ request'[q].phase = request[q].phase /\ request'[q].open = request[q].open
           /\ request'[q].claimed = request[q].claimed /\ request'[q].borrowed = request[q].borrowed
           /\ request[q].aborted => request'[q].aborted
           /\ request[q].stopped => request'[q].stopped
           /\ q # o => request'[q] = request[q]
           /\ q = o => request'[q].aborted
  <2>1. CASE o = None
    <3>1. \A q \in Requests : q # o
      BY <2>1, AcpAssumption DEF Requests
    <3> QED BY <1>1, <1>3, <2>1, <3>1
  <2>2. CASE o # None
    <3>1. o \in Requests /\ request' = [request EXCEPT ![o].aborted = TRUE]
      BY <1>3, <1>5, <2>2
    <3>2. /\ request' \in [Requests -> RequestType]
          /\ request'[o].phase = request[o].phase /\ request'[o].conn = request[o].conn
          /\ request'[o].method = request[o].method /\ request'[o].open = request[o].open
          /\ request'[o].aborted /\ request'[o].stopped = request[o].stopped
          /\ request'[o].claimed = request[o].claimed /\ request'[o].borrowed = request[o].borrowed
          /\ \A q \in Requests : q # o => request'[q] = request[q]
      BY <1>1, <3>1, Changed
    <3> QED BY <3>2
  <2> QED BY <2>1, <2>2
<1>8. \A q \in Requests : request[q].conn = None => request'[q] = request[q]
  <2>1. ASSUME NEW q \in Requests, request[q].conn = None PROVE q # o
    <3>1. ASSUME q = o PROVE FALSE
      <4>1. o # None
        BY <3>1, AcpAssumption DEF Requests
      <4>2. request[q].conn = eviction.from
        BY <1>6, <3>1, <4>1 DEF Mine
      <4>3. None \notin Conns
        BY AcpAssumption
      <4> QED BY <1>4, <2>1, <4>2, <4>3
    <3> QED BY <3>1
  <2> QED BY <1>7, <2>1
<1>9. (\A q \in Requests : Told(q)) /\ \A q \in Requests : Busy(q)' = Busy(q) /\ Mine(q)' = Mine(q)
  BY <1>7, <1>8 DEF Busy, Mine, Told
<1>10. /\ eviction' # NoEviction /\ eviction'.stage = "operation" /\ eviction'.operation = o
       /\ eviction'.from = eviction.from
       /\ eviction' \in [stage : Stages, from : Conns \cup {None},
                         operation : Requests \cup {None}, closes : Requests \cup {None}]
  BY <1>1, <1>3, <1>5 DEF LeaseType, Stages, NoEviction
<1>11. LeaseType'
  BY <1>1, <1>3, <1>7, <1>10 DEF LeaseType
<1>12. Evicting'
  <2>1. \A q \in Requests :
          Busy(q) /\ request[q].claimed /\ q \notin crossed /\ Mine(q) = eviction.from => q = o
    <3>1. \A q \in Requests : Busy(q) /\ request[q].claimed /\ q \notin crossed => operation[Mine(q)] = q
      BY <1>1 DEF Shape, Operating
    <3>2. \A q \in Requests : q # None
      BY AcpAssumption DEF Requests
    <3> QED BY <1>2, <3>1, <3>2 DEF Displaced
  <2>2. claims # << >> => Mine(Head(claims))' = Mine(Head(claims))
    BY <1>3, <1>9, Here
  <2> QED BY <1>1, <1>3, <1>4, <1>7, <1>9, <1>10, <2>1, <2>2 DEF Evicting
<1>13. Cut'
  BY <1>1, <1>3, <1>7, <1>9 DEF Cut
<1>14. Quiet
  BY <1>4 DEF Quiet
<1>15. Kept /\ \A c \in Conns : entry'[c] = entry[c]
  BY <1>1, <1>3 DEF Kept, LeaseType
<1>16. UNCHANGED <<holder, claims, operation, opening, deleting, borrowed, live, crossed>>
  BY <1>3
<1> QED BY <1>9, <1>10, <1>11, <1>12, <1>13, <1>14, <1>15, <1>16, MarksOn

LEMMA EvictClosesSafe ==
  ASSUME AcpInv, EvictCloses
  PROVE  AcpInv'
<1>1. /\ LeaseType /\ Cut /\ Evicting /\ request \in [Requests -> RequestType]
  BY DEF AcpInv, LeaseType
<1>2. /\ eviction.stage = "operation" /\ (eviction.operation # None => Over(eviction.operation))
      /\ eviction' = [eviction EXCEPT !.stage = "closing",
           !.closes = IF entry[eviction.from] = None THEN None ELSE entry[eviction.from].by]
      /\ entry' = IF entry[eviction.from] = None THEN entry
                  ELSE [entry EXCEPT ![eviction.from] = Closing(@, FALSE)]
      /\ UNCHANGED <<holder, claims, request, operation, opening, deleting, borrowed, conn, permitted,
                     live, crossed>>
  BY DEF EvictCloses
<1>3. eviction # NoEviction /\ eviction.from \in Conns
  BY <1>1, <1>2 DEF NoEviction, Evicting
<1>4. \A q : Busy(q)' = Busy(q) /\ Mine(q)' = Mine(q)
  BY <1>2, SameRequests
<1>5. /\ eviction' # NoEviction /\ eviction'.stage = "closing" /\ eviction'.from = eviction.from
      /\ entry[eviction.from] # None => eviction'.closes = entry[eviction.from].by
      /\ eviction' \in [stage : Stages, from : Conns \cup {None},
                        operation : Requests \cup {None}, closes : Requests \cup {None}]
  <2>1. PICK b : b = IF entry[eviction.from] = None THEN None ELSE entry[eviction.from].by
    OBVIOUS
  <2>2. eviction' = [eviction EXCEPT !.stage = "closing", !.closes = b] /\ b \in Requests \cup {None}
    BY <1>2, <1>3, <2>1, Here
  <2> QED BY <1>1, <2>1, <2>2 DEF LeaseType, Stages, NoEviction
<1>6. Kept /\ \A c \in Conns : entry[c] # None => (entry'[c].releases => entry[c].releases)
  <2>1. CASE entry[eviction.from] = None
    BY <1>1, <1>2, <2>1 DEF LeaseType, Kept
  <2>2. CASE entry[eviction.from] # None
    <3>1. entry' = [entry EXCEPT ![eviction.from] = Closing(@, FALSE)]
      BY <1>2, <2>2
    <3>2. /\ entry' \in [Conns -> EntryType \cup {None}]
          /\ entry'[eviction.from] # None /\ entry'[eviction.from].by = entry[eviction.from].by
          /\ entry'[eviction.from].closing
          /\ entry'[eviction.from].releases = (entry[eviction.from].releases \/ FALSE)
          /\ \A d \in Conns : d # eviction.from => entry'[d] = entry[d]
      BY <1>1, <1>3, <2>2, <3>1, EntryCloses
    <3> QED BY <2>2, <3>2 DEF Kept
  <2> QED BY <2>1, <2>2
<1>7. LeaseType'
  BY <1>1, <1>2, <1>5, <1>6 DEF LeaseType, Kept
<1>8. Evicting'
  <2>1. \A q \in Requests : ~(Busy(q) /\ request[q].claimed /\ q \notin crossed /\ Mine(q) = eviction.from)
    <3>1. \A q \in Requests : q # None /\ (Over(q) => ~Busy(q))
      BY AcpAssumption DEF Requests, Over, Busy
    <3> QED BY <1>1, <1>2, <1>3, <3>1 DEF Evicting
  <2>2. entry'[eviction.from] # None => entry'[eviction.from].by = eviction'.closes
    BY <1>3, <1>5, <1>6 DEF Kept
  <2> QED BY <1>1, <1>2, <1>3, <1>4, <1>5, <2>1, <2>2 DEF Evicting
<1>9. Cut'
  BY <1>1, <1>2, <1>4 DEF Cut
<1>10. Quiet /\ \A q \in Requests : Told(q)
  BY <1>2, <1>3 DEF Quiet, Told
<1>11. UNCHANGED <<holder, claims, operation, opening, deleting, borrowed, live, crossed>>
  BY <1>2
<1> QED BY <1>5, <1>6, <1>7, <1>8, <1>9, <1>10, <1>11, MarksOn

-----------------------------------------------------------------------------
\* The specification

LEMMA AcpStarts == AcpInit => AcpInv
<1> SUFFICES ASSUME AcpInit PROVE AcpInv
  OBVIOUS
<1>1. /\ NoRequest \in RequestType /\ NoRequest.phase = "none" /\ NoRequest.open = "none"
      /\ ~NoRequest.borrowed /\ ~NoRequest.claimed /\ NoRequest.method = "none"
  BY DEF NoRequest, RequestType, Phases, Opens
<1>2. request \in [Requests -> RequestType] /\ \A r \in Requests : request[r] = NoRequest
  BY <1>1 DEF AcpInit
<1>3. \A r \in Requests : /\ ~Busy(r) /\ ~Opener(r) /\ ~Lends(r) /\ ~Deletes(r) /\ ~Relies(r)
                          /\ request[r].phase = "none" /\ request[r].open = "none"
  BY <1>1, <1>2 DEF Busy, Opener, Lends, Deletes, Relies
<1>4. /\ claims = << >> /\ eviction = NoEviction /\ holder = None /\ live = {}
      /\ \A c \in Conns : entry[c] = None /\ operation[c] = None
  BY DEF AcpInit
<1>5. LeaseType
  <2>1. claims \in Seq(Requests) /\ NoEviction \in [stage : Stages, from : Conns \cup {None},
                   operation : Requests \cup {None}, closes : Requests \cup {None}]
    BY <1>4 DEF NoEviction, Stages
  <2> QED BY <1>2, <1>4, <2>1 DEF LeaseType, AcpInit
<1>6. ASSUME NEW r \in Requests PROVE Shape(r)
  BY <1>1, <1>2, <1>3 DEF Shape
<1>7. Cut /\ Operating /\ OneOfEach
  BY <1>3, <1>4 DEF Cut, Operating, OneOfEach
<1>8. ClaimsInOrder /\ Evicting
  <2>1. DOMAIN claims = {}
    BY <1>4
  <2> QED BY <1>3, <1>4, <2>1 DEF ClaimsInOrder, Evicting
<1>9. Held /\ Unpublished
  BY <1>3, <1>4 DEF Held, Unpublished
<1>10. Published /\ Runtimes
  BY <1>3, <1>4 DEF Published, Runtimes
<1> QED BY <1>5, <1>6, <1>7, <1>8, <1>9, <1>10 DEF AcpInv

LEMMA AcpSteps ==
  ASSUME AcpInv, [AcpNext]_acpVars
  PROVE  AcpInv'
<1>1. CASE LeaseStep
  BY <1>1, ClaimCancelledSafe, ClaimLandsSafe, EvictBeginsSafe, EvictEndsSafe, EvictAbortsSafe,
     EvictClosesSafe DEF LeaseStep
<1>2. CASE Quiet /\ Client
  <2>1. ASSUME NEW r \in Requests, NEW c \in Conns,
               LoadStarts(r, c) \/ ForkStarts(r, c) \/ DeleteStarts(r, c) \/ CloseStarts(r, c)
        PROVE  AcpInv'
    BY <2>1, LoadStartsSafe, ForkStartsSafe, DeleteStartsSafe, CloseStartsSafe
  <2>2. ASSUME NEW r \in Requests, Cancels(r) PROVE AcpInv'
    BY <1>2, <2>2, CancelsSafe
  <2>3. ASSUME NEW c \in Conns, Disconnects(c) \/ Revokes(c) PROVE AcpInv'
    BY <1>2, <2>3, DisconnectsSafe, RevokesSafe
  <2> QED BY <1>2, <2>1, <2>2, <2>3 DEF Client, Asked
<1>3. ASSUME NEW r \in Requests, OpenStep(r) PROVE AcpInv'
  BY <1>3, BorrowStartsSafe, OptionsResolveSafe, RestoresSafe, PublishesSafe, UnwindsSafe,
     FlushesSafe, OpenFailsSafe DEF OpenStep
<1>4. ASSUME NEW r \in Requests, RequestStep(r) PROVE AcpInv'
  BY <1>4, ForkGoesOnSafe, ForkReturnsSafe, ForkEndsSafe, DeleteClosesSafe, DeleteEndsSafe,
     CloseAnswersSafe DEF RequestStep
<1>5. ASSUME NEW r \in Requests, OptionsFail(r) \/ RestoreFails(r) \/ EvictFails(r) PROVE AcpInv'
  BY <1>5, OptionsFailSafe, RestoreFailsSafe, EvictFailsSafe
<1>6. ASSUME NEW c \in Conns, CloseStep(c) \/ Permits(c) PROVE AcpInv'
  BY <1>6, CloseEndsSafe, ShutdownEndsSafe, PermitsSafe DEF CloseStep
<1>7. CASE UNCHANGED acpVars
  <2>1. LeaseType /\ conn' = conn /\ permitted' = permitted
    BY <1>7 DEF acpVars, AcpInv
  <2>2. conn' \in [Conns -> {"open", "stopping", "closed"}] /\ permitted' \subseteq Conns
    BY <2>1 DEF LeaseType
  <2> QED BY <1>7, <2>1, <2>2, ConnsOn DEF acpVars
<1> QED BY <1>1, <1>2, <1>3, <1>4, <1>5, <1>6, <1>7 DEF AcpNext

\* Every state of the lease, the registries and the requests in flight is one the
\* invariant describes, whatever clients ask without waiting for answers
\* (packages/acp/rpc/lease.ts, sessions.ts, open.ts).
THEOREM LeaseSafe == AcpSpec => []AcpInv
<1>1. AcpInv /\ [AcpNext]_acpVars => AcpInv'
  BY AcpSteps
<1> QED BY AcpStarts, <1>1, PTL DEF AcpSpec

\* A connection has one runtime.
LEMMA OneAtEach ==
  ASSUME AcpInv, NEW c \in Conns, NEW r \in Requests, NEW q \in Requests, RunsAt(r, c), RunsAt(q, c)
  PROVE  r = q
<1>1. OneOfEach /\ Unpublished
  BY DEF AcpInv
<1>2. \A p \in Requests : Mine(p) = c /\ request[p].open \in {"restoring", "readying", "unwinding"} =>
        Opener(p) /\ entry[c] = None
  BY <1>1 DEF Unpublished, Opener
<1> QED BY <1>1, <1>2 DEF RunsAt, OneOfEach

\* One that neither crossed nor was given up is the lease holder's.
LEMMA TheHolders ==
  ASSUME AcpInv, NEW r \in live, r \notin crossed, ~Abandoned(r)
  PROVE  r \in Requests /\ holder \in Conns /\ RunsAt(r, holder)
<1>1. /\ LeaseType /\ Held /\ Runtimes /\ r \in Requests /\ Shape(r) /\ request[r] \in RequestType
  BY DEF AcpInv, LeaseType
<1>2. CASE request[r].open \in {"restoring", "readying", "unwinding"}
  <2>1. Claimant(r) /\ request[r].conn \in Conns
    BY <1>1, <1>2 DEF Shape
  <2>2. request[r].phase = "opening"
    BY <1>1, <1>2, <2>1 DEF Shape, Abandoned, Claimant, RequestType, Phases
  <2>3. Relies(r)
    BY <1>2, <2>2 DEF Relies, Underway
  <2> QED BY <1>1, <1>2, <2>1, <2>3 DEF Held, RunsAt, Mine
<1>3. CASE \E c \in Conns : entry[c] # None /\ entry[c].by = r
  BY <1>1, <1>3 DEF Held, RunsAt
<1> QED BY <1>1, <1>2, <1>3 DEF Runtimes

LEMMA InvServesOne == AcpInv => OneServes
<1> SUFFICES ASSUME AcpInv PROVE OneServes
  OBVIOUS
<1>1. /\ LeaseType /\ ClaimsInOrder /\ Held /\ Published /\ Runtimes
  BY DEF AcpInv
<1>2. AcpTypeOK
  <2>1. holder \in Conns \cup {None} /\ eviction.from \in Conns \cup {None}
    BY <1>1 DEF LeaseType
  <2>2. \A i \in DOMAIN claims : claims[i] \in Requests
    BY <1>1 DEF LeaseType
  <2>3. \A r \in Requests : request[r].phase \in Phases /\ request[r].open \in Opens
    BY <1>1 DEF LeaseType, RequestType
  <2>4. \A c \in Conns : entry[c] # None => entry[c].by \in live
    BY <1>1 DEF Published
  <2>5. opening \cup deleting \cup borrowed \cup permitted \subseteq Conns
    BY <1>1 DEF LeaseType
  <2> QED BY <1>1, <2>1, <2>2, <2>3, <2>4, <2>5 DEF AcpTypeOK, ClaimsInOrder, Runtimes
<1>3. \A c \in Conns : \A r, q \in Requests : RunsAt(r, c) /\ RunsAt(q, c) => r = q
  BY OneAtEach
<1>4. \A r, q \in live : {r, q} \cap crossed = {} /\ ~Abandoned(r) /\ ~Abandoned(q) => r = q
  BY <1>3, TheHolders
<1>5. \A c \in Conns : entry[c] # None /\ entry[c].by \notin crossed => holder = c
  BY <1>1 DEF Held
<1> QED BY <1>2, <1>3, <1>4, <1>5 DEF OneServes

LEMMA InvDeletesAlone == AcpInv => DeletesAlone
<1> SUFFICES ASSUME AcpInv, NEW d \in Requests, request[d].phase = "removing"
             PROVE  /\ \A r \in Requests : ~RunsAt(r, Mine(d))
                    /\ Mine(d) \in deleting
                    /\ d \notin crossed =>
                         holder = Mine(d) /\ \A r \in live : Abandoned(r) \/ r \in crossed
  BY DEF DeletesAlone
<1>1. /\ OneOfEach /\ Held /\ Unpublished /\ Shape(d) /\ live \subseteq Requests
  BY DEF AcpInv, LeaseType
<1>2. Deletes(d) /\ Relies(d) /\ entry[Mine(d)] = None
  BY <1>1 DEF Shape, Busy, Unpublished, Deletes, Relies
<1>3. Mine(d) \in deleting
  BY <1>1, <1>2 DEF OneOfEach
<1>4. \A r \in Requests : ~RunsAt(r, Mine(d))
  <2>1. \A r \in Requests : Opener(r) => Mine(r) # Mine(d)
    BY <1>1, <1>3 DEF OneOfEach
  <2> QED BY <1>2, <2>1 DEF RunsAt, Opener
<1>5. d \notin crossed => holder = Mine(d)
  BY <1>1, <1>2 DEF Held
<1>6. d \notin crossed => \A r \in live : Abandoned(r) \/ r \in crossed
  BY <1>1, <1>4, <1>5, TheHolders
<1> QED BY <1>3, <1>4, <1>5, <1>6

\* The lease and the guards of the registries do what they are for, whatever clients ask
\* without waiting for answers: a connection has one runtime of a session; so has the
\* process, and it is the lease holder's, but for those that a fork gave up and those
\* whose request crossed another one of its connection that lets go of the lease
\* (packages/acp/rpc/lease.ts, sessions.ts).
THEOREM OneConnectionServes == AcpSpec => []OneServes
BY LeaseSafe, InvServesOne, PTL

\* session/delete removes a journal under no runtime of its own connection, and under no
\* other's that OneServes speaks of unless a close or a change of credentials crossed it
\* (packages/acp/rpc/sessions.ts).
THEOREM JournalsAreDeletedAlone == AcpSpec => []DeletesAlone
BY LeaseSafe, InvDeletesAlone, PTL

-----------------------------------------------------------------------------
\* Prompts and forks of an open session

\* The invariant holds of a session that opens.
LEMMA PromptStarts == Prompt!PromptInit => PromptInv
BY PromptAssumption
   DEF PromptInv, OneHolds, TurnsWithin, ForksInLine, ForksWait, Prompt!PromptInit, Prompt!PromptTypeOK,
       Prompt!NoPrompt, Prompt!NoFork, Prompt!PromptPhases, Prompt!Holding, Prompt!ForkPhases,
       Prompt!Turns, Prompt!Answers

\* What a prompt is.
PromptType == [phase : Prompt!PromptPhases, barrier : Forks \cup {Nobody}, export : BOOLEAN,
               dropped : BOOLEAN, aborted : BOOLEAN, answer : Prompt!Answers]

\* A step of one prompt: if it takes or leaves the session no fork is at it.
PromptMoves(p) ==
  /\ prompt' = [prompt EXCEPT ![p] = prompt'[p]] /\ prompt'[p] \in PromptType
  /\ UNCHANGED <<fork, forkTail>> /\ drops' \in 0..MaxDrops /\ session' \in {"open", "closing", "closed"}
  /\ turn' \in [Prompts -> Prompt!Turns]
  /\ \A o \in Prompts : o # p => turn'[o] = turn[o]
  /\ prompt'[p].phase \in Prompt!Holding <=> active' = p
  /\ active' = p => promptDone' = p
  /\ \/ active' = active
     \/ active = Nobody /\ active' = p
     \/ active = p /\ active' = Nobody
  /\ active # p => active' = p \/ promptDone' = promptDone
  /\ promptDone' \in Prompts \cup {Nobody}
  /\ active' = p /\ active # p => \A f \in Forks : fork[f].phase \notin {"waiting", "working"}
  /\ prompt'[p].phase \in {"none", "quiet", "exporting", "reading"} => turn'[p] = "none"
  /\ prompt'[p].phase \in {"flushing", "over"} => turn'[p] \notin {"posted", "running"}
  /\ prompt'[p].aborted => \/ prompt'[p].phase \in Prompt!Holding
                           \/ prompt'[p].phase = "over" /\ prompt'[p].answer = "cancelled"

\* It keeps the invariant.
LEMMA OnePromptMoves ==
  ASSUME PromptInv, NEW p \in Prompts, PromptMoves(p)
  PROVE  PromptInv'
<1>1. Prompt!PromptTypeOK'
  BY PromptAssumption DEF PromptMoves, PromptInv, Prompt!PromptTypeOK, PromptType
<1>2. \A o \in Prompts : o # p => prompt'[o] = prompt[o]
  BY DEF PromptMoves, PromptInv, Prompt!PromptTypeOK
<1>3. OneHolds'
  BY <1>2, PromptAssumption DEF PromptMoves, PromptInv, OneHolds
<1>4. TurnsWithin'
  BY <1>2 DEF PromptMoves, PromptInv, TurnsWithin
<1>5. ForksInLine'
  BY DEF PromptMoves, PromptInv, ForksInLine
<1>6. ForksWait'
  BY PromptAssumption DEF PromptMoves, PromptInv, ForksWait
<1> QED BY <1>1, <1>3, <1>4, <1>5, <1>6 DEF PromptInv

\* Nothing of a fork is under way once the last one is over.
LEMMA QuietForks ==
  ASSUME PromptInv, Prompt!ForkOver(forkTail)
  PROVE  \A f \in Forks : fork[f].phase \in {"none", "over"}
<1> SUFFICES ASSUME NEW f \in Forks, fork[f].phase # "none" PROVE fork[f].phase = "over"
  OBVIOUS
<1>1. forkTail \in Forks /\ fork[forkTail].phase = "over" /\ f <= forkTail
  BY DEF PromptInv, ForksInLine, Prompt!ForkOver, Prompt!PromptTypeOK
<1>2. f = forkTail \/ f < forkTail
  BY <1>1, PromptAssumption
<1> QED BY <1>1, <1>2 DEF PromptInv, ForksInLine

\* A handler that ends lets go of the session and leaves no turn.
LEMMA PromptAnswers ==
  ASSUME PromptInv, NEW p \in Prompts, NEW answer \in Prompt!Answers,
         prompt[p].phase # "over",
         prompt' = Prompt!Answered(p, answer), active' = Prompt!Freed(p),
         prompt[p].phase \in Prompt!Holding /\ prompt[p].aborted => answer = "cancelled",
         turn[p] \notin {"posted", "running"},
         UNCHANGED <<promptDone, fork, forkTail, turn, session, drops>>
  PROVE  PromptInv'
<1> DEFINE q == [Prompt!NoPrompt EXCEPT !.phase = "over", !.answer = answer,
                                        !.aborted = prompt[p].aborted]
<1>1. prompt[p] \in PromptType /\ prompt \in [Prompts -> PromptType] /\ active \in Prompts \cup {Nobody}
      /\ promptDone \in Prompts \cup {Nobody} /\ turn \in [Prompts -> Prompt!Turns] /\ drops \in 0..MaxDrops
      /\ session \in {"open", "closing", "closed"}
  BY DEF PromptInv, Prompt!PromptTypeOK, PromptType
<1>2. q \in PromptType
  BY <1>1 DEF Prompt!NoPrompt, PromptType, Prompt!PromptPhases
<1>3. q.phase = "over" /\ q.answer = answer /\ q.aborted = prompt[p].aborted
  BY DEF Prompt!NoPrompt
<1>4. prompt' = [prompt EXCEPT ![p] = prompt'[p]] /\ prompt'[p] = q
  BY <1>1 DEF Prompt!Answered
<1> HIDE DEF q
<1>5. prompt[p].phase \in Prompt!Holding <=> active = p
  BY DEF PromptInv, OneHolds
<1>6. (active = p => active' = Nobody) /\ (active # p => active' = active)
  BY <1>5 DEF Prompt!Freed
<1>7. q.phase \notin Prompt!Holding /\ p # Nobody
  BY <1>3, PromptAssumption DEF Prompt!Holding
<1>8. q.aborted => q.answer = "cancelled"
  BY <1>3 DEF PromptInv, TurnsWithin
<1>9. PromptMoves(p)
  BY <1>1, <1>2, <1>3, <1>4, <1>5, <1>6, <1>7, <1>8 DEF PromptMoves
<1> QED BY <1>9, OnePromptMoves

\* A prompt that goes on.
LEMMA PromptGoesOn ==
  ASSUME PromptInv, NEW p \in Prompts, NEW phase \in Prompt!PromptPhases,
         prompt' = [prompt EXCEPT ![p].phase = phase],
         phase \in Prompt!Holding <=> prompt[p].phase \in Prompt!Holding,
         phase # "over", prompt[p].phase # "over", turn' \in [Prompts -> Prompt!Turns],
         \A o \in Prompts : o # p => turn'[o] = turn[o],
         phase \in {"none", "quiet", "exporting", "reading"} => turn'[p] = "none",
         phase = "flushing" => turn'[p] \notin {"posted", "running"},
         UNCHANGED <<active, promptDone, fork, forkTail, session, drops>>
  PROVE  PromptInv'
<1> DEFINE q == [prompt[p] EXCEPT !.phase = phase]
<1>1. prompt[p] \in PromptType /\ prompt \in [Prompts -> PromptType] /\ active \in Prompts \cup {Nobody}
      /\ promptDone \in Prompts \cup {Nobody} /\ drops \in 0..MaxDrops
      /\ session \in {"open", "closing", "closed"}
  BY DEF PromptInv, Prompt!PromptTypeOK, PromptType
<1>2. q \in PromptType /\ q.phase = phase /\ q.aborted = prompt[p].aborted
  BY <1>1 DEF PromptType
<1>3. prompt' = [prompt EXCEPT ![p] = prompt'[p]] /\ prompt'[p] = q
  BY <1>1
<1> HIDE DEF q
<1>4. (prompt[p].phase \in Prompt!Holding <=> active = p) /\ (active = p => promptDone = p)
  BY PromptAssumption DEF PromptInv, OneHolds
<1>5. prompt[p].aborted => prompt[p].phase \in Prompt!Holding
  BY DEF PromptInv, TurnsWithin
<1>6. PromptMoves(p)
  BY <1>1, <1>2, <1>3, <1>4, <1>5, PromptAssumption DEF PromptMoves
<1> QED BY <1>6, OnePromptMoves

\* The steps of a prompt.
LEMMA PromptStepsSafe ==
  ASSUME PromptInv, NEW p \in Prompts, Prompt!PromptSteps(p)
  PROVE  PromptInv'
<1>1. /\ prompt[p] \in PromptType /\ prompt \in [Prompts -> PromptType]
      /\ active \in Prompts \cup {Nobody} /\ turn \in [Prompts -> Prompt!Turns]
      /\ promptDone \in Prompts \cup {Nobody} /\ forkTail \in Forks \cup {Nobody} /\ drops \in 0..MaxDrops
      /\ session \in {"open", "closing", "closed"}
  BY DEF PromptInv, Prompt!PromptTypeOK, PromptType
<1>2. /\ prompt[p].phase \in {"none", "quiet", "exporting", "reading"} => turn[p] = "none"
      /\ prompt[p].phase \in {"flushing", "over"} => turn[p] \notin {"posted", "running"}
      /\ prompt[p].phase \in Prompt!Holding <=> active = p
      /\ prompt[p].aborted => prompt[p].phase \in Prompt!Holding \cup {"over"}
  BY DEF PromptInv, TurnsWithin, OneHolds
<1>3. ASSUME NEW answer \in Prompt!Answers, Prompt!Ends(p, answer), prompt[p].phase # "over",
             turn[p] \notin {"posted", "running"},
             UNCHANGED <<promptDone, fork, forkTail, turn, session, drops>>
      PROVE  PromptInv'
  <2> DEFINE said == IF prompt[p].phase \in Prompt!Holding /\ Prompt!Stopped(p)
                       THEN "cancelled" ELSE answer
  <2>1. said \in Prompt!Answers /\ (prompt[p].phase \in Prompt!Holding /\ prompt[p].aborted => said = "cancelled")
    BY DEF Prompt!Answers, Prompt!Stopped
  <2>2. prompt' = Prompt!Answered(p, said) /\ active' = Prompt!Freed(p)
    BY <1>3 DEF Prompt!Ends
  <2> HIDE DEF said
  <2> QED BY <1>3, <2>1, <2>2, PromptAnswers
<1>4. CASE Prompt!WaitsAgain(p)
  <2> DEFINE q == [prompt[p] EXCEPT !.barrier = forkTail]
  <2>1. q \in PromptType /\ q.phase = prompt[p].phase /\ q.aborted = prompt[p].aborted
    BY <1>1 DEF PromptType
  <2>2. prompt' = [prompt EXCEPT ![p] = prompt'[p]] /\ prompt'[p] = q /\ UNCHANGED <<active, promptDone, fork, forkTail, turn, session, drops>>
        /\ prompt[p].phase = "quiet"
    BY <1>1, <1>4 DEF Prompt!WaitsAgain
  <2> HIDE DEF q
  <2>3. "quiet" \notin Prompt!Holding
    BY DEF Prompt!Holding
  <2>4. PromptMoves(p)
    BY <1>1, <1>2, <2>1, <2>2, <2>3, PromptAssumption DEF PromptMoves
  <2> QED BY <2>4, OnePromptMoves
<1>5. CASE Prompt!QuietRefused(p)
  BY <1>2, <1>3, <1>5 DEF Prompt!QuietRefused, Prompt!Quiet, Prompt!Answers
<1>6. CASE Prompt!StartsExport(p)
  BY <1>1, <1>2, <1>6, PromptGoesOn DEF Prompt!StartsExport, Prompt!Quiet, Prompt!Holding, Prompt!PromptPhases
<1>7. CASE Prompt!StartsPrompt(p)
  <2> DEFINE q == [prompt[p] EXCEPT !.phase = "reading"]
  <2>1. q \in PromptType /\ q.phase = "reading" /\ q.aborted = prompt[p].aborted
    BY <1>1 DEF PromptType, Prompt!PromptPhases
  <2>2. /\ prompt' = [prompt EXCEPT ![p] = prompt'[p]] /\ prompt'[p] = q /\ UNCHANGED <<fork, forkTail, turn, session, drops>>
        /\ active' = p /\ promptDone' = p /\ active = Nobody /\ prompt[p].phase = "quiet"
        /\ Prompt!ForkOver(forkTail)
    BY <1>1, <1>7 DEF Prompt!StartsPrompt, Prompt!Quiet, Prompt!Refused
  <2> HIDE DEF q
  <2>3. "reading" \in Prompt!Holding
    BY DEF Prompt!Holding
  <2>4. \A f \in Forks : fork[f].phase \notin {"waiting", "working"}
    BY <2>2, QuietForks
  <2>5. PromptMoves(p)
    BY <1>1, <1>2, <2>1, <2>2, <2>3, <2>4, PromptAssumption DEF PromptMoves
  <2> QED BY <2>5, OnePromptMoves
<1>8. CASE Prompt!GivesUpWaiting(p)
  BY <1>2, <1>3, <1>8 DEF Prompt!GivesUpWaiting, Prompt!Answers
<1>9. ASSUME NEW answer \in {"ended", "error"}, Prompt!ExportEnds(p, answer) PROVE PromptInv'
  BY <1>2, <1>3, <1>9 DEF Prompt!ExportEnds, Prompt!Answers
<1>10. CASE Prompt!ReadingFails(p)
  BY <1>2, <1>3, <1>10 DEF Prompt!ReadingFails, Prompt!Answers
<1>11. CASE Prompt!Admits(p)
  <2>1. turn' \in [Prompts -> Prompt!Turns] /\ \A o \in Prompts : o # p => turn'[o] = turn[o]
    BY <1>1, <1>11 DEF Prompt!Admits, Prompt!Turns
  <2> QED BY <1>11, <2>1, PromptGoesOn DEF Prompt!Admits, Prompt!Holding, Prompt!PromptPhases
<1>12. CASE Prompt!HearsAdmission(p)
  <2>1. CASE turn[p] \in {"running", "stopped", "ended"}
    BY <1>1, <1>12, <2>1, PromptGoesOn DEF Prompt!HearsAdmission, Prompt!Holding, Prompt!PromptPhases
  <2>2. CASE turn[p] \notin {"running", "stopped", "ended"}
    BY <1>3, <1>12, <2>2 DEF Prompt!HearsAdmission, Prompt!Hears, Prompt!Answers
  <2> QED BY <2>1, <2>2
<1>13. CASE Prompt!HearsEnd(p)
  BY <1>1, <1>13, PromptGoesOn DEF Prompt!HearsEnd, Prompt!Holding, Prompt!PromptPhases
<1>14. CASE Prompt!PromptEnds(p)
  <2>1. Prompt!Outcome(p) \in Prompt!Answers /\ (prompt[p].aborted => Prompt!Outcome(p) = "cancelled")
    BY DEF Prompt!Outcome, Prompt!Answers
  <2> QED BY <1>2, <1>14, <2>1, PromptAnswers DEF Prompt!PromptEnds
<1> QED BY <1>4, <1>5, <1>6, <1>7, <1>8, <1>9, <1>10, <1>11, <1>12, <1>13, <1>14 DEF Prompt!PromptSteps

\* The runtime's steps.
LEMMA TurnStepsSafe ==
  ASSUME PromptInv, NEW p \in Prompts, Prompt!TurnSteps(p)
  PROVE  PromptInv'
<1>1. /\ turn[p] \in {"posted", "running"} /\ turn' = [turn EXCEPT ![p] = turn'[p]] /\ turn'[p] \in Prompt!Turns
      /\ UNCHANGED <<prompt, active, promptDone, fork, forkTail, session, drops>>
  <2>1. turn \in [Prompts -> Prompt!Turns]
    BY DEF PromptInv, Prompt!PromptTypeOK
  <2> QED BY <2>1 DEF Prompt!TurnSteps, Prompt!TurnStarts, Prompt!TurnFails, Prompt!TurnEnds,
                      Prompt!TurnStops, Prompt!Turn, Prompt!Turns
<1>2. /\ prompt[p].phase \notin {"none", "quiet", "exporting", "reading", "flushing", "over"}
      /\ \A o \in Prompts : o # p => turn'[o] = turn[o]
  BY <1>1 DEF PromptInv, TurnsWithin, Prompt!PromptTypeOK
<1>3. Prompt!PromptTypeOK'
  BY <1>1 DEF PromptInv, Prompt!PromptTypeOK
<1>4. OneHolds' /\ ForksInLine' /\ ForksWait'
  BY <1>1 DEF PromptInv, OneHolds, ForksInLine, ForksWait
<1>5. TurnsWithin'
  BY <1>1, <1>2 DEF PromptInv, TurnsWithin
<1> QED BY <1>3, <1>4, <1>5 DEF PromptInv

\* A prompt arrives.
LEMMA PromptArrivesSafe ==
  ASSUME PromptInv, NEW p \in Prompts, NEW export \in BOOLEAN, Prompt!PromptArrives(p, export)
  PROVE  PromptInv'
<1>1. /\ prompt[p] \in PromptType /\ prompt \in [Prompts -> PromptType]
      /\ active \in Prompts \cup {Nobody} /\ turn \in [Prompts -> Prompt!Turns]
      /\ promptDone \in Prompts \cup {Nobody} /\ forkTail \in Forks \cup {Nobody} /\ drops \in 0..MaxDrops
      /\ session \in {"open", "closing", "closed"}
  BY DEF PromptInv, Prompt!PromptTypeOK, PromptType
<1>2. prompt[p].phase = "none" /\ turn[p] = "none" /\ active # p /\ ~prompt[p].aborted
  BY DEF PromptInv, TurnsWithin, OneHolds, Prompt!PromptArrives, Prompt!Holding
<1>3. UNCHANGED <<active, promptDone, fork, forkTail, turn, session, drops>>
  BY DEF Prompt!PromptArrives, Prompt!Announced
<1>4. CASE active = Nobody
  <2> DEFINE q == [prompt[p] EXCEPT !.phase = "quiet", !.barrier = forkTail, !.export = export]
  <2>1. q \in PromptType /\ q.phase = "quiet" /\ ~q.aborted
    BY <1>1, <1>2 DEF PromptType, Prompt!PromptPhases
  <2>2. prompt' = [prompt EXCEPT ![p] = prompt'[p]] /\ prompt'[p] = q
    BY <1>1, <1>4 DEF Prompt!PromptArrives
  <2> HIDE DEF q
  <2>3. PromptMoves(p)
    BY <1>1, <1>2, <1>3, <2>1, <2>2 DEF PromptMoves, Prompt!Holding
  <2> QED BY <2>3, OnePromptMoves
<1>5. CASE active # Nobody
  <2>1. prompt' = Prompt!Answered(p, "error") /\ active' = Prompt!Freed(p)
    BY <1>2, <1>3, <1>5 DEF Prompt!PromptArrives, Prompt!Freed, Prompt!Holding
  <2> QED BY <1>2, <1>3, <2>1, PromptAnswers DEF Prompt!Answers
<1> QED BY <1>4, <1>5

\* The flags of a prompt that is under way.
LEMMA FlagsSafe ==
  ASSUME PromptInv, NEW p \in Prompts, NEW dropped \in BOOLEAN, NEW aborted \in BOOLEAN,
         prompt' = [prompt EXCEPT ![p].dropped = dropped, ![p].aborted = aborted],
         aborted => prompt[p].aborted \/ prompt[p].phase \in Prompt!Holding,
         UNCHANGED <<active, promptDone, fork, forkTail, turn>>, drops' \in 0..MaxDrops,
         session' \in {"open", "closing", "closed"}
  PROVE  PromptInv'
<1> DEFINE q == [prompt[p] EXCEPT !.dropped = dropped, !.aborted = aborted]
<1>1. /\ prompt[p] \in PromptType /\ prompt \in [Prompts -> PromptType]
      /\ active \in Prompts \cup {Nobody} /\ turn \in [Prompts -> Prompt!Turns]
      /\ promptDone \in Prompts \cup {Nobody}
  BY DEF PromptInv, Prompt!PromptTypeOK, PromptType
<1>2. /\ q \in PromptType /\ q.phase = prompt[p].phase /\ q.aborted = aborted
      /\ q.answer = prompt[p].answer
  BY <1>1 DEF PromptType
<1>3. prompt' = [prompt EXCEPT ![p] = prompt'[p]] /\ prompt'[p] = q
  BY <1>1
<1> HIDE DEF q
<1>4. /\ prompt[p].phase \in Prompt!Holding <=> active = p
      /\ active = p => promptDone = p
      /\ prompt[p].phase \in {"none", "quiet", "exporting", "reading"} => turn[p] = "none"
      /\ prompt[p].phase \in {"flushing", "over"} => turn[p] \notin {"posted", "running"}
      /\ prompt[p].aborted => \/ prompt[p].phase \in Prompt!Holding
                              \/ prompt[p].phase = "over" /\ prompt[p].answer = "cancelled"
  BY PromptAssumption DEF PromptInv, TurnsWithin, OneHolds
<1>5. PromptMoves(p)
  BY <1>1, <1>2, <1>3, <1>4 DEF PromptMoves
<1> QED BY <1>5, OnePromptMoves

\* Cancellations, the close of the session and the end of its runtime.
LEMMA PromptCancelsSafe ==
  ASSUME PromptInv,
         Prompt!CancelSession \/ Prompt!CloseSession \/ Prompt!Closed \/ (\E p \in Prompts : Prompt!CancelPrompt(p))
  PROVE  PromptInv'
<1>1. /\ prompt \in [Prompts -> PromptType] /\ active \in Prompts \cup {Nobody} /\ drops \in 0..MaxDrops
      /\ session \in {"open", "closing", "closed"} /\ (active # Nobody => prompt[active].phase \in Prompt!Holding)
  BY DEF PromptInv, Prompt!PromptTypeOK, PromptType, OneHolds
<1>2. ASSUME active # Nobody, prompt' = Prompt!Aborts(active), session' \in {"open", "closing", "closed"},
             UNCHANGED <<active, promptDone, fork, forkTail, turn, drops>>
      PROVE  PromptInv'
  <2>1. active \in Prompts /\ prompt[active] \in PromptType
    BY <1>1, <1>2
  <2>2. prompt' = [prompt EXCEPT ![active].dropped = prompt[active].dropped, ![active].aborted = TRUE]
    BY <1>1, <1>2, <2>1 DEF Prompt!Aborts, PromptType
  <2>3. prompt[active].dropped \in BOOLEAN
    BY <2>1 DEF PromptType
  <2> QED BY <1>1, <1>2, <2>1, <2>2, <2>3, FlagsSafe
<1>3. ASSUME UNCHANGED <<prompt, active, promptDone, fork, forkTail, turn, drops>>,
             session' \in {"open", "closing", "closed"}
      PROVE  PromptInv'
  BY <1>3 DEF PromptInv, Prompt!PromptTypeOK, OneHolds, TurnsWithin, ForksInLine, ForksWait
<1>4. CASE Prompt!CancelSession
  BY <1>1, <1>2, <1>4 DEF Prompt!CancelSession
<1>5. CASE Prompt!CloseSession
  BY <1>2, <1>3, <1>5 DEF Prompt!CloseSession
<1>6. CASE Prompt!Closed
  BY <1>3, <1>6 DEF Prompt!Closed
<1>7. ASSUME NEW p \in Prompts, Prompt!CancelPrompt(p) PROVE PromptInv'
  <2> DEFINE aborted == prompt[p].aborted \/ prompt[p].phase \in Prompt!Holding
  <2>1. prompt[p] \in PromptType /\ prompt[p].aborted \in BOOLEAN
    BY <1>1 DEF PromptType
  <2>2. prompt' = [prompt EXCEPT ![p].dropped = TRUE, ![p].aborted = aborted]
    BY <1>1, <1>7, <2>1 DEF Prompt!CancelPrompt, PromptType
  <2>3. aborted \in BOOLEAN /\ (aborted => prompt[p].aborted \/ prompt[p].phase \in Prompt!Holding)
    BY <2>1
  <2>4. drops' \in 0..MaxDrops
    BY <1>1, <1>7, PromptAssumption DEF Prompt!CancelPrompt
  <2> HIDE DEF aborted
  <2> QED BY <1>1, <1>7, <2>2, <2>3, <2>4, FlagsSafe DEF Prompt!CancelPrompt
<1> QED BY <1>4, <1>5, <1>6, <1>7

\* One fork goes on: behind the forks before it, and beside the prompt that has the
\* session.
ForkType == [phase : Prompt!ForkPhases, after : Forks \cup {Nobody},
             until : Prompts \cup {Nobody}, dropped : BOOLEAN]

ForkMoves(f) ==
  /\ fork' = [fork EXCEPT ![f] = fork'[f]] /\ fork'[f] \in ForkType
  /\ UNCHANGED <<prompt, active, promptDone, forkTail, turn, session>> /\ drops' \in 0..MaxDrops
  /\ fork[f].phase \notin {"none", "over"} /\ fork'[f].phase # "none"
  /\ fork'[f].phase = "queued" => fork[f].phase = "queued" /\ fork'[f].after = fork[f].after
  /\ fork'[f].phase # "queued" /\ fork[f].phase = "queued" => Prompt!ForkOver(fork[f].after)
  /\ fork'[f].phase = "waiting" => active \in {fork'[f].until, Nobody}
  /\ fork'[f].phase = "working" => active = Nobody

LEMMA OneForkMoves ==
  ASSUME PromptInv, NEW f \in Forks, ForkMoves(f)
  PROVE  PromptInv'
<1>1. /\ fork \in [Forks -> ForkType] /\ forkTail \in Forks \cup {Nobody}
      /\ \A g \in Forks : g # f => fork'[g] = fork[g]
  BY DEF ForkMoves, PromptInv, Prompt!PromptTypeOK, ForkType
<1>2. Prompt!PromptTypeOK'
  BY DEF ForkMoves, PromptInv, Prompt!PromptTypeOK, ForkType
<1>3. OneHolds' /\ TurnsWithin'
  BY DEF ForkMoves, PromptInv, OneHolds, TurnsWithin
<1>4. ForksWait'
  BY <1>1 DEF ForkMoves, PromptInv, ForksWait
<1>5. ForksInLine'
  <2>1. fork[f].phase # "none" /\ fork'[f].phase # "none"
    BY DEF ForkMoves
  <2>2. forkTail' # Nobody => fork'[forkTail'].phase # "none"
    BY <1>1, <2>1 DEF ForkMoves, PromptInv, ForksInLine
  <2>3. \A g \in Forks : fork'[g].phase # "none" => forkTail' # Nobody /\ g <= forkTail'
    BY <1>1, <2>1 DEF ForkMoves, PromptInv, ForksInLine
  <2>4. ASSUME NEW g \in Forks, NEW h \in Forks, h < g, fork'[g].phase # "none"
        PROVE  /\ fork'[h].phase # "none"
               /\ fork'[g].phase # "queued" => fork'[h].phase = "over"
               /\ fork'[g].phase = "queued" => fork'[g].after # Nobody /\ h <= fork'[g].after
    <3>1. fork[g].phase # "none" /\ fork[h].phase # "none" /\ g # h
      BY <1>1, <2>1, <2>4, PromptAssumption DEF PromptInv, ForksInLine
    <3>2. CASE g = f
      <4>1. fork'[h] = fork[h]
        BY <1>1, <3>1, <3>2
      <4>2. CASE fork'[f].phase = "queued"
        BY <2>4, <3>1, <3>2, <4>1, <4>2 DEF ForkMoves, PromptInv, ForksInLine
      <4>3. CASE fork'[f].phase # "queued" /\ fork[f].phase # "queued"
        BY <2>4, <3>1, <3>2, <4>1, <4>3 DEF PromptInv, ForksInLine
      <4>4. CASE fork'[f].phase # "queued" /\ fork[f].phase = "queued"
        <5>1. fork[f].after # Nobody /\ h <= fork[f].after /\ Prompt!ForkOver(fork[f].after)
          BY <2>4, <3>1, <3>2, <4>4 DEF ForkMoves, PromptInv, ForksInLine
        <5>2. fork[f].after \in Forks /\ fork[fork[f].after].phase = "over"
          BY <1>1, <5>1 DEF Prompt!ForkOver, ForkType
        <5>3. fork[h].phase = "over"
          BY <3>1, <5>1, <5>2, PromptAssumption DEF PromptInv, ForksInLine
        <5> QED BY <3>2, <4>1, <4>4, <5>3
      <4> QED BY <4>2, <4>3, <4>4
    <3>3. CASE g # f
      <4>1. fork'[g] = fork[g]
        BY <1>1, <3>3
      <4>2. fork[g].phase # "queued" => h # f
        BY <2>4, <3>1 DEF ForkMoves, PromptInv, ForksInLine
      <4> QED BY <1>1, <2>1, <2>4, <3>1, <4>1, <4>2 DEF PromptInv, ForksInLine
    <3> QED BY <3>2, <3>3
  <2>5. \A g \in Forks : fork'[g].phase = "queued" /\ fork'[g].after # Nobody => fork'[g].after < g
    BY <1>1 DEF ForkMoves, PromptInv, ForksInLine
  <2> QED BY <2>2, <2>3, <2>4, <2>5 DEF ForksInLine
<1> QED BY <1>2, <1>3, <1>4, <1>5 DEF PromptInv

\* The steps of a fork, and its cancellation.
LEMMA ForkStepsSafe ==
  ASSUME PromptInv, NEW f \in Forks, Prompt!ForkSteps(f) \/ Prompt!CancelFork(f)
  PROVE  PromptInv'
<1>1. /\ fork \in [Forks -> ForkType] /\ fork[f] \in ForkType /\ promptDone \in Prompts \cup {Nobody}
      /\ active \in Prompts \cup {Nobody} /\ drops \in 0..MaxDrops
  BY DEF PromptInv, Prompt!PromptTypeOK, ForkType
<1>2. ASSUME NEW g \in ForkType, fork' = [fork EXCEPT ![f] = g] PROVE fork' = [fork EXCEPT ![f] = fork'[f]] /\ fork'[f] = g
  BY <1>1, <1>2
<1> DEFINE over == [Prompt!NoFork EXCEPT !.phase = "over"]
<1>4. over \in ForkType /\ over.phase = "over"
  BY DEF Prompt!NoFork, ForkType, Prompt!ForkPhases
<1>5. Prompt!ForkAnswered(f) = [fork EXCEPT ![f] = over]
  BY DEF Prompt!ForkAnswered
<1> HIDE DEF over
<1>6. ASSUME NEW phase \in Prompt!ForkPhases, NEW until \in Prompts \cup {Nobody}, NEW dropped \in BOOLEAN
      PROVE  LET g == [fork[f] EXCEPT !.phase = phase, !.until = until, !.dropped = dropped] IN
               /\ g \in ForkType /\ g.phase = phase /\ g.until = until /\ g.after = fork[f].after
  BY <1>1 DEF ForkType
<1>7. CASE Prompt!ForkWaits(f)
  <2>1. /\ fork[f].phase = "queued" /\ Prompt!ForkOver(fork[f].after)
        /\ UNCHANGED <<prompt, active, promptDone, forkTail, turn, session, drops>>
    BY <1>7 DEF Prompt!ForkWaits
  <2>2. CASE fork' = Prompt!ForkAnswered(f)
    BY <1>1, <1>2, <1>4, <1>5, <2>1, <2>2, OneForkMoves DEF ForkMoves
  <2>3. CASE fork' = [fork EXCEPT ![f].phase = "waiting", ![f].until = promptDone]
    <3> DEFINE g == [fork[f] EXCEPT !.phase = "waiting", !.until = promptDone]
    <3>1. g \in ForkType /\ g.phase = "waiting" /\ g.until = promptDone
      BY <1>1 DEF ForkType, Prompt!ForkPhases
    <3>2. fork' = [fork EXCEPT ![f] = g]
      BY <1>1, <2>3
    <3> HIDE DEF g
    <3>3. active \in {promptDone, Nobody}
      BY DEF PromptInv, OneHolds
    <3> QED BY <1>1, <1>2, <2>1, <3>1, <3>2, <3>3, OneForkMoves DEF ForkMoves
  <2> QED BY <1>7, <2>2, <2>3 DEF Prompt!ForkWaits
<1>8. CASE Prompt!ForkWorks(f)
  <2>1. /\ fork[f].phase = "waiting" /\ Prompt!PromptOver(fork[f].until)
        /\ UNCHANGED <<prompt, active, promptDone, forkTail, turn, session, drops>>
    BY <1>8 DEF Prompt!ForkWorks
  <2>2. CASE fork' = Prompt!ForkAnswered(f)
    BY <1>1, <1>2, <1>4, <1>5, <2>1, <2>2, OneForkMoves DEF ForkMoves
  <2>3. CASE fork' = [fork EXCEPT ![f].phase = "working"]
    <3> DEFINE g == [fork[f] EXCEPT !.phase = "working"]
    <3>1. g \in ForkType /\ g.phase = "working"
      BY <1>1 DEF ForkType, Prompt!ForkPhases
    <3>2. fork' = [fork EXCEPT ![f] = g]
      BY <1>1, <2>3
    <3> HIDE DEF g
    <3>3. active = Nobody
      BY <1>1, <2>1 DEF PromptInv, ForksWait, OneHolds, Prompt!PromptOver, Prompt!Holding
    <3> QED BY <1>1, <1>2, <2>1, <3>1, <3>2, <3>3, OneForkMoves DEF ForkMoves
  <2> QED BY <1>8, <2>2, <2>3 DEF Prompt!ForkWorks
<1>9. CASE Prompt!ForkEnds(f)
  BY <1>1, <1>2, <1>4, <1>5, <1>9, OneForkMoves DEF ForkMoves, Prompt!ForkEnds
<1>10. CASE Prompt!CancelFork(f)
  <2>1. /\ fork[f].phase \notin {"none", "over"} /\ drops' \in 0..MaxDrops
        /\ UNCHANGED <<prompt, active, promptDone, forkTail, turn, session>>
    BY <1>1, <1>10, PromptAssumption DEF Prompt!CancelFork
  <2>2. CASE fork[f].phase = "waiting" /\ fork' = Prompt!ForkAnswered(f)
    BY <1>1, <1>2, <1>4, <1>5, <2>1, <2>2, OneForkMoves DEF ForkMoves
  <2>3. CASE fork' = [fork EXCEPT ![f].dropped = TRUE]
    <3> DEFINE g == [fork[f] EXCEPT !.dropped = TRUE]
    <3>1. g \in ForkType /\ g.phase = fork[f].phase /\ g.until = fork[f].until /\ g.after = fork[f].after
      BY <1>1 DEF ForkType
    <3>2. fork' = [fork EXCEPT ![f] = g]
      BY <1>1, <2>3
    <3> HIDE DEF g
    <3>3. /\ fork[f].phase = "waiting" => active \in {fork[f].until, Nobody}
          /\ fork[f].phase = "working" => active = Nobody
      BY DEF PromptInv, ForksWait
    <3> QED BY <1>1, <1>2, <2>1, <3>1, <3>2, <3>3, OneForkMoves DEF ForkMoves
  <2> QED BY <1>10, <2>2, <2>3 DEF Prompt!CancelFork
<1> QED BY <1>7, <1>8, <1>9, <1>10 DEF Prompt!ForkSteps

\* A fork arrives: behind every other.
LEMMA ForkArrivesSafe ==
  ASSUME PromptInv, NEW f \in Forks, Prompt!ForkArrives(f)
  PROVE  PromptInv'
<1>1. /\ fork \in [Forks -> ForkType] /\ forkTail \in Forks \cup {Nobody} /\ fork[f] \in ForkType
      /\ fork[f].phase = "none" /\ forkTail' = f /\ \A g \in Forks : g < f => fork[g].phase # "none"
      /\ UNCHANGED <<prompt, active, promptDone, turn, session, drops>>
  BY DEF PromptInv, Prompt!PromptTypeOK, ForkType, Prompt!ForkArrives
<1> DEFINE h == [fork[f] EXCEPT !.phase = "queued", !.after = forkTail]
<1>2. h \in ForkType /\ h.phase = "queued" /\ h.after = forkTail
  BY <1>1 DEF ForkType, Prompt!ForkPhases
<1>3. fork' = [fork EXCEPT ![f] = h]
  BY <1>1 DEF Prompt!ForkArrives
<1> HIDE DEF h
<1>4. fork'[f] = h /\ \A g \in Forks : g # f => fork'[g] = fork[g]
  BY <1>1, <1>3
<1>5. \A g \in Forks : fork[g].phase # "none" => g < f
  <2>1. ASSUME NEW g \in Forks, fork[g].phase # "none", ~(g < f) PROVE FALSE
    <3>1. f < g
      BY <1>1, <2>1, PromptAssumption
    <3> QED BY <1>1, <2>1, <3>1 DEF PromptInv, ForksInLine
  <2> QED BY <2>1
<1>6. Prompt!PromptTypeOK'
  BY <1>1, <1>2, <1>3 DEF PromptInv, Prompt!PromptTypeOK, ForkType
<1>7. OneHolds' /\ TurnsWithin'
  BY <1>1 DEF PromptInv, OneHolds, TurnsWithin
<1>8. ForksWait'
  BY <1>1, <1>2, <1>4 DEF PromptInv, ForksWait
<1>9. ForksInLine'
  <2>1. forkTail' # Nobody /\ fork'[forkTail'].phase # "none"
    BY <1>1, <1>2, <1>4, PromptAssumption
  <2>2. \A g \in Forks : fork'[g].phase # "none" => g <= forkTail'
    BY <1>1, <1>4, <1>5, PromptAssumption
  <2>3. \A g \in Forks : fork'[g].phase = "queued" /\ fork'[g].after # Nobody => fork'[g].after < g
    <3>1. forkTail # Nobody => forkTail < f
      BY <1>1, <1>5 DEF PromptInv, ForksInLine
    <3> QED BY <1>1, <1>2, <1>4, <3>1 DEF PromptInv, ForksInLine
  <2>4. ASSUME NEW g \in Forks, NEW k \in Forks, k < g, fork'[g].phase # "none"
        PROVE  /\ fork'[k].phase # "none"
               /\ fork'[g].phase # "queued" => fork'[k].phase = "over"
               /\ fork'[g].phase = "queued" => fork'[g].after # Nobody /\ k <= fork'[g].after
    <3>1. CASE g = f
      BY <1>1, <1>2, <1>4, <2>4, <3>1, PromptAssumption DEF PromptInv, ForksInLine
    <3>2. CASE g # f
      <4>1. k # f
        BY <1>4, <1>5, <2>4, <3>2, PromptAssumption
      <4> QED BY <1>4, <2>4, <3>2, <4>1 DEF PromptInv, ForksInLine
    <3> QED BY <3>1, <3>2
  <2> QED BY <2>1, <2>2, <2>3, <2>4 DEF ForksInLine
<1> QED BY <1>6, <1>7, <1>8, <1>9 DEF PromptInv

\* Every step keeps the invariant.
LEMMA PromptNextSafe == PromptInv /\ [Prompt!PromptNext]_promptVars => PromptInv'
<1> SUFFICES ASSUME PromptInv, [Prompt!PromptNext]_promptVars PROVE PromptInv'
  OBVIOUS
<1>1. CASE UNCHANGED promptVars
  BY <1>1 DEF promptVars, PromptInv, Prompt!PromptTypeOK, OneHolds, TurnsWithin, ForksInLine, ForksWait
<1>2. CASE Prompt!PromptNext
  BY <1>2, PromptArrivesSafe, PromptStepsSafe, TurnStepsSafe, PromptCancelsSafe, ForkStepsSafe, ForkArrivesSafe
     DEF Prompt!PromptNext
<1> QED BY <1>1, <1>2

\* What the invariant is for.
LEMMA PromptInvTakesTurns == PromptInv => PromptsTakeTurns
<1> SUFFICES ASSUME PromptInv PROVE PromptsTakeTurns
  OBVIOUS
<1>1. Prompt!OnePrompt
  <2>1. \A p \in Prompts : turn[p] \in {"posted", "running"} => prompt[p].phase \in Prompt!Holding
    BY DEF PromptInv, TurnsWithin, Prompt!PromptTypeOK, Prompt!PromptPhases, Prompt!Holding
  <2> QED BY <2>1 DEF PromptInv, OneHolds, Prompt!OnePrompt
<1>2. Prompt!ForksAtRest
  <2> SUFFICES ASSUME NEW f \in Forks, fork[f].phase = "working", NEW p \in Prompts
               PROVE  turn[p] \notin {"posted", "running"}
    BY DEF Prompt!ForksAtRest
  <2>1. active = Nobody
    BY DEF PromptInv, ForksWait
  <2> QED BY <1>1, <2>1, PromptAssumption DEF Prompt!OnePrompt
<1>3. Prompt!CancelsAreAnswered
  BY PromptAssumption DEF PromptInv, TurnsWithin, Prompt!CancelsAreAnswered, Prompt!PromptOver, Prompt!Holding
<1> QED BY <1>1, <1>2, <1>3 DEF PromptsTakeTurns, PromptInv

\* However many prompts, forks and cancellations come to an open session, and in
\* whatever order they wait for one another (packages/acp/rpc/prompt.ts, session.ts):
\* one prompt has the session, forks work while no turn runs, and a prompt that was
\* cancelled while it had the session says so.
THEOREM PromptsHaveTurns == ServingSpec => []PromptsTakeTurns
<1>1. ServingInit => PromptInv
  BY PromptStarts DEF ServingInit
<1>2. PromptInv /\ [ServingNext]_servingVars => PromptInv'
  BY PromptNextSafe DEF ServingNext, servingVars, promptVars
<1> QED BY <1>1, <1>2, PromptInvTakesTurns, PTL DEF ServingSpec
==============================================================================
