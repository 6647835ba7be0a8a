-------------------------- MODULE EventFabricProofs ---------------------------
(***************************************************************************)
(* Proofs about EventFabric for any number of events, letters and requests *)
(* running side by side.                                                   *)
(*                                                                         *)
(* The inductive invariant says of a request what it still relies on       *)
(* (JobOK), keeps the requests apart (Apart), and strengthens              *)
(* DeadLetterIsOpen: behind a dead-lettered event is an open letter such   *)
(* that every retry of it that has read the event is going to write the    *)
(* event's status (Behind).  That is what makes it safe for a retry to     *)
(* leave alone a status that was already "delivered" when it looked.       *)
(***************************************************************************)
EXTENDS EventFabric, TLAPS

\* What a request knows of the rows it works on; m is what has been committed.
JobOK(q, m) ==
    /\ q.todo \subseteq Stored /\ q.writes \subseteq Stored
    /\ q.op = "create" => /\ q.row.of \in Domain \cap m /\ q.todo = {}
                          /\ q.stage \in {"emit", "store"}
    /\ q.op = "publish" => q.stage = "store"
    /\ q.op = "bury" => /\ q.stage = "emit"
                        /\ q.letter \in Letters /\ letter[q.letter].status = "absent"
                        /\ q.event \in Stored /\ q.writes \subseteq {q.event}
                        /\ q.todo = {}
    /\ q.op = "retry" => q.letter \in Letters /\ letter[q.letter].status # "absent"
    /\ q.stage = "letter" => q.op = "retry"
    /\ q.stage = "store" =>
          /\ q.event \in Events \ Stored /\ q.row.of \in m
          /\ q.row.status \in {"published", "delivered"}
          /\ ~q.row.mapped => q.op = "publish" /\ q.row.of \in Calls

JobsOK == \A w \in Workers : job[w] # Nothing => JobOK(job[w], made)

\* Two requests never write the same row, or tell of the same unmapped event.
ApartJobs(p, q) ==
    /\ p.stage = "store" /\ q.stage = "store" =>
          /\ p.event # q.event
          /\ ~p.row.mapped \/ ~q.row.mapped => p.row.of # q.row.of
    /\ p.op = "bury" /\ q.op = "bury" => p.letter # q.letter

Apart == \A v, w \in Workers :
    v # w /\ job[v] # Nothing /\ job[w] # Nothing => ApartJobs(job[v], job[w])

\* A flushed row does not repeat what the store has of an unmapped event.
FlushOnce(q) ==
    q.stage = "store" => \A e \in Stored :
        ~q.row.mapped \/ ~store[e].mapped => store[e].of # q.row.of

FlushesOnce == \A w \in Workers : job[w] # Nothing => FlushOnce(job[w])

Told == \A e \in Stored : ~store[e].mapped => store[e].of \in Calls

LettersOK == \A d \in Letters :
    letter[d].status # "absent" => letter[d].event \in Stored

\* A retry of letter d that has read event e will write the status of e.
WillWrite(q, d, e) ==
    q.op = "retry" /\ q.letter = d /\ q.stage # "letter" => e \in q.writes

Behind == \A e \in Events :
    store[e].status = "dead_lettered" =>
        \E d \in Letters :
            /\ letter[d].status = "open" /\ letter[d].event = e
            /\ \A w \in Workers : job[w] # Nothing => WillWrite(job[w], d, e)

EFInd == /\ EFTypeOK /\ StoreTellsTruth
         /\ JobsOK /\ Apart /\ FlushesOnce /\ Told /\ LettersOK /\ Behind

-----------------------------------------------------------------------------

LEMMA IdleTyped == Idle \in Jobs
BY DEF Idle, Jobs, NoEvent, EventRows

\* The invariant holds at the start.
LEMMA EFInitial == EFInit => EFInd
<1> SUFFICES ASSUME EFInit PROVE EFInd
  OBVIOUS
<1> USE DEF EFInit
<1>1. Stored = {}
  BY DEF Stored, NoEvent
<1>2. EFTypeOK
  BY DEF EFTypeOK, EventRows, LetterRows, NoEvent, NoLetter
<1>3. StoreTellsTruth /\ Told
  BY <1>1 DEF StoreTellsTruth, Told
<1>4. JobsOK /\ Apart /\ FlushesOnce
  BY DEF JobsOK, Apart, FlushesOnce
<1>5. LettersOK /\ Behind
  BY DEF LettersOK, Behind, NoEvent, NoLetter
<1> QED BY <1>2, <1>3, <1>4, <1>5 DEF EFInd

\* A step in which one request moves on and no row changes keeps the invariant,
\* if what the request becomes is sound and apart from the other requests.
LEMMA JobMoves ==
    ASSUME EFInd, NEW w \in Workers, NEW q,
           UNCHANGED <<store, letter>>,
           made \subseteq made', made' \subseteq Domain \cup Calls,
           bus' \subseteq Events, watched' \in BOOLEAN,
           job' = [job EXCEPT ![w] = q],
           q # Nothing =>
              /\ q \in Jobs /\ JobOK(q, made') /\ FlushOnce(q)
              /\ \A v \in Workers : v # w /\ job[v] # Nothing =>
                    ApartJobs(q, job[v]) /\ ApartJobs(job[v], q)
              /\ \A e \in Events : store[e].status = "dead_lettered" =>
                    \A d \in Letters :
                       letter[d].event = e /\ (job[w] # Nothing => WillWrite(job[w], d, e))
                          => WillWrite(q, d, e)
    PROVE  EFInd'
<1> USE DEF EFInd
<1>1. Stored' = Stored
  BY DEF Stored
<1>2. \A v \in Workers : job'[v] = IF v = w THEN q ELSE job[v]
  BY DEF EFTypeOK
<1>3. EFTypeOK'
  BY <1>2 DEF EFTypeOK
<1>4. StoreTellsTruth' /\ Told' /\ LettersOK'
  BY <1>1 DEF StoreTellsTruth, Told, LettersOK
<1>5. \A p : JobOK(p, made) => JobOK(p, made')
  BY DEF JobOK
<1>6. ASSUME NEW v \in Workers, job'[v] # Nothing
      PROVE  JobOK(job'[v], made') /\ FlushOnce(job'[v])
  BY <1>2, <1>5, <1>6 DEF JobsOK, FlushesOnce
<1>7. JobsOK' /\ FlushesOnce'
  BY <1>1, <1>6 DEF JobsOK, FlushesOnce, JobOK, FlushOnce
<1>8. Apart'
  BY <1>2 DEF Apart
<1>9. Behind'
  BY <1>2 DEF Behind
<1> QED BY <1>3, <1>4, <1>7, <1>8, <1>9

\* p is the retry q at a later point, with the same letter and writes.
WritesOn(p, q) == /\ q.op = "retry" /\ q.stage # "letter"
                  /\ p.letter = q.letter /\ p.writes = q.writes

\* What a publication of an occurrence relies on: it has happened, and unless it is
\* mapped neither the store nor another request tells of it.
MayFlush(w, q, of, mapped) ==
    /\ q.todo \subseteq Stored /\ q.writes \subseteq Stored
    /\ q.op = "create" => q.row.of = of /\ of \in Domain /\ q.todo = {}
    /\ q.op = "retry" => /\ q.letter \in Letters /\ letter[q.letter].status # "absent"
                         /\ job[w] # Nothing /\ WritesOn(q, job[w])
    /\ q.op # "publish" => mapped /\ q.op \in {"create", "retry", "replay"}
    /\ ~mapped => of \in Calls
    /\ \A x \in Stored : store[x].of = of => mapped /\ store[x].mapped
    /\ \A v \in Workers : v # w /\ job[v] # Nothing /\ job[v].stage = "store"
                         /\ job[v].row.of = of => mapped /\ job[v].row.mapped

\* A request that flushes such a row is sound and apart from the others.
LEMMA FlushMoves ==
    ASSUME EFInd, NEW w \in Workers, NEW q \in Jobs, NEW e \in Events,
           NEW of \in made', NEW mapped \in BOOLEAN,
           UNCHANGED <<store, letter, watched>>,
           made \subseteq made', made' \subseteq Domain \cup Calls,
           MayFlush(w, q, of, mapped), Flush(w, q, e, of, mapped)
    PROVE  EFInd'
<1> DEFINE row == [status |-> IF watched THEN "delivered" ELSE "published",
                   of |-> of, mapped |-> mapped]
           r == [q EXCEPT !.stage = "store", !.event = e, !.row = row]
<1> USE DEF EFInd
<1>1. job' = [job EXCEPT ![w] = r] /\ Fresh(e) /\ bus' = bus \cup {e}
  BY DEF Flush
<1>2. row \in EventRows /\ r \in Jobs
  BY ZenonT(60) DEF Jobs, EventRows, Statuses, EFTypeOK
<1>3. /\ r.stage = "store" /\ r.event = e /\ r.row = row /\ r.op = q.op
      /\ r.todo = q.todo /\ r.writes = q.writes /\ r.letter = q.letter
  BY DEF Jobs
<1>4. row.of = of /\ row.mapped = mapped /\ row.status \in {"published", "delivered"}
  OBVIOUS
<1>5. JobOK(r, made')
  BY <1>1, <1>3, <1>4 DEF JobOK, Fresh, MayFlush
<1>6. FlushOnce(r)
  BY <1>3, <1>4 DEF FlushOnce, MayFlush
<1>7. ASSUME NEW v \in Workers, v # w, job[v] # Nothing
      PROVE  ApartJobs(r, job[v]) /\ ApartJobs(job[v], r)
  BY <1>1, <1>3, <1>4, <1>7 DEF ApartJobs, Fresh, Busy, MayFlush
<1>8. \A x, d : (job[w] # Nothing => WillWrite(job[w], d, x)) => WillWrite(r, d, x)
  BY <1>3 DEF WillWrite, WritesOn, MayFlush
<1>9. bus' \subseteq Events /\ watched' \in BOOLEAN
  BY <1>1 DEF EFTypeOK
<1> HIDE DEF r, EFInd
<1> QED BY <1>1, <1>2, <1>5, <1>6, <1>7, <1>8, <1>9, JobMoves

\* What is known of the request of a worker.
LEMMA JobKnown ==
    ASSUME EFInd, NEW w \in Workers, job[w] # Nothing
    PROVE  job[w] \in Jobs /\ JobOK(job[w], made) /\ FlushOnce(job[w])
BY DEF EFInd, EFTypeOK, JobsOK, FlushesOnce

\* A request that ends without writing leaves everything sound.
LEMMA JobEnds ==
    ASSUME EFInd, NEW w \in Workers, UNCHANGED <<made, store, letter, watched, bus>>,
           job' = [job EXCEPT ![w] = Nothing]
    PROVE  EFInd'
<1>1. made \subseteq made' /\ made' \subseteq Domain \cup Calls
      /\ bus' \subseteq Events /\ watched' \in BOOLEAN
  BY DEF EFInd, EFTypeOK
<1> QED BY <1>1, JobMoves

LEMMA PublishKeeps ==
    ASSUME EFInd, NEW w \in Workers, NEW e \in Events, NEW c \in Calls,
           NEW mapped \in BOOLEAN, Publish(w, e, c, mapped)
    PROVE  EFInd'
<1> DEFINE q == [Idle EXCEPT !.op = "publish"]
<1>1. /\ c \notin made /\ made' = made \cup {c} /\ Flush(w, q, e, c, mapped)
      /\ UNCHANGED <<store, letter, watched>>
  BY DEF Publish
<1>2. q \in Jobs /\ q.op = "publish" /\ q.todo = {} /\ q.writes = {}
  BY IdleTyped DEF Idle, Jobs
<1>3. \A x \in Stored : store[x].of # c
  BY <1>1 DEF EFInd, StoreTellsTruth
<1>4. \A v \in Workers : job[v] # Nothing /\ job[v].stage = "store" => job[v].row.of # c
  BY <1>1 DEF EFInd, JobsOK, JobOK
<1>5. made' \subseteq Domain \cup Calls /\ made \subseteq made' /\ c \in made'
  BY <1>1 DEF EFInd, EFTypeOK
<1> HIDE DEF q
<1>6. MayFlush(w, q, c, mapped)
  BY <1>2, <1>3, <1>4 DEF MayFlush
<1> QED BY <1>1, <1>2, <1>5, <1>6, FlushMoves

LEMMA CreateKeeps ==
    ASSUME EFInd, NEW w \in Workers, NEW f \in Domain, Create(w, f)
    PROVE  EFInd'
<1> DEFINE q == [Idle EXCEPT !.row.of = f]
<1>1. made' = made \cup {f} /\ job' = [job EXCEPT ![w] = q]
      /\ UNCHANGED <<store, letter, watched, bus>>
  BY DEF Create, Begin
<1>2. /\ q \in Jobs /\ q.op = "create" /\ q.stage = "emit" /\ q.todo = {} /\ q.writes = {}
      /\ q.row.of = f
  BY IdleTyped DEF Idle, Jobs, NoEvent, EventRows
<1>3. JobOK(q, made') /\ FlushOnce(q)
  BY <1>1, <1>2 DEF JobOK, FlushOnce
<1>4. \A p : ApartJobs(q, p) /\ ApartJobs(p, q)
  BY <1>2 DEF ApartJobs
<1>5. \A d, e : WillWrite(q, d, e)
  BY <1>2 DEF WillWrite
<1>6. made' \subseteq Domain \cup Calls /\ bus' \subseteq Events /\ watched' \in BOOLEAN
  BY <1>1 DEF EFInd, EFTypeOK
<1> HIDE DEF q
<1> QED BY <1>1, <1>2, <1>3, <1>4, <1>5, <1>6, JobMoves

LEMMA DeadLetterKeeps ==
    ASSUME EFInd, NEW w \in Workers, NEW d \in Letters, NEW e \in Events, DeadLetter(w, d, e)
    PROVE  EFInd'
<1> DEFINE q == [Idle EXCEPT !.op = "bury", !.writes = Changed("bury", {e}),
                             !.letter = d, !.event = e]
<1>1. /\ job' = [job EXCEPT ![w] = q] /\ FreshLetter(d) /\ e \in Stored
      /\ UNCHANGED <<made, store, letter, watched, bus>>
  BY DEF DeadLetter, Begin
<1>2. Changed("bury", {e}) \subseteq {e}
  BY DEF Changed
<1>3. /\ q \in Jobs /\ q.op = "bury" /\ q.stage = "emit" /\ q.todo = {}
      /\ q.writes \subseteq {e} /\ q.letter = d /\ q.event = e
  BY IdleTyped, <1>2 DEF Idle, Jobs
<1>4. JobOK(q, made') /\ FlushOnce(q)
  BY <1>1, <1>3 DEF JobOK, FlushOnce, FreshLetter
<1>5. \A v \in Workers : job[v] # Nothing => ApartJobs(q, job[v]) /\ ApartJobs(job[v], q)
  BY <1>1, <1>3 DEF ApartJobs, FreshLetter, Busy
<1>6. \A x, y : WillWrite(q, x, y)
  BY <1>3 DEF WillWrite
<1>7. made' \subseteq Domain \cup Calls /\ bus' \subseteq Events /\ watched' \in BOOLEAN
  BY <1>1 DEF EFInd, EFTypeOK
<1> HIDE DEF q
<1> QED BY <1>1, <1>3, <1>4, <1>5, <1>6, <1>7, JobMoves

LEMMA RetryReadsLetterKeeps ==
    ASSUME EFInd, NEW w \in Workers, NEW d \in Letters, RetryReadsLetter(w, d)
    PROVE  EFInd'
<1> DEFINE q == [Idle EXCEPT !.op = "retry", !.stage = "letter", !.letter = d,
                             !.count = letter[d].count]
<1>1. /\ job' = [job EXCEPT ![w] = q] /\ letter[d].status # "absent"
      /\ UNCHANGED <<made, store, letter, watched, bus>>
  BY DEF RetryReadsLetter, Begin
<1>2. letter[d].count \in Nat
  BY DEF EFInd, EFTypeOK, LetterRows
<1>3. /\ q \in Jobs /\ q.op = "retry" /\ q.stage = "letter" /\ q.todo = {}
      /\ q.writes = {} /\ q.letter = d
  BY IdleTyped, <1>2 DEF Idle, Jobs
<1>4. JobOK(q, made') /\ FlushOnce(q)
  BY <1>1, <1>3 DEF JobOK, FlushOnce
<1>5. \A p : ApartJobs(q, p) /\ ApartJobs(p, q)
  BY <1>3 DEF ApartJobs
<1>6. \A x, y : WillWrite(q, x, y)
  BY <1>3 DEF WillWrite
<1>7. made' \subseteq Domain \cup Calls /\ bus' \subseteq Events /\ watched' \in BOOLEAN
  BY <1>1 DEF EFInd, EFTypeOK
<1> HIDE DEF q
<1> QED BY <1>1, <1>3, <1>4, <1>5, <1>6, <1>7, JobMoves

\* The letter was there before this reading, so an event it dead-lettered is seen
\* as dead_lettered, and its status will be written.
LEMMA RetryReadsEventKeeps ==
    ASSUME EFInd, NEW w \in Workers, RetryReadsEvent(w)
    PROVE  EFInd'
<1> DEFINE d == job[w].letter
           e == letter[d].event
           q == [job[w] EXCEPT !.stage = "emit", !.todo = {e}, !.writes = Changed("retry", {e})]
<1>1. /\ job' = [job EXCEPT ![w] = q] /\ job[w] # Nothing /\ job[w].stage = "letter"
      /\ UNCHANGED <<made, store, letter, watched, bus>>
  BY DEF RetryReadsEvent, At
<1>2. job[w] \in Jobs /\ JobOK(job[w], made)
  BY <1>1, JobKnown
<1>3. job[w].op = "retry" /\ d \in Letters /\ letter[d].status # "absent" /\ e \in Stored
  BY <1>1, <1>2 DEF JobOK, EFInd, LettersOK
<1>4. /\ Changed("retry", {e}) \subseteq {e}
      /\ store[e].status = "dead_lettered" => e \in Changed("retry", {e})
  BY DEF Changed, Outcome
<1>5. /\ q \in Jobs /\ q.op = "retry" /\ q.stage = "emit" /\ q.todo = {e}
      /\ q.writes = Changed("retry", {e}) /\ q.letter = d
  BY <1>2, <1>3, <1>4 DEF Jobs, Stored
<1>6. JobOK(q, made') /\ FlushOnce(q)
  BY <1>1, <1>3, <1>4, <1>5 DEF JobOK, FlushOnce
<1>7. \A p : ApartJobs(q, p) /\ ApartJobs(p, q)
  BY <1>5 DEF ApartJobs
<1>8. ASSUME NEW x \in Events, store[x].status = "dead_lettered",
             NEW y \in Letters, letter[y].event = x
      PROVE  WillWrite(q, y, x)
  BY <1>4, <1>5, <1>8 DEF WillWrite
<1>9. made' \subseteq Domain \cup Calls /\ bus' \subseteq Events /\ watched' \in BOOLEAN
  BY <1>1 DEF EFInd, EFTypeOK
<1> HIDE DEF q
<1> QED BY <1>1, <1>5, <1>6, <1>7, <1>8, <1>9, JobMoves

LEMMA ReplayKeeps ==
    ASSUME EFInd, NEW w \in Workers, NEW events \in SUBSET Events, Replay(w, events)
    PROVE  EFInd'
<1> DEFINE q == [Idle EXCEPT !.op = "replay", !.todo = events,
                             !.writes = Changed("replay", events)]
<1>1. /\ job' = [job EXCEPT ![w] = q] /\ events \subseteq Stored
      /\ UNCHANGED <<made, store, letter, watched, bus>>
  BY DEF Replay, Begin
<1>2. Changed("replay", events) \subseteq events
  BY DEF Changed
<1>3. /\ q \in Jobs /\ q.op = "replay" /\ q.stage = "emit" /\ q.todo = events
      /\ q.writes \subseteq events
  BY IdleTyped, <1>2 DEF Idle, Jobs
<1>4. JobOK(q, made') /\ FlushOnce(q)
  BY <1>1, <1>3 DEF JobOK, FlushOnce
<1>5. \A p : ApartJobs(q, p) /\ ApartJobs(p, q)
  BY <1>3 DEF ApartJobs
<1>6. \A x, y : WillWrite(q, x, y)
  BY <1>3 DEF WillWrite
<1>7. made' \subseteq Domain \cup Calls /\ bus' \subseteq Events /\ watched' \in BOOLEAN
  BY <1>1 DEF EFInd, EFTypeOK
<1> HIDE DEF q
<1> QED BY <1>1, <1>3, <1>4, <1>5, <1>6, <1>7, JobMoves

LEMMA IngestNewKeeps ==
    ASSUME EFInd, NEW w \in Workers, NEW e \in Events, IngestNew(w, e)
    PROVE  EFInd'
<1> DEFINE q == job[w]
<1>1. /\ q # Nothing /\ q.op = "create" /\ Flush(w, q, e, q.row.of, TRUE)
      /\ UNCHANGED <<made, store, letter, watched>>
  BY DEF IngestNew, At
<1>2. q \in Jobs /\ JobOK(q, made)
  BY <1>1, JobKnown
<1>3. /\ q.row.of \in Domain \cap made /\ q.todo = {} /\ q.todo \subseteq Stored
      /\ q.writes \subseteq Stored
  BY <1>1, <1>2 DEF JobOK
<1>4. \A x \in Stored : store[x].of = q.row.of => store[x].mapped
  BY <1>3, EventFabricAssumption DEF EFInd, Told, EFTypeOK, Stored, EventRows
<1>5. \A v \in Workers : v # w /\ job[v] # Nothing /\ job[v].stage = "store"
                          /\ job[v].row.of = q.row.of => job[v].row.mapped
  BY <1>3, EventFabricAssumption DEF EFInd, JobsOK, JobOK, EFTypeOK, Jobs, EventRows
<1>6. made' \subseteq Domain \cup Calls /\ q.row.of \in Domain \cup Calls
      /\ q.row.of \in made'
  BY <1>1, <1>3 DEF EFInd, EFTypeOK
<1>7. q.op = "create" /\ q.op # "retry" /\ made \subseteq made'
  BY <1>1
<1> HIDE DEF q
<1>8. MayFlush(w, q, q.row.of, TRUE)
  BY <1>3, <1>4, <1>5, <1>7 DEF MayFlush
<1> QED BY <1>1, <1>2, <1>6, <1>7, <1>8, FlushMoves

\* The event emitted again is mapped, so it is the unmapped ones' business only
\* that nothing unmapped tells of the same.
LEMMA IngestAgainKeeps ==
    ASSUME EFInd, NEW w \in Workers, NEW e \in Events, NEW old \in Events,
           IngestAgain(w, e, old)
    PROVE  EFInd'
<1> DEFINE q == [job[w] EXCEPT !.todo = @ \ {old}]
           of == store[old].of
<1>1. /\ job[w] # Nothing /\ job[w].stage = "emit" /\ old \in job[w].todo
      /\ store[old].mapped /\ Flush(w, q, e, of, TRUE)
      /\ UNCHANGED <<made, store, letter, watched>>
  BY DEF IngestAgain, At, IsMapped
<1>2. job[w] \in Jobs /\ JobOK(job[w], made)
  BY <1>1, JobKnown
<1>3. /\ q \in Jobs /\ q.op = job[w].op /\ q.todo = job[w].todo \ {old}
      /\ q.writes = job[w].writes /\ q.letter = job[w].letter
  BY <1>2 DEF Jobs
<1>4. old \in Stored /\ q.todo \subseteq Stored /\ q.writes \subseteq Stored
  BY <1>1, <1>2, <1>3 DEF JobOK
<1>5. of \in Domain \cup Calls /\ of \in made
  BY <1>4 DEF EFInd, StoreTellsTruth, EFTypeOK
<1>6. q.op \in {"retry", "replay", "bury"}
  BY <1>1, <1>2, <1>3 DEF JobOK, Jobs
<1>7. q.op # "bury" /\ q.op # "create"
  <2>1. ASSUME job[w].op = "bury" PROVE job[w].todo = {}
    BY <1>2, <2>1 DEF JobOK
  <2>2. ASSUME job[w].op = "create" PROVE job[w].todo = {}
    BY <1>2, <2>2 DEF JobOK
  <2> QED BY <2>1, <2>2, <1>1, <1>3
<1>8. q.op = "retry" => q.letter \in Letters /\ letter[q.letter].status # "absent"
  BY <1>2, <1>3 DEF JobOK
<1>9. \A x \in Stored : store[x].of = of => store[x].mapped
  BY <1>1, <1>4 DEF EFInd, StoreTellsTruth
<1>10. \A v \in Workers : v # w /\ job[v] # Nothing /\ job[v].stage = "store"
                           /\ job[v].row.of = of => job[v].row.mapped
  BY <1>4 DEF EFInd, FlushesOnce, FlushOnce
<1>11. q.op = "retry" => job[w] # Nothing /\ WritesOn(q, job[w])
  BY <1>1, <1>3 DEF WritesOn
<1>12. made' \subseteq Domain \cup Calls /\ made \subseteq made' /\ of \in made'
  BY <1>1, <1>5 DEF EFInd, EFTypeOK
<1> HIDE DEF q, of
<1>13. MayFlush(w, q, of, TRUE)
  BY <1>4, <1>6, <1>7, <1>8, <1>9, <1>10, <1>11 DEF MayFlush
<1> QED BY <1>1, <1>3, <1>12, <1>13, FlushMoves

\* A request that emits and still has something to emit is a retry or a replay.
LEMMA Emitting ==
    ASSUME EFInd, NEW w \in Workers, job[w] # Nothing, job[w].stage = "emit",
           NEW old \in job[w].todo
    PROVE  job[w].op \in {"retry", "replay"}
<1>1. job[w] \in Jobs /\ JobOK(job[w], made)
  BY JobKnown
<1>2. job[w].op \in {"publish", "create", "bury", "retry", "replay"}
  BY <1>1 DEF Jobs
<1>3. job[w].op # "create" /\ job[w].op # "bury"
  BY <1>1 DEF JobOK
<1>4. job[w].op # "publish"
  BY <1>1 DEF JobOK
<1> QED BY <1>2, <1>3, <1>4

LEMMA EmitUnmappedKeeps ==
    ASSUME EFInd, NEW w \in Workers, NEW old \in Events, EmitUnmapped(w, old)
    PROVE  EFInd'
<1> DEFINE q == [job[w] EXCEPT !.todo = @ \ {old}]
<1>1. /\ job' = [job EXCEPT ![w] = q] /\ job[w] # Nothing /\ job[w].stage = "emit"
      /\ old \in job[w].todo /\ UNCHANGED <<made, store, letter, watched, bus>>
  BY DEF EmitUnmapped, At
<1>2. job[w] \in Jobs /\ JobOK(job[w], made)
  BY <1>1, JobKnown
<1>3. /\ q \in Jobs /\ q.op = job[w].op /\ q.stage = "emit" /\ q.todo \subseteq job[w].todo
      /\ q.writes = job[w].writes /\ q.letter = job[w].letter
  BY <1>1, <1>2 DEF Jobs
<1>4. q.op \in {"retry", "replay"}
  BY <1>1, <1>3, Emitting
<1>5. JobOK(q, made') /\ FlushOnce(q)
  BY <1>1, <1>2, <1>3, <1>4 DEF JobOK, FlushOnce
<1>6. \A p : ApartJobs(q, p) /\ ApartJobs(p, q)
  BY <1>3, <1>4 DEF ApartJobs
<1>7. \A d, e : WillWrite(job[w], d, e) => WillWrite(q, d, e)
  BY <1>1, <1>3 DEF WillWrite
<1>8. made' \subseteq Domain \cup Calls /\ bus' \subseteq Events /\ watched' \in BOOLEAN
  BY <1>1 DEF EFInd, EFTypeOK
<1> HIDE DEF q
<1> QED BY <1>1, <1>3, <1>5, <1>6, <1>7, <1>8, JobMoves

\* A retry or replay that resumes is where it was, with the same writes to make.
LEMMA ResumedKnown ==
    ASSUME EFInd, NEW w \in Workers, At(w, "store"), NEW q, q = Resumed(job[w]), q # Nothing
    PROVE  /\ q \in Jobs /\ q.op = job[w].op /\ q.op \in {"retry", "replay"}
           /\ q.stage = "emit" /\ q.todo = job[w].todo /\ q.writes = job[w].writes
           /\ q.letter = job[w].letter
           /\ JobOK(q, made) /\ FlushOnce(q)
           /\ \A p : ApartJobs(q, p) /\ ApartJobs(p, q)
           /\ \A d, e : WillWrite(job[w], d, e) => WillWrite(q, d, e)
<1>1. job[w] # Nothing /\ job[w].stage = "store"
  BY DEF At
<1>2. job[w] \in Jobs /\ JobOK(job[w], made)
  BY <1>1, JobKnown
<1>3. /\ job[w].op \in {"retry", "replay"}
      /\ q = [job[w] EXCEPT !.stage = "emit", !.event = Nothing, !.row = NoEvent]
  BY DEF Resumed
<1>4. NoEvent \in EventRows
  BY DEF NoEvent, EventRows
<1>5. /\ q \in Jobs /\ q.op = job[w].op /\ q.stage = "emit" /\ q.todo = job[w].todo
      /\ q.writes = job[w].writes /\ q.letter = job[w].letter
  BY <1>2, <1>3, <1>4 DEF Jobs
<1>6. JobOK(q, made) /\ FlushOnce(q)
  BY <1>2, <1>3, <1>5 DEF JobOK, FlushOnce
<1>7. \A p : ApartJobs(q, p) /\ ApartJobs(p, q)
  BY <1>3, <1>5 DEF ApartJobs
<1>8. \A d, e : WillWrite(job[w], d, e) => WillWrite(q, d, e)
  BY <1>1, <1>5 DEF WillWrite
<1> QED BY <1>3, <1>5, <1>6, <1>7, <1>8

LEMMA DualWriteFailsKeeps ==
    ASSUME EFInd, NEW w \in Workers, DualWriteFails(w)
    PROVE  EFInd'
<1> DEFINE q == Resumed(job[w])
<1>1. /\ job' = [job EXCEPT ![w] = q] /\ At(w, "store")
      /\ UNCHANGED <<made, store, letter, watched, bus>>
  BY DEF DualWriteFails
<1>2. job[w] # Nothing
  BY <1>1 DEF At
<1>3. made' \subseteq Domain \cup Calls /\ bus' \subseteq Events /\ watched' \in BOOLEAN
  BY <1>1 DEF EFInd, EFTypeOK
<1> HIDE DEF q
<1>4. q = Resumed(job[w])
  BY DEF q
<1> QED BY <1>1, <1>2, <1>3, <1>4, ResumedKnown, JobMoves

\* The flushed row enters the store: nobody has it, and nothing it must not repeat
\* is there or is being flushed.
LEMMA PublishCommitsKeeps ==
    ASSUME EFInd, NEW w \in Workers, PublishCommits(w)
    PROVE  EFInd'
<1> DEFINE x == job[w].event
           row == job[w].row
           q == Resumed(job[w])
<1>1. /\ job' = [job EXCEPT ![w] = q] /\ At(w, "store")
      /\ store' = [store EXCEPT ![x] = row]
      /\ UNCHANGED <<made, letter, watched, bus>>
  BY DEF PublishCommits
<1>2. job[w] # Nothing /\ job[w].stage = "store"
  BY <1>1 DEF At
<1>3. job[w] \in Jobs /\ JobOK(job[w], made) /\ FlushOnce(job[w])
  BY <1>2, JobKnown
<1>4. /\ x \in Events \ Stored /\ row.of \in made
      /\ row.status \in {"published", "delivered"}
      /\ ~row.mapped => row.of \in Calls
  BY <1>2, <1>3 DEF JobOK
<1>5. row \in EventRows
  BY <1>3 DEF Jobs
<1>6. \A e \in Events : store'[e] = IF e = x THEN row ELSE store[e]
  BY <1>1 DEF EFInd, EFTypeOK
<1>7. Stored' = Stored \cup {x}
  BY <1>4, <1>6 DEF Stored
<1>8. \A v \in Workers : job'[v] = IF v = w THEN q ELSE job[v]
  BY <1>1 DEF EFInd, EFTypeOK
<1>9. \A e \in Stored : ~row.mapped \/ ~store[e].mapped => store[e].of # row.of
  BY <1>2, <1>3 DEF FlushOnce
<1>10. q # Nothing => q \in Jobs /\ q.stage = "emit" /\ JobOK(q, made) /\ FlushOnce(q)
                      /\ \A p : ApartJobs(q, p) /\ ApartJobs(p, q)
  BY <1>1, ResumedKnown
<1>11. ASSUME NEW v \in Workers, v # w, job[v] # Nothing
       PROVE  JobOK(job[v], made) /\ FlushOnce(job[v]) /\ ApartJobs(job[v], job[w])
  BY <1>2, <1>11 DEF EFInd, JobsOK, FlushesOnce, Apart
<1> HIDE DEF x, row, q
<1>12. EFTypeOK'
  BY <1>1, <1>5, <1>6, <1>10, <1>4 DEF EFInd, EFTypeOK
<1>13. StoreTellsTruth'
  <2>1. \A e \in Stored' : store'[e].of \in made'
    BY <1>1, <1>4, <1>6, <1>7 DEF EFInd, StoreTellsTruth, Stored
  <2>2. \A e1, e2 \in Stored : store[e1].of = store[e2].of /\ ~store[e1].mapped => e1 = e2
    BY DEF EFInd, StoreTellsTruth
  <2>3. \A e \in Stored : e \in Events /\ e # x
    BY <1>4 DEF Stored
  <2>4. \A e1, e2 \in Stored' :
           store'[e1].of = store'[e2].of /\ ~store'[e1].mapped => e1 = e2
    BY <1>4, <1>6, <1>7, <1>9, <2>2, <2>3
  <2> QED BY <2>1, <2>4 DEF StoreTellsTruth
<1>14. Told' /\ LettersOK'
  BY <1>1, <1>4, <1>6, <1>7 DEF EFInd, Told, LettersOK, Stored
<1>15. ASSUME NEW p, JobOK(p, made), p.stage = "store" => p.event # x
       PROVE  JobOK(p, made)'
  BY <1>1, <1>7, <1>15 DEF JobOK
<1>16. ASSUME NEW v \in Workers, v # w, job[v] # Nothing
       PROVE  JobOK(job[v], made)' /\ FlushOnce(job[v])'
  <2>1. job[v].stage = "store" =>
           job[v].event # x /\ (~row.mapped \/ ~job[v].row.mapped => row.of # job[v].row.of)
    BY <1>2, <1>11, <1>16 DEF ApartJobs, x, row
  <2>2. job'[v] = job[v]
    BY <1>8, <1>16
  <2>3. JobOK(job[v], made)'
    BY <1>11, <1>15, <1>16, <2>1, <2>2
  <2>4. \A e \in Stored : e \in Events /\ e # x
    BY <1>4 DEF Stored
  <2>5. FlushOnce(job[v])
    BY <1>11, <1>16
  <2>6. FlushOnce(job[v])'
    BY <1>4, <1>6, <1>7, <2>1, <2>2, <2>4, <2>5 DEF FlushOnce
  <2> QED BY <2>3, <2>6
<1>17. ASSUME job'[w] # Nothing
       PROVE  JobOK(job[w], made)' /\ FlushOnce(job[w])'
  BY <1>1, <1>7, <1>8, <1>10, <1>17 DEF JobOK, FlushOnce
<1>18. \A v \in Workers : v # w => job'[v] = job[v]
  BY <1>8
<1>19. JobsOK' /\ FlushesOnce'
  BY <1>16, <1>17, <1>18 DEF JobsOK, FlushesOnce
<1>20. Apart'
  BY <1>8, <1>10 DEF EFInd, Apart
<1>21. \A d, e : \A v \in Workers :
          (job[v] # Nothing => WillWrite(job[v], d, e)) =>
             (job'[v] # Nothing => WillWrite(job'[v], d, e))
  BY <1>1, <1>2, <1>8, ResumedKnown DEF q
<1>22. Behind'
  BY <1>1, <1>4, <1>6, <1>21 DEF EFInd, Behind
<1> QED BY <1>12, <1>13, <1>14, <1>19, <1>20, <1>22 DEF EFInd

\* What a request that ends writes: statuses of stored events, and one letter.
LEMMA FinishKnown ==
    ASSUME EFInd, NEW w \in Workers, Finish(w)
    PROVE  /\ job[w] \in Jobs /\ JobOK(job[w], made) /\ job[w].stage = "emit"
           /\ job[w].op \in {"bury", "retry", "replay"}
           /\ Stored' = Stored
           /\ \A e \in Events :
                 /\ store'[e] \in EventRows
                 /\ store'[e].of = store[e].of /\ store'[e].mapped = store[e].mapped
                 /\ store'[e].status = IF e \in job[w].writes THEN Outcome[job[w].op]
                                                              ELSE store[e].status
<1>1. job[w] # Nothing /\ job[w].stage = "emit" /\ job[w].op # "create"
  BY DEF Finish, At
<1>2. job[w] \in Jobs /\ JobOK(job[w], made)
  BY <1>1, JobKnown
<1>3. job[w].op \in {"bury", "retry", "replay"}
  <2>1. job[w].op # "publish"
    BY <1>1, <1>2 DEF JobOK
  <2> QED BY <1>1, <1>2, <2>1 DEF Jobs
<1>4. job[w].writes \subseteq Stored
  BY <1>2 DEF JobOK
<1>5. Outcome[job[w].op] \in Statuses /\ Outcome[job[w].op] # "absent"
  BY <1>3 DEF Outcome, Statuses
<1>6. \A e \in Events : store'[e] = IF e \in job[w].writes
                                    THEN [store[e] EXCEPT !.status = Outcome[job[w].op]]
                                    ELSE store[e]
  BY DEF Finish
<1>7. \A e \in Events : store[e] \in EventRows
  BY DEF EFInd, EFTypeOK
<1>8. ASSUME NEW e \in Events
      PROVE  /\ store'[e] \in EventRows
             /\ store'[e].of = store[e].of /\ store'[e].mapped = store[e].mapped
             /\ store'[e].status = IF e \in job[w].writes THEN Outcome[job[w].op]
                                                          ELSE store[e].status
  BY ZenonT(60), <1>5, <1>6, <1>7 DEF EventRows
<1>9. Stored' = Stored
  BY <1>4, <1>5, <1>8 DEF Stored
<1> QED BY <1>1, <1>2, <1>3, <1>8, <1>9

\* The three ways to end: the letters they leave.
LEMMA FinishLetters ==
    ASSUME EFInd, NEW w \in Workers, Finish(w)
    PROVE  /\ job[w].op = "bury" =>
                 /\ job[w].letter \in Letters
                 /\ letter[job[w].letter].status = "absent"
                 /\ job[w].event \in Stored
                 /\ letter'[job[w].letter].status = "open"
                 /\ letter'[job[w].letter].event = job[w].event
                 /\ \A d \in Letters : d # job[w].letter => letter'[d] = letter[d]
           /\ job[w].op = "retry" =>
                 /\ job[w].letter \in Letters
                 /\ letter[job[w].letter].status # "absent"
                 /\ letter'[job[w].letter].status = "retried"
                 /\ letter'[job[w].letter].event = letter[job[w].letter].event
                 /\ \A d \in Letters : d # job[w].letter => letter'[d] = letter[d]
           /\ job[w].op = "replay" => letter' = letter
           /\ letter' \in [Letters -> LetterRows]
<1> DEFINE q == job[w]
           d0 == q.letter
<1>1. q \in Jobs /\ JobOK(q, made) /\ q.op \in {"bury", "retry", "replay"}
  BY FinishKnown
<1>2. letter \in [Letters -> LetterRows] /\ \A d \in Letters : letter[d] \in LetterRows
  BY DEF EFInd, EFTypeOK
<1>3. CASE q.op = "bury"
  <2>1. d0 \in Letters /\ letter[d0].status = "absent" /\ q.event \in Stored
    BY <1>1, <1>3 DEF JobOK
  <2>2. letter' = [letter EXCEPT ![d0] = [status |-> "open", event |-> q.event, count |-> 0]]
    BY <1>3 DEF Finish
  <2>3. [status |-> "open", event |-> q.event, count |-> 0] \in LetterRows
    BY <2>1 DEF LetterRows, Stored
  <2>4. letter'[d0] = [status |-> "open", event |-> q.event, count |-> 0]
    BY <1>2, <2>1, <2>2
  <2>5. letter'[d0].status = "open" /\ letter'[d0].event = q.event
    BY <2>4
  <2>6. letter' \in [Letters -> LetterRows]
    BY <1>2, <2>2, <2>3
  <2>7. \A d \in Letters : d # d0 => letter'[d] = letter[d]
    BY <1>2, <2>2
  <2> QED BY <1>3, <2>1, <2>5, <2>6, <2>7
<1>4. CASE q.op = "retry"
  <2>1. d0 \in Letters /\ letter[d0].status # "absent"
    BY <1>1, <1>4 DEF JobOK
  <2>2. letter' = [letter EXCEPT ![d0].status = "retried", ![d0].count = q.count + 1]
    BY <1>4 DEF Finish
  <2>3. q.count + 1 \in Nat
    BY <1>1 DEF Jobs
  <2>4. letter'[d0] = [[letter[d0] EXCEPT !.status = "retried"] EXCEPT !.count = q.count + 1]
    BY <1>2, <2>1, <2>2
  <2>5. /\ letter'[d0].status = "retried" /\ letter'[d0].event = letter[d0].event
        /\ letter'[d0] \in LetterRows
    BY <1>2, <2>1, <2>3, <2>4 DEF LetterRows
  <2>6. \A d \in Letters : d # d0 => letter'[d] = letter[d]
    BY <1>2, <2>2
  <2>7. letter' \in [Letters -> LetterRows]
    BY <1>2, <2>2, <2>3, <2>1 DEF LetterRows
  <2> QED BY <1>4, <2>1, <2>5, <2>6, <2>7
<1>5. CASE q.op = "replay"
  BY <1>2, <1>5 DEF Finish
<1> QED BY <1>1, <1>3, <1>4, <1>5

\* Letters that are there stay there, and no other request's letter is taken.
LEMMA FinishApart ==
    ASSUME EFInd, NEW w \in Workers, Finish(w), NEW v \in Workers, v # w, job[v] # Nothing
    PROVE  JobOK(job[v], made)' /\ FlushOnce(job[v])'
<1>1. JobOK(job[v], made) /\ FlushOnce(job[v]) /\ ApartJobs(job[v], job[w])
  BY FinishKnown, JobKnown DEF EFInd, Apart, Finish, At
<1>2. job'[v] = job[v] /\ made' = made
  BY DEF Finish, EFInd, EFTypeOK
<1>3. Stored' = Stored
  BY FinishKnown
<1>4. \A d \in Letters : letter[d].status # "absent" => letter'[d].status # "absent"
  BY FinishKnown, FinishLetters
<1>5. job[v].op = "bury" => letter'[job[v].letter].status = "absent"
  <2> SUFFICES ASSUME job[v].op = "bury" PROVE letter'[job[v].letter].status = "absent"
    OBVIOUS
  <2>1. job[v].letter \in Letters /\ letter[job[v].letter].status = "absent"
    BY <1>1 DEF JobOK
  <2>2. job[w].op = "bury" => job[v].letter # job[w].letter
    BY <1>1 DEF ApartJobs
  <2> QED BY <2>1, <2>2, FinishKnown, FinishLetters
<1>6. JobOK(job[v], made)'
  BY <1>1, <1>2, <1>3, <1>4, <1>5 DEF JobOK
<1>7. \A e \in Stored : store'[e].of = store[e].of /\ store'[e].mapped = store[e].mapped
  BY FinishKnown DEF Stored
<1>8. FlushOnce(job[v])'
  BY <1>1, <1>2, <1>3, <1>7 DEF FlushOnce
<1> QED BY <1>6, <1>8

\* Whatever a request writes when it ends, behind every dead-lettered event there
\* is an open letter: a new letter nobody works on, or the one there was, which a
\* retry of it would have left only by writing the event's status.
LEMMA FinishBehind ==
    ASSUME EFInd, NEW w \in Workers, Finish(w)
    PROVE  Behind'
<1>1. job' = [job EXCEPT ![w] = Nothing]
  BY DEF Finish
<1>2. \A v \in Workers : job'[v] = IF v = w THEN Nothing ELSE job[v]
  BY <1>1 DEF EFInd, EFTypeOK
<1> SUFFICES ASSUME NEW e \in Events, store'[e].status = "dead_lettered"
             PROVE  \E d \in Letters :
                       /\ letter'[d].status = "open" /\ letter'[d].event = e
                       /\ \A v \in Workers : job'[v] # Nothing => WillWrite(job'[v], d, e)
  BY DEF Behind
<1>3. CASE e \in job[w].writes
  <2>1. job[w].op = "bury"
    BY <1>3, FinishKnown DEF Outcome
  <2>2. e = job[w].event
    BY <1>3, <2>1, FinishKnown DEF JobOK
  <2>3. PICK d \in Letters : /\ d = job[w].letter /\ letter[d].status = "absent"
                             /\ letter'[d].status = "open" /\ letter'[d].event = e
    BY <2>1, <2>2, FinishLetters
  <2>4. ASSUME NEW v \in Workers, job[v] # Nothing PROVE WillWrite(job[v], d, e)
    <3>1. job[v].op = "retry" => letter[job[v].letter].status # "absent"
      BY <2>4, JobKnown DEF JobOK
    <3> QED BY <2>3, <3>1 DEF WillWrite
  <2> QED BY <1>2, <2>3, <2>4
<1>4. CASE e \notin job[w].writes
  <2>1. store[e].status = "dead_lettered"
    BY <1>4, FinishKnown
  <2>2. PICK d \in Letters :
           /\ letter[d].status = "open" /\ letter[d].event = e
           /\ \A v \in Workers : job[v] # Nothing => WillWrite(job[v], d, e)
    BY <2>1 DEF EFInd, Behind
  <2>3. job[w] # Nothing
    BY DEF Finish, At
  <2>4. job[w].op = "retry" => job[w].letter # d
    BY <1>4, <2>2, <2>3, FinishKnown DEF WillWrite
  <2>5. letter'[d] = letter[d]
    BY <2>2, <2>4, FinishKnown, FinishLetters
  <2> QED BY <1>2, <2>2, <2>5
<1> QED BY <1>3, <1>4

LEMMA FinishKeeps ==
    ASSUME EFInd, NEW w \in Workers, Finish(w)
    PROVE  EFInd'
<1>1. job' = [job EXCEPT ![w] = Nothing] /\ UNCHANGED <<made, watched, bus>>
  BY DEF Finish
<1>2. \A v \in Workers : job'[v] = IF v = w THEN Nothing ELSE job[v]
  BY <1>1 DEF EFInd, EFTypeOK
<1>3. Stored' = Stored /\ \A e \in Stored :
         store'[e].of = store[e].of /\ store'[e].mapped = store[e].mapped
  BY FinishKnown DEF Stored
<1>4. store' \in [Events -> EventRows]
  <2>1. store' = [e \in Events |-> store'[e]]
    BY DEF Finish
  <2> QED BY <2>1, FinishKnown
<1>5. EFTypeOK'
  BY <1>1, <1>4, FinishLetters DEF EFInd, EFTypeOK
<1>6. StoreTellsTruth' /\ Told'
  BY <1>1, <1>3 DEF EFInd, StoreTellsTruth, Told
<1>7. JobsOK' /\ FlushesOnce'
  BY <1>2, FinishApart DEF JobsOK, FlushesOnce
<1>8. Apart'
  BY <1>2 DEF EFInd, Apart
<1>9. LettersOK'
  <2> SUFFICES ASSUME NEW d \in Letters, letter'[d].status # "absent"
               PROVE  letter'[d].event \in Stored
    BY <1>3 DEF LettersOK
  <2>1. letter[d].status # "absent" => letter[d].event \in Stored
    BY DEF EFInd, LettersOK
  <2>2. CASE job[w].op = "bury"
    BY <2>1, <2>2, FinishLetters
  <2>3. CASE job[w].op = "retry"
    BY <2>1, <2>3, FinishLetters
  <2>4. CASE job[w].op = "replay"
    BY <2>1, <2>4, FinishLetters
  <2> QED BY <2>2, <2>3, <2>4, FinishKnown
<1>10. Behind'
  BY FinishBehind
<1> QED BY <1>5, <1>6, <1>7, <1>8, <1>9, <1>10 DEF EFInd

LEMMA CreateSubscriptionKeeps ==
    ASSUME EFInd, CreateSubscription
    PROVE  EFInd'
BY DEF CreateSubscription, EFInd, EFTypeOK, StoreTellsTruth, JobsOK, JobOK, Apart,
       ApartJobs, FlushesOnce, FlushOnce, Told, LettersOK, Behind, WillWrite, Stored

-----------------------------------------------------------------------------

LEMMA EFNextKeeps == EFInd /\ [EFNext]_efVars => EFInd'
<1> SUFFICES ASSUME EFInd, [EFNext]_efVars PROVE EFInd'
  OBVIOUS
<1>1. CASE UNCHANGED efVars
  BY <1>1 DEF efVars, EFInd, EFTypeOK, StoreTellsTruth, JobsOK, JobOK, Apart, ApartJobs,
       FlushesOnce, FlushOnce, Told, LettersOK, Behind, WillWrite, Stored
<1>2. CASE CreateSubscription
  BY <1>2, CreateSubscriptionKeeps
<1>3. ASSUME NEW w \in Workers, Abort(w) PROVE EFInd'
  BY <1>3, JobEnds DEF Abort
<1> QED BY <1>1, <1>2, <1>3, PublishKeeps, CreateKeeps, DeadLetterKeeps,
           RetryReadsLetterKeeps, RetryReadsEventKeeps, ReplayKeeps, IngestNewKeeps,
           IngestAgainKeeps, EmitUnmappedKeeps, PublishCommitsKeeps, DualWriteFailsKeeps,
           FinishKeeps DEF EFNext

\* The inductive invariant holds throughout.
THEOREM EFInvariance == EFSpec => []EFInd
<1> QED BY EFInitial, EFNextKeeps, PTL DEF EFSpec

\* Rows keep their shape, and statuses stay among EVENT_STATUSES.
THEOREM EFTypeCorrect == EFSpec => []EFTypeOK
<1>1. EFInd => EFTypeOK
  BY DEF EFInd
<1> QED BY <1>1, EFInvariance, PTL

\* However letters, retries and replays of an event overlap, a dead-lettered event
\* has an open letter.
THEOREM OpenLetters == EFSpec => []DeadLetterIsOpen
<1>1. EFInd => DeadLetterIsOpen
  BY DEF EFInd, Behind, DeadLetterIsOpen
<1> QED BY <1>1, EFInvariance, PTL

\* The store tells of what has happened only, and of what the bus catalog does not
\* map once only.
THEOREM TruthfulStore == EFSpec => []StoreTellsTruth
<1>1. EFInd => StoreTellsTruth
  BY DEF EFInd
<1> QED BY <1>1, EFInvariance, PTL

\* Rows of the event store are never taken away or told differently, and an event
\* that was handled is never new again.
THEOREM ImmutableStore == EFSpec => StoreAppendOnly
<1> DEFINE Kept == \A e \in Stored :
               /\ store'[e].of = store[e].of /\ store'[e].mapped = store[e].mapped
               /\ store'[e].status # "absent"
               /\ store[e].status # "published" => store'[e].status # "published"
<1>1. ASSUME EFInd, [EFNext]_efVars PROVE [Kept]_efVars
  <2>1. store' = store => Kept
    BY DEF Stored
  <2>2. ASSUME NEW w \in Workers, PublishCommits(w) PROVE Kept
    <3>1. job[w].event \notin Stored
      BY <1>1, <2>2, JobKnown DEF PublishCommits, At, JobOK
    <3> QED BY <1>1, <2>2, <3>1 DEF PublishCommits, EFInd, EFTypeOK, Stored
  <2>3. ASSUME NEW w \in Workers, Finish(w) PROVE Kept
    <3>1. Outcome[job[w].op] \notin {"absent", "published"}
      BY <1>1, <2>3, FinishKnown DEF Outcome
    <3> QED BY <1>1, <2>3, <3>1, FinishKnown DEF Stored
  <2>4. UNCHANGED efVars => store' = store
    BY DEF efVars
  <2>5. CASE EFNext
    BY Zenon, <2>5, <2>1, <2>2, <2>3 DEF EFNext, CreateSubscription, Publish, Create, DeadLetter,
       RetryReadsLetter, RetryReadsEvent, Replay, IngestNew, IngestAgain, EmitUnmapped,
       DualWriteFails, Abort
  <2> QED BY <1>1, <2>1, <2>4, <2>5
<1> QED BY <1>1, EFInvariance, PTL DEF EFSpec, StoreAppendOnly
=============================================================================
