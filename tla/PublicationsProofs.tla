------------------------- MODULE PublicationsProofs -------------------------
(***************************************************************************)
(* Theorems about Publications, for every value of its constants: the two  *)
(* accounts of what is in force agree, revisions are immutable, and the    *)
(* handlers implement RevisionControl.                                     *)
(***************************************************************************)
EXTENDS Publications, TLAPS

\* What is said of revisions, of any rows of them, so that a handler that changes the rows
\* twice can be followed.
Own(rows, p) == {r \in Revisions : rows[r].publication = {p}}
Current(rows, p) == {r \in Own(rows, p) : rows[r].status = "current"}

Sound(rows) ==
    /\ rows \in [Revisions -> RevisionRows]
    /\ \A r \in Revisions :
          IF rows[r].status = "absent" THEN rows[r] = NoRevision
                                       ELSE \E p \in Publications : rows[r].publication = {p}
    /\ \A p \in Publications : \A r, s \in Own(rows, p) :
          /\ rows[r].supersedes \subseteq Own(rows, p) \ {r}
          /\ rows[r].number = rows[s].number => r = s

Kept(old, new) ==
    \A r \in Revisions : old[r].status # "absent" =>
        /\ new[r].publication = old[r].publication
        /\ new[r].number = old[r].number
        /\ old[r].supersedes # {} => new[r].supersedes = old[r].supersedes
        /\ new[r].status \in {"draft", "absent"} => new[r].status = old[r].status
        /\ old[r].status = "archived" => new[r].status = "archived"

\* The inductive invariant: sound rows, whose publications are there, and the reference
\* of a publication is what is in force.
PInv ==
    /\ publication \in [Publications -> PublicationRows]
    /\ linked \subseteq Publications \X Subjects
    /\ Sound(revision)
    /\ \A p \in Publications : Own(revision, p) # {} => There(p)
    /\ CurrentInForce

\* What an activation of r, a revision of p, does to the rows.
LEMMA ActivatedRows ==
    ASSUME NEW rows \in [Revisions -> RevisionRows], NEW p \in Publications,
           NEW r \in Revisions, NEW e \in AtMostOne(Revisions), rows[r].publication = {p}
    PROVE  LET new == Activated(rows, p, r, e)
           IN /\ new \in [Revisions -> RevisionRows]
              /\ new[r].status = "current"
              /\ new[r].supersedes = IF rows[r].supersedes = {} THEN e ELSE rows[r].supersedes
              /\ \A s \in Revisions :
                    /\ new[s].publication = rows[s].publication
                    /\ new[s].number = rows[s].number
                    /\ s # r => new[s].supersedes = rows[s].supersedes
                    /\ s # r /\ rows[s].publication = {p} /\ rows[s].status = "current"
                         => new[s].status = "superseded"
                    /\ s # r /\ ~(rows[s].publication = {p} /\ rows[s].status = "current")
                         => new[s] = rows[s]
<1> DEFINE new == Activated(rows, p, r, e)
<1>1. ASSUME NEW s \in Revisions
      PROVE  /\ new[s] \in RevisionRows
             /\ new[s].publication = rows[s].publication
             /\ new[s].number = rows[s].number
             /\ s # r => new[s].supersedes = rows[s].supersedes
             /\ s # r /\ rows[s].publication = {p} /\ rows[s].status = "current"
                  => new[s].status = "superseded"
             /\ s # r /\ ~(rows[s].publication = {p} /\ rows[s].status = "current")
                  => new[s] = rows[s]
  <2>1. rows[s] \in RevisionRows
    OBVIOUS
  <2>2. CASE s = r
    <3>1. new[s] = [rows[s] EXCEPT !.status = "current",
                                   !.supersedes = IF rows[s].supersedes = {} THEN e ELSE @]
      BY <2>2 DEF Activated
    <3>2. QED  BY <2>1, <2>2, <3>1 DEF RevisionRows
  <2>3. CASE s # r /\ rows[s].publication = {p} /\ rows[s].status = "current"
    <3>1. new[s] = [rows[s] EXCEPT !.status = "superseded"]
      BY <2>3 DEF Activated
    <3>2. QED  BY <2>1, <2>3, <3>1 DEF RevisionRows
  <2>4. CASE s # r /\ ~(rows[s].publication = {p} /\ rows[s].status = "current")
    <3>1. new[s] = rows[s]
      BY <2>4 DEF Activated
    <3>2. QED  BY <2>1, <2>4, <3>1
  <2>5. QED  BY <2>2, <2>3, <2>4
<1>2. new \in [Revisions -> RevisionRows]
  <2>1. new = [s \in Revisions |-> new[s]]
    BY DEF Activated
  <2>2. QED  BY <1>1, <2>1
<1>3. /\ new[r].status = "current"
      /\ new[r].supersedes = IF rows[r].supersedes = {} THEN e ELSE rows[r].supersedes
  <2>1. new[r] = [rows[r] EXCEPT !.status = "current",
                                 !.supersedes = IF rows[r].supersedes = {} THEN e ELSE @]
    BY DEF Activated
  <2>2. rows[r] \in RevisionRows
    OBVIOUS
  <2>3. QED  BY <2>1, <2>2 DEF RevisionRows
<1>4. QED  BY <1>1, <1>2, <1>3

\* The revision an activation supersedes is another one of the same publication.
LEMMA EarlierOwn ==
    ASSUME NEW p \in Publications, NEW r \in Revisions, NEW e \in Earlier(p, r)
    PROVE  e \in AtMostOne(Revisions) /\ e \subseteq RevisionsOf(p) \ {r}
BY DEF Earlier, AtMostOne, InForce, RevisionsOf

\* Rows kept by one step and by the next are kept by both.
LEMMA KeptTwice ==
    ASSUME NEW a, NEW b, NEW c, Kept(a, b), Kept(b, c)
    PROVE  Kept(a, c)
BY DEF Kept

\* Rows that do not change are kept.
LEMMA KeptSame ==
    ASSUME NEW a
    PROVE  Kept(a, a)
BY DEF Kept

\* The rows with a new draft.
Drafted(p, r, label, prior) == [revision EXCEPT ![r] = NewRevision(p, label, prior)]

\* A new draft leaves the other rows alone.
LEMMA DraftRows ==
    ASSUME Sound(revision), NEW p \in Publications, NEW r \in Revisions, NEW label \in Labels,
           NEW prior \in AtMostOne(Revisions), MayAdd(p, r, label, prior)
    PROVE  LET added == Drafted(p, r, label, prior)
           IN /\ Sound(added)
              /\ Kept(revision, added)
              /\ Own(added, p) = Own(revision, p) \cup {r}
              /\ added[r] = NewRevision(p, label, prior)
              /\ r \notin Own(revision, p)
              /\ revision[r].publication = {}
              /\ \A s \in Revisions \ {r} : added[s] = revision[s]
              /\ \A q \in Publications : Current(added, q) = Current(revision, q)
              /\ \A q \in Publications \ {p} : Own(added, q) = Own(revision, q)
<1> DEFINE added == Drafted(p, r, label, prior)
<1>1. revision[r] = NoRevision /\ revision \in [Revisions -> RevisionRows]
  BY DEF Sound, MayAdd
<1>2. added \in [Revisions -> RevisionRows] /\ added[r] = NewRevision(p, label, prior)
      /\ \A s \in Revisions \ {r} : added[s] = revision[s]
  <2>1. NewRevision(p, label, prior) \in RevisionRows
    BY DEF NewRevision, RevisionRows, AtMostOne
  <2>2. QED  BY <1>1, <2>1 DEF Drafted
<1> HIDE DEF added
<1>3. /\ Own(added, p) = Own(revision, p) \cup {r}
      /\ r \notin Own(revision, p)
      /\ \A q \in Publications \ {p} : Own(added, q) = Own(revision, q) /\ r \notin Own(added, q)
  BY <1>1, <1>2 DEF Own, NewRevision, NoRevision
<1>4. \A q \in Publications : Current(added, q) = Current(revision, q)
  <2>1. added[r].status # "current" /\ revision[r].status # "current"
    BY <1>1, <1>2 DEF NewRevision, NoRevision
  <2>2. ASSUME NEW q \in Publications, NEW s \in Revisions
        PROVE  s \in Current(added, q) <=> s \in Current(revision, q)
    <3>1. CASE s = r
      BY <2>1, <3>1 DEF Current
    <3>2. CASE s # r
      BY <1>2, <3>2 DEF Current, Own
    <3>3. QED  BY <3>1, <3>2
  <2>3. QED  BY Zenon, <2>2 DEF Current, Own
<1>5. Kept(revision, added)
  BY <1>1, <1>2 DEF Kept, NoRevision
<1>6. ASSUME NEW s \in Revisions
      PROVE  IF added[s].status = "absent" THEN added[s] = NoRevision
                                           ELSE \E q \in Publications : added[s].publication = {q}
  BY <1>2 DEF Sound, NewRevision
<1>7. ASSUME NEW q \in Publications, NEW s \in Own(added, q), NEW u \in Own(added, q)
      PROVE  /\ added[s].supersedes \subseteq Own(added, q) \ {s}
             /\ added[s].number = added[u].number => s = u
  <2>1. CASE q # p
    <3>1. s \in Own(revision, q) /\ u \in Own(revision, q) /\ s # r /\ u # r
      BY <1>3, <2>1
    <3>2. QED  BY <1>2, <1>3, <2>1, <3>1 DEF Sound, Own
  <2>2. CASE q = p
    <3>1. /\ added[r].supersedes = prior /\ added[r].number = {label}
      BY <1>2 DEF NewRevision
    <3>2. prior \subseteq Own(revision, p) /\ \A v \in Own(revision, p) : revision[v].number # {label}
      BY DEF MayAdd, RevisionsOf, Own
    <3>3. \A v \in Own(revision, p) : v \in Revisions /\ added[v] = revision[v]
      BY <1>2, <1>3 DEF Own
    <3>4. added[s].supersedes \subseteq Own(added, q) \ {s}
      BY <1>3, <2>2, <3>1, <3>2, <3>3 DEF Sound
    <3>5. added[s].number = added[u].number => s = u
      <4>1. \A v, w \in Own(revision, p) : added[v].number = added[w].number => v = w
        BY <3>3 DEF Sound
      <4>2. \A v \in Own(revision, p) : added[v].number # added[r].number
        BY <3>1, <3>2, <3>3
      <4>3. QED  BY <1>3, <2>2, <4>1, <4>2
    <3>6. QED  BY <3>4, <3>5
  <2>3. QED  BY <2>1, <2>2
<1>8. Sound(added)
  BY <1>2, <1>6, <1>7 DEF Sound
<1>9. revision[r].publication = {}
  BY <1>1 DEF NoRevision
<1>10. QED  BY <1>2, <1>3, <1>4, <1>5, <1>8, <1>9 DEF added

\* An activation keeps the rows sound and leaves one revision in force.
LEMMA ForcedRows ==
    ASSUME NEW rows, Sound(rows), NEW p \in Publications, NEW r \in Own(rows, p),
           NEW e \in AtMostOne(Revisions), e \subseteq Own(rows, p) \ {r},
           rows[r].status \in {"draft", "superseded"}
    PROVE  LET new == Activated(rows, p, r, e)
           IN /\ Sound(new)
              /\ Kept(rows, new)
              /\ Current(new, p) = {r}
              /\ \A s \in Revisions : new[s].publication = rows[s].publication
              /\ \A q \in Publications : Own(new, q) = Own(rows, q)
              /\ \A q \in Publications \ {p} : Current(new, q) = Current(rows, q)
<1> DEFINE new == Activated(rows, p, r, e)
<1>1. rows \in [Revisions -> RevisionRows] /\ r \in Revisions /\ rows[r].publication = {p}
  BY DEF Sound, Own
<1>2. /\ new \in [Revisions -> RevisionRows]
      /\ new[r].status = "current"
      /\ new[r].supersedes = IF rows[r].supersedes = {} THEN e ELSE rows[r].supersedes
      /\ \A s \in Revisions :
            /\ new[s].publication = rows[s].publication
            /\ new[s].number = rows[s].number
            /\ s # r => new[s].supersedes = rows[s].supersedes
            /\ s # r /\ rows[s].publication = {p} /\ rows[s].status = "current"
                 => new[s].status = "superseded"
            /\ s # r /\ ~(rows[s].publication = {p} /\ rows[s].status = "current")
                 => new[s] = rows[s]
  BY SMTT(30), <1>1, ActivatedRows
<1> HIDE DEF new
<1>3. \A q \in Publications : Own(new, q) = Own(rows, q)
  BY <1>2 DEF Own
<1>4. Current(new, p) = {r}
  <2>1. ASSUME NEW s \in Current(new, p) PROVE s = r
    BY <1>2, <2>1 DEF Current, Own
  <2>2. r \in Current(new, p)
    BY <1>1, <1>2 DEF Current, Own
  <2>3. QED  BY <2>1, <2>2
<1>5. ASSUME NEW q \in Publications \ {p} PROVE Current(new, q) = Current(rows, q)
  <2>1. \A s \in Own(rows, q) : s \in Revisions /\ rows[s].publication # {p} /\ s # r
    BY <1>1 DEF Own
  <2>2. \A s \in Own(rows, q) : new[s] = rows[s]
    BY <1>2, <2>1
  <2>3. QED  BY <1>3, <2>2 DEF Current
<1>6. Kept(rows, new)
  <2>1. ASSUME NEW s \in Revisions, rows[s].status # "absent"
        PROVE  /\ new[s].publication = rows[s].publication
               /\ new[s].number = rows[s].number
               /\ rows[s].supersedes # {} => new[s].supersedes = rows[s].supersedes
               /\ new[s].status \in {"draft", "absent"} => new[s].status = rows[s].status
               /\ rows[s].status = "archived" => new[s].status = "archived"
    <3>1. CASE s = r
      BY <1>2, <3>1
    <3>2. CASE s # r /\ rows[s].publication = {p} /\ rows[s].status = "current"
      BY <1>2, <3>2
    <3>3. CASE s # r /\ ~(rows[s].publication = {p} /\ rows[s].status = "current")
      BY <1>2, <3>3
    <3>4. QED  BY <3>1, <3>2, <3>3
  <2>2. QED  BY <2>1 DEF Kept
<1>7. ASSUME NEW s \in Revisions
      PROVE  IF new[s].status = "absent" THEN new[s] = NoRevision
                                         ELSE \E q \in Publications : new[s].publication = {q}
  <2>1. CASE s = r
    BY <1>1, <1>2, <2>1
  <2>2. CASE s # r /\ rows[s].publication = {p} /\ rows[s].status = "current"
    BY <1>2, <2>2
  <2>3. CASE s # r /\ ~(rows[s].publication = {p} /\ rows[s].status = "current")
    BY <1>2, <2>3 DEF Sound
  <2>4. QED  BY <2>1, <2>2, <2>3
<1>8. ASSUME NEW q \in Publications, NEW s \in Own(new, q), NEW u \in Own(new, q)
      PROVE  /\ new[s].supersedes \subseteq Own(new, q) \ {s}
             /\ new[s].number = new[u].number => s = u
  <2>1. s \in Own(rows, q) /\ u \in Own(rows, q) /\ s \in Revisions /\ u \in Revisions
    BY <1>3 DEF Own
  <2>2. rows[s].supersedes \subseteq Own(rows, q) \ {s}
        /\ (rows[s].number = rows[u].number => s = u)
    BY <2>1 DEF Sound
  <2>3. s = r => q = p
    BY <1>1, <2>1 DEF Own
  <2>4. new[s].supersedes = rows[s].supersedes \/ (s = r /\ new[s].supersedes = e)
    BY <1>2, <2>1
  <2>5. QED  BY <1>2, <1>3, <2>1, <2>2, <2>3, <2>4
<1>9. Sound(new)
  BY <1>2, <1>7, <1>8 DEF Sound
<1>10. QED  BY <1>2, <1>3, <1>4, <1>5, <1>6, <1>9 DEF new

\* An archived publication has nothing in force.
LEMMA ArchivedRows ==
    ASSUME Sound(revision), NEW p \in Publications
    PROVE  LET new == [r \in Revisions |->
                         IF r \in InForce(p) THEN [revision[r] EXCEPT !.status = "archived"]
                                             ELSE revision[r]]
           IN /\ Sound(new)
              /\ Kept(revision, new)
              /\ Current(new, p) = {}
              /\ \A s \in Revisions : new[s].publication = revision[s].publication
              /\ \A q \in Publications : Own(new, q) = Own(revision, q)
              /\ \A q \in Publications \ {p} : Current(new, q) = Current(revision, q)
<1> DEFINE new == [r \in Revisions |->
                     IF r \in InForce(p) THEN [revision[r] EXCEPT !.status = "archived"]
                                         ELSE revision[r]]
<1>1. ASSUME NEW r \in Revisions
      PROVE  /\ new[r] \in RevisionRows
             /\ new[r].publication = revision[r].publication
             /\ new[r].number = revision[r].number
             /\ new[r].supersedes = revision[r].supersedes
             /\ r \in InForce(p) => new[r].status = "archived"
             /\ r \notin InForce(p) => new[r] = revision[r]
  <2>1. revision[r] \in RevisionRows
    BY DEF Sound
  <2>2. CASE r \in InForce(p)
    <3>1. new[r] = [revision[r] EXCEPT !.status = "archived"]
      BY <2>2
    <3>2. QED  BY <2>1, <2>2, <3>1 DEF RevisionRows
  <2>3. CASE r \notin InForce(p)
    BY <2>1, <2>3
  <2>4. QED  BY <2>2, <2>3
<1>2. new \in [Revisions -> RevisionRows]
  BY <1>1
<1> HIDE DEF new
<1>3. \A r \in InForce(p) : r \in Revisions /\ revision[r].status = "current"
                                /\ revision[r].publication = {p}
  BY DEF InForce, RevisionsOf
<1>4. \A q \in Publications : Own(new, q) = Own(revision, q)
  BY <1>1 DEF Own
<1>5. Current(new, p) = {}
  BY <1>1 DEF Current, Own, InForce, RevisionsOf
<1>6. \A q \in Publications \ {p} : Current(new, q) = Current(revision, q)
  <2>1. ASSUME NEW q \in Publications \ {p}, NEW r \in Own(revision, q)
        PROVE  new[r] = revision[r]
    <3>1. r \in Revisions /\ revision[r].publication = {q} /\ q # p
      BY DEF Own
    <3>2. r \notin InForce(p)
      BY <1>3, <3>1
    <3>3. QED  BY <1>1, <3>1, <3>2
  <2>2. QED  BY Zenon, <1>4, <2>1 DEF Current
<1>7. Kept(revision, new)
  BY <1>1, <1>3 DEF Kept
<1>8. Sound(new)
  <2>1. ASSUME NEW r \in Revisions
        PROVE  IF new[r].status = "absent" THEN new[r] = NoRevision
                                           ELSE \E q \in Publications : new[r].publication = {q}
    BY <1>1, <1>3 DEF Sound
  <2>2. ASSUME NEW q \in Publications, NEW r \in Own(new, q), NEW s \in Own(new, q)
        PROVE  /\ new[r].supersedes \subseteq Own(new, q) \ {r}
               /\ new[r].number = new[s].number => r = s
    <3>1. r \in Own(revision, q) /\ s \in Own(revision, q) /\ r \in Revisions /\ s \in Revisions
      BY <1>4 DEF Own
    <3>2. QED  BY <1>1, <1>4, <3>1 DEF Sound
  <2>3. QED  BY <1>2, <2>1, <2>2 DEF Sound
<1>9. QED  BY <1>1, <1>4, <1>5, <1>6, <1>7, <1>8 DEF new

-----------------------------------------------------------------------------
\* What is proved of every step: the invariant holds again, the revisions are kept, and
\* revision control takes a step or none.
Advances ==
    /\ PInv'
    /\ Kept(revision, revision')
    /\ [Control!Next]_(Control!vars)

\* The invariant after a step, from its parts over the new rows.
LEMMA InvariantAfter ==
    ASSUME publication' \in [Publications -> PublicationRows],
           linked' \subseteq Publications \X Subjects,
           Sound(revision'),
           \A p \in Publications : Own(revision', p) # {} => publication'[p].status # "absent",
           \A p \in Publications :
              Current(revision', p) = IF publication'[p].status = "active"
                                        THEN publication'[p].current ELSE {}
    PROVE  PInv'
<1>1. (\A p \in Publications : Own(revision, p) # {} => There(p))'
  BY DEF There, Own
<1>2. CurrentInForce'
  BY DEF CurrentInForce, InForce, RevisionsOf, Current, Own
<1>3. Sound(revision)'
  BY DEF Sound, Own
<1>4. QED  BY <1>1, <1>2, <1>3 DEF PInv

\* The invariant as the handlers find it.
LEMMA Found ==
    ASSUME PInv
    PROVE  /\ publication \in [Publications -> PublicationRows]
           /\ linked \subseteq Publications \X Subjects
           /\ Sound(revision)
           /\ \A p \in Publications :
                 /\ publication[p] \in PublicationRows
                 /\ InForce(p) = Current(revision, p)
                 /\ RevisionsOf(p) = Own(revision, p)
                 /\ Current(revision, p) \subseteq Own(revision, p)
                 /\ Own(revision, p) # {} => publication[p].status # "absent"
                 /\ Current(revision, p) = IF publication[p].status = "active"
                                             THEN publication[p].current ELSE {}
BY DEF PInv, There, CurrentInForce, InForce, RevisionsOf, Own, Current

\* A step that leaves the revisions and what is active alone does not concern revision
\* control.
LEMMA Elsewhere ==
    ASSUME PInv, UNCHANGED revision,
           publication' \in [Publications -> PublicationRows],
           linked' \subseteq Publications \X Subjects,
           \A p \in Publications :
              /\ publication[p].status # "absent" => publication'[p].status = publication[p].status
              /\ publication'[p].status = "archived" => publication[p].status = "archived"
              /\ publication'[p].status = "active" /\ publication[p].status = "active"
                    => publication'[p].current = publication[p].current
              /\ publication'[p].status = "active" /\ publication[p].status # "active"
                    => publication[p].status = "absent" /\ publication'[p].current = {}
    PROVE  Advances
<1>1. \A p \in Publications : Own(revision', p) = Own(revision, p)
                               /\ Current(revision', p) = Current(revision, p)
  OBVIOUS
<1>2. Sound(revision') /\ Kept(revision, revision')
  BY Found, KeptSame
<1>3. ASSUME NEW p \in Publications
      PROVE  /\ Own(revision', p) # {} => publication'[p].status # "absent"
             /\ Current(revision', p) = IF publication'[p].status = "active"
                                          THEN publication'[p].current ELSE {}
             /\ InForce(p)' = InForce(p)
             /\ publication'[p].status = "archived" <=> publication[p].status = "archived"
  <2>1. publication[p].status \in {"absent", "active", "archived"}
        /\ publication'[p].status \in {"absent", "active", "archived"}
    BY Found DEF PublicationRows
  <2>2. InForce(p)' = InForce(p)
    BY DEF InForce, RevisionsOf
  <2>3. QED  BY <1>1, <2>1, <2>2, Found
<1>4. PInv'
  BY <1>2, <1>3, Found, InvariantAfter
<1>5. UNCHANGED Control!vars
  BY <1>3 DEF Control!vars
<1>6. QED  BY <1>2, <1>4, <1>5 DEF Advances

\* A new publication without a revision.
LEMMA CreatePublicationAdvances ==
    ASSUME PInv, NEW p \in Publications, NEW number \in Numbers,
           NEW access \in AccessClassifications, NEW prior \in AtMostOne(Publications),
           NEW chapter \in AtMostOne(Subjects),
           CreatePublication(p, number, access, prior, chapter)
    PROVE  Advances
<1> DEFINE row == [status |-> "active", number |-> {number}, access |-> {access},
                   current |-> {}, supersedes |-> prior]
<1>1. /\ publication[p].status = "absent"
      /\ publication' = [publication EXCEPT ![p] = row]
      /\ linked' = linked \cup ({p} \X chapter)
      /\ UNCHANGED revision
  BY DEF CreatePublication, NewPublication
<1>2. row \in PublicationRows
  BY DEF PublicationRows, AtMostOne
<1>3. /\ publication' \in [Publications -> PublicationRows]
      /\ linked' \subseteq Publications \X Subjects
  BY <1>1, <1>2, Found DEF AtMostOne
<1>4. row.status = "active" /\ row.current = {}
  OBVIOUS
<1>5. QED
  <2> HIDE DEF row
  <2>1. \A q \in Publications \ {p} : publication'[q] = publication[q]
    BY <1>1, Found
  <2>2. publication'[p] = row
    BY <1>1, Found
  <2>3. QED  BY <1>1, <1>3, <1>4, <2>1, <2>2, Found, Elsewhere

\* An update and a new access classification.
LEMMA UpdatesAdvance ==
    ASSUME PInv, NEW p \in Publications,
           \/ \E prior \in AtMostOne(Publications) : UpdatePublication(p, prior)
           \/ \E access \in AccessClassifications : SetAccessClassification(p, access)
           \/ \E subject \in Subjects : Link(p, subject)
    PROVE  Advances
<1>1. /\ UNCHANGED revision
      /\ publication' \in [Publications -> PublicationRows]
      /\ linked' \subseteq Publications \X Subjects
      /\ \A q \in Publications : publication'[q].status = publication[q].status
                                  /\ publication'[q].current = publication[q].current
  <2>1. CASE \E prior \in AtMostOne(Publications) : UpdatePublication(p, prior)
    <3>1. PICK prior \in AtMostOne(Publications) : UpdatePublication(p, prior)
      BY <2>1
    <3>2. /\ publication' = [publication EXCEPT ![p].supersedes = prior]
          /\ UNCHANGED <<revision, linked>>
      BY <3>1 DEF UpdatePublication
    <3>3. QED  BY <3>2, Found DEF PublicationRows
  <2>2. CASE \E access \in AccessClassifications : SetAccessClassification(p, access)
    <3>1. PICK access \in AccessClassifications : SetAccessClassification(p, access)
      BY <2>2
    <3>2. /\ publication' = [publication EXCEPT ![p].access = {access}]
          /\ UNCHANGED <<revision, linked>>
          /\ {access} \in AtMostOne(AccessClassifications)
      BY <3>1 DEF SetAccessClassification, AtMostOne
    <3>3. QED  BY Zenon, <3>2, Found DEF PublicationRows
  <2>3. CASE \E subject \in Subjects : Link(p, subject)
    BY <2>3, Found DEF Link
  <2>4. QED  BY <2>1, <2>2, <2>3
<1>2. QED  BY <1>1, Found, Elsewhere

\* A step that gives one publication new rows and a reference that agrees with them.
LEMMA OneDocument ==
    ASSUME PInv, NEW p \in Publications, Sound(revision'), Kept(revision, revision'),
           publication' \in [Publications -> PublicationRows],
           linked' \subseteq Publications \X Subjects,
           publication'[p].status # "absent",
           Current(revision', p) = (IF publication'[p].status = "active"
                                      THEN publication'[p].current ELSE {}),
           \A q \in Publications \ {p} :
              /\ publication'[q] = publication[q]
              /\ Own(revision', q) = Own(revision, q)
              /\ Current(revision', q) = Current(revision, q)
    PROVE  /\ PInv'
           /\ \A q \in Publications : InForce(q)' = Current(revision', q)
           /\ \A q \in Publications \ {p} :
                 InForce(q)' = InForce(q) /\ publication'[q] = publication[q]
<1>1. ASSUME NEW q \in Publications
      PROVE  /\ Own(revision', q) # {} => publication'[q].status # "absent"
             /\ Current(revision', q) = IF publication'[q].status = "active"
                                          THEN publication'[q].current ELSE {}
  <2>1. CASE q = p
    BY <2>1
  <2>2. CASE q # p
    BY <2>2, Found
  <2>3. QED  BY <2>1, <2>2
<1>2. PInv'
  BY <1>1, InvariantAfter
<1>3. \A q \in Publications : InForce(q)' = Current(revision', q)
  BY DEF InForce, RevisionsOf, Current, Own
<1>4. QED  BY <1>2, <1>3, Found

\* An archived publication is a closed document.
LEMMA ArchiveAdvances ==
    ASSUME PInv, NEW p \in Publications, ArchivePublication(p)
    PROVE  Advances
<1>1. /\ publication[p].status = "active"
      /\ publication' = [publication EXCEPT ![p].status = "archived"]
      /\ revision' = [r \in Revisions |->
                        IF r \in InForce(p) THEN [revision[r] EXCEPT !.status = "archived"]
                                            ELSE revision[r]]
      /\ UNCHANGED linked
  BY DEF ArchivePublication
<1>2. /\ Sound(revision')
      /\ Kept(revision, revision')
      /\ Current(revision', p) = {}
      /\ \A r \in Revisions : revision'[r].publication = revision[r].publication
      /\ \A q \in Publications : Own(revision', q) = Own(revision, q)
      /\ \A q \in Publications \ {p} : Current(revision', q) = Current(revision, q)
  BY <1>1, Found, ArchivedRows
<1>3. /\ publication' \in [Publications -> PublicationRows]
      /\ publication'[p].status = "archived"
      /\ \A q \in Publications \ {p} : publication'[q] = publication[q]
  BY <1>1, Found DEF PublicationRows
<1>4. /\ PInv'
      /\ InForce(p)' = {}
      /\ \A q \in Publications \ {p} :
            InForce(q)' = InForce(q) /\ publication'[q] = publication[q]
  BY ZenonT(60), <1>1, <1>2, <1>3, Found, OneDocument
<1>5. Control!Close(p)
  BY <1>1, <1>2, <1>3, <1>4 DEF Control!Close
<1>6. QED  BY <1>2, <1>4, <1>5 DEF Advances, Control!Next

\* A new draft is a revision that is added.
LEMMA CreateRevisionAdvances ==
    ASSUME PInv, NEW p \in Publications, NEW r \in Revisions, NEW label \in Labels,
           NEW prior \in AtMostOne(Revisions), CreateRevision(p, r, label, prior)
    PROVE  Advances
<1>1. /\ publication[p].status = "active"
      /\ MayAdd(p, r, label, prior)
      /\ revision' = Drafted(p, r, label, prior)
      /\ UNCHANGED <<publication, linked>>
  BY DEF CreateRevision, Drafted
<1>2. /\ Sound(revision')
      /\ Kept(revision, revision')
      /\ revision'[r] = NewRevision(p, label, prior)
      /\ revision[r].publication = {}
      /\ \A s \in Revisions \ {r} : revision'[s] = revision[s]
      /\ \A q \in Publications : Current(revision', q) = Current(revision, q)
      /\ \A q \in Publications \ {p} : Own(revision', q) = Own(revision, q)
  BY <1>1, Found, DraftRows
<1>3. /\ PInv'
      /\ \A q \in Publications : InForce(q)' = InForce(q)
  BY <1>1, <1>2, Found, OneDocument
<1>4. Control!Add(p, r)
  <2>1. /\ revision'[r].publication = {p}
        /\ \A s \in Revisions \ {r} : revision'[s].publication = revision[s].publication
    BY <1>2 DEF NewRevision
  <2>2. QED  BY <1>1, <1>2, <1>3, <2>1 DEF Control!Add
<1>5. QED  BY <1>2, <1>3, <1>4 DEF Advances, Control!Next

\* An activation puts a revision in force in place of the one before.
LEMMA ActivateAdvances ==
    ASSUME PInv, NEW p \in Publications, NEW r \in Revisions, ActivateRevision(p, r)
    PROVE  Advances
<1>1. PICK e \in Earlier(p, r) :
         /\ publication[p].status = "active"
         /\ r \in RevisionsOf(p)
         /\ revision[r].status \in {"draft", "superseded"}
         /\ revision' = Activated(revision, p, r, e)
         /\ publication' = [publication EXCEPT ![p].current = {r}]
         /\ UNCHANGED linked
  BY DEF ActivateRevision
<1>2. r \in Own(revision, p) /\ e \in AtMostOne(Revisions) /\ e \subseteq Own(revision, p) \ {r}
      /\ revision[r].publication = {p}
  BY <1>1, Found, EarlierOwn DEF Own
<1>3. /\ Sound(revision')
      /\ Kept(revision, revision')
      /\ Current(revision', p) = {r}
      /\ \A s \in Revisions : revision'[s].publication = revision[s].publication
      /\ \A q \in Publications : Own(revision', q) = Own(revision, q)
      /\ \A q \in Publications \ {p} : Current(revision', q) = Current(revision, q)
  BY <1>1, <1>2, Found, ForcedRows
<1>4. /\ publication' \in [Publications -> PublicationRows]
      /\ publication'[p].status = "active"
      /\ publication'[p].current = {r}
      /\ \A q \in Publications \ {p} : publication'[q] = publication[q]
  BY <1>1, Found DEF PublicationRows, AtMostOne
<1>5. /\ PInv'
      /\ InForce(p)' = {r}
      /\ \A q \in Publications \ {p} :
            InForce(q)' = InForce(q) /\ publication'[q] = publication[q]
  BY <1>1, <1>3, <1>4, Found, OneDocument
<1>6. Control!PutInForce(p, r)
  BY ZenonT(60), <1>1, <1>2, <1>3, <1>4, <1>5 DEF Control!PutInForce
<1>7. QED  BY <1>3, <1>5, <1>6 DEF Advances, Control!Next

\* The rows after a revision is added and put in force in one transaction.
LEMMA AddedRows ==
    ASSUME Sound(revision), NEW p \in Publications, NEW r \in Revisions, NEW label \in Labels,
           NEW prior \in AtMostOne(Revisions), MayAdd(p, r, label, prior), NEW e \in Earlier(p, r)
    PROVE  LET new == Activated(Drafted(p, r, label, prior), p, r, e)
           IN /\ Sound(new)
              /\ Kept(revision, new)
              /\ Current(new, p) = {r}
              /\ revision[r].publication = {}
              /\ new[r].publication = {p}
              /\ \A s \in Revisions \ {r} : new[s].publication = revision[s].publication
              /\ \A q \in Publications \ {p} :
                    Own(new, q) = Own(revision, q) /\ Current(new, q) = Current(revision, q)
<1> DEFINE added == Drafted(p, r, label, prior)
           new == Activated(added, p, r, e)
<1>1. /\ Sound(added)
      /\ Kept(revision, added)
      /\ Own(added, p) = Own(revision, p) \cup {r}
      /\ added[r] = NewRevision(p, label, prior)
      /\ revision[r].publication = {}
      /\ \A s \in Revisions \ {r} : added[s] = revision[s]
      /\ \A q \in Publications : Current(added, q) = Current(revision, q)
      /\ \A q \in Publications \ {p} : Own(added, q) = Own(revision, q)
  BY DraftRows
<1> HIDE DEF added
<1>2. /\ e \in AtMostOne(Revisions)
      /\ e \subseteq Own(added, p) \ {r}
      /\ r \in Own(added, p)
      /\ added[r].status \in {"draft", "superseded"}
      /\ added[r].publication = {p}
  BY <1>1, EarlierOwn DEF NewRevision, RevisionsOf, Own
<1>3. /\ Sound(new)
      /\ Kept(added, new)
      /\ Current(new, p) = {r}
      /\ \A s \in Revisions : new[s].publication = added[s].publication
      /\ \A q \in Publications : Own(new, q) = Own(added, q)
      /\ \A q \in Publications \ {p} : Current(new, q) = Current(added, q)
  BY <1>1, <1>2, ForcedRows
<1>4. Kept(revision, new)
  BY <1>1, <1>3, KeptTwice
<1>5. QED  BY <1>1, <1>2, <1>3, <1>4 DEF added

\* A revision created active is added and in force at once.
LEMMA CreateActiveAdvances ==
    ASSUME PInv, NEW p \in Publications, NEW r \in Revisions, NEW label \in Labels,
           NEW prior \in AtMostOne(Revisions), CreateActive(p, r, label, prior)
    PROVE  Advances
<1>1. PICK e \in Earlier(p, r) :
         /\ publication[p].status = "active"
         /\ MayAdd(p, r, label, prior)
         /\ revision' = Activated(Drafted(p, r, label, prior), p, r, e)
         /\ publication' = [publication EXCEPT ![p].current = {r}]
         /\ UNCHANGED linked
  BY DEF CreateActive, Drafted
<1>2. /\ Sound(revision')
      /\ Kept(revision, revision')
      /\ Current(revision', p) = {r}
      /\ revision[r].publication = {}
      /\ revision'[r].publication = {p}
      /\ \A s \in Revisions \ {r} : revision'[s].publication = revision[s].publication
      /\ \A q \in Publications \ {p} :
            Own(revision', q) = Own(revision, q) /\ Current(revision', q) = Current(revision, q)
  BY <1>1, Found, AddedRows
<1>3. /\ publication' \in [Publications -> PublicationRows]
      /\ publication'[p].status = "active"
      /\ publication'[p].current = {r}
      /\ \A q \in Publications \ {p} : publication'[q] = publication[q]
  BY <1>1, Found DEF PublicationRows, AtMostOne
<1>4. /\ PInv'
      /\ InForce(p)' = {r}
      /\ \A q \in Publications \ {p} :
            InForce(q)' = InForce(q) /\ publication'[q] = publication[q]
  BY <1>1, <1>2, <1>3, Found, OneDocument
<1>5. Control!AddInForce(p, r)
  BY <1>1, <1>2, <1>3, <1>4 DEF Control!AddInForce
<1>6. QED  BY <1>2, <1>4, <1>5 DEF Advances, Control!Next

\* A publication created with a revision, in force or not.
LEMMA CreateRevisedAdvances ==
    ASSUME PInv, NEW p \in Publications, NEW number \in Numbers,
           NEW access \in AccessClassifications, NEW prior \in AtMostOne(Publications),
           NEW chapter \in AtMostOne(Subjects), NEW r \in Revisions, NEW label \in Labels,
           NEW activate \in BOOLEAN,
           CreateRevised(p, number, access, prior, chapter, r, label, activate)
    PROVE  Advances
<1> DEFINE row == [status |-> "active", number |-> {number}, access |-> {access},
                   current |-> IF activate THEN {r} ELSE {}, supersedes |-> prior]
<1>1. PICK e \in Earlier(p, r) :
         /\ MayAdd(p, r, label, {})
         /\ publication[p].status = "absent"
         /\ publication' = [publication EXCEPT ![p] = row]
         /\ linked' = linked \cup ({p} \X chapter)
         /\ revision' = IF activate THEN Activated(Drafted(p, r, label, {}), p, r, e)
                                    ELSE Drafted(p, r, label, {})
  BY DEF CreateRevised, NewPublication, Drafted
<1>2. row \in PublicationRows /\ row.status = "active"
      /\ row.current = IF activate THEN {r} ELSE {}
  BY DEF PublicationRows, AtMostOne
<1>3. /\ publication' \in [Publications -> PublicationRows]
      /\ linked' \subseteq Publications \X Subjects
  BY <1>1, <1>2, Found DEF AtMostOne
<1> HIDE DEF row
<1>4. /\ publication'[p].status = "active"
      /\ publication'[p].current = IF activate THEN {r} ELSE {}
      /\ \A q \in Publications \ {p} : publication'[q] = publication[q]
  BY <1>1, <1>2, Found
<1>5. {} \in AtMostOne(Revisions)
  BY DEF AtMostOne
<1> DEFINE closed == {q \in Publications : publication[q].status = "archived"}
<1>6. UNCHANGED closed /\ p \notin closed
  <2>1. \A q \in Publications : publication'[q].status = "archived" <=> publication[q].status = "archived"
    BY <1>1, <1>4
  <2>2. QED  BY <1>1, <2>1
<1> HIDE DEF closed
<1> DEFINE owner == [s \in Revisions |-> revision[s].publication]
           inForce == [q \in Publications |-> InForce(q)]
<1>7. CASE activate
  <2>1. /\ Sound(revision')
        /\ Kept(revision, revision')
        /\ Current(revision', p) = {r}
        /\ revision[r].publication = {}
        /\ revision'[r].publication = {p}
        /\ \A s \in Revisions \ {r} : revision'[s].publication = revision[s].publication
        /\ \A q \in Publications \ {p} :
              Own(revision', q) = Own(revision, q) /\ Current(revision', q) = Current(revision, q)
    BY <1>1, <1>5, <1>7, Found, AddedRows
  <2>2. /\ PInv'
        /\ InForce(p)' = {r}
        /\ \A q \in Publications \ {p} :
              InForce(q)' = InForce(q) /\ publication'[q] = publication[q]
    BY <1>3, <1>4, <1>7, <2>1, Found, OneDocument
  <2>3. Control!AddInForce(p, r)
    <3>1. owner[r] = {} /\ owner' = [owner EXCEPT ![r] = {p}]
      BY <2>1
    <3>2. inForce' = [inForce EXCEPT ![p] = {r}]
      BY <2>2
    <3>3. QED  BY <1>6, <3>1, <3>2 DEF Control!AddInForce, closed
  <2>4. QED  BY <2>1, <2>2, <2>3 DEF Advances, Control!Next
<1>8. CASE ~activate
  <2>1. /\ Sound(revision')
        /\ Kept(revision, revision')
        /\ revision'[r] = NewRevision(p, label, {})
        /\ revision[r].publication = {}
        /\ \A s \in Revisions \ {r} : revision'[s] = revision[s]
        /\ \A q \in Publications : Current(revision', q) = Current(revision, q)
        /\ \A q \in Publications \ {p} : Own(revision', q) = Own(revision, q)
    BY <1>1, <1>5, <1>8, Found, DraftRows
  <2>2. Current(revision, p) = {}
    BY <1>1, Found
  <2>3. /\ PInv'
        /\ \A q \in Publications : InForce(q)' = InForce(q)
    <3>1. Current(revision', p) = IF publication'[p].status = "active"
                                    THEN publication'[p].current ELSE {}
      BY <1>4, <1>8, <2>1, <2>2
    <3>2. /\ PInv'
          /\ InForce(p)' = Current(revision', p)
          /\ \A q \in Publications \ {p} : InForce(q)' = InForce(q)
      BY <1>3, <1>4, <2>1, <3>1, OneDocument
    <3>3. QED  BY <2>1, <2>2, <3>2, Found
  <2>4. /\ revision'[r].publication = {p}
        /\ \A s \in Revisions \ {r} : revision'[s].publication = revision[s].publication
    BY <2>1 DEF NewRevision
  <2>5. Control!Add(p, r)
    <3>1. owner[r] = {} /\ owner' = [owner EXCEPT ![r] = {p}]
      BY <2>1, <2>4
    <3>2. UNCHANGED inForce
      BY <2>3
    <3>3. QED  BY <1>6, <3>1, <3>2 DEF Control!Add, closed
  <2>6. QED  BY <2>1, <2>3, <2>5 DEF Advances, Control!Next
<1>9. QED  BY <1>7, <1>8

-----------------------------------------------------------------------------
\* Nothing is there at first.
LEMMA PStart == Init => PInv /\ Control!Init
<1> SUFFICES ASSUME Init PROVE PInv /\ Control!Init
  OBVIOUS
<1>1. NoRevision \in RevisionRows /\ NoPublication \in PublicationRows
  BY DEF NoRevision, RevisionRows, NoPublication, PublicationRows, AtMostOne
<1>2. \A r \in Revisions : revision[r] = NoRevision /\ revision[r].publication = {}
                             /\ revision[r].status = "absent"
  BY DEF Init, NoRevision
<1>3. \A p \in Publications : Own(revision, p) = {} /\ InForce(p) = {}
                             /\ publication[p].status = "absent"
  BY Zenon, <1>2 DEF Init, Own, InForce, RevisionsOf, NoPublication
<1>4. revision \in [Revisions -> RevisionRows] /\ publication \in [Publications -> PublicationRows]
  BY <1>1 DEF Init
<1>5. Sound(revision)
  BY <1>2, <1>3, <1>4 DEF Sound
<1>6. CurrentInForce
  BY Zenon, <1>3 DEF CurrentInForce
<1>7. PInv
  BY <1>3, <1>4, <1>5, <1>6 DEF PInv, Init
<1>8. Control!Init
  BY <1>2, <1>3 DEF Control!Init
<1>9. QED  BY <1>7, <1>8

\* Every step advances.
LEMMA PStep == PInv /\ [Next]_vars => Advances
<1> SUFFICES ASSUME PInv, [Next]_vars PROVE Advances
  OBVIOUS
<1>1. ASSUME NEW p \in Publications, PublicationNext(p) PROVE Advances
  BY <1>1, CreatePublicationAdvances, CreateRevisedAdvances, UpdatesAdvance, ArchiveAdvances
     DEF PublicationNext
<1>2. ASSUME NEW p \in Publications, NEW r \in Revisions, RevisionNext(p, r) PROVE Advances
  BY <1>2, CreateRevisionAdvances, CreateActiveAdvances, ActivateAdvances DEF RevisionNext
<1>3. CASE UNCHANGED vars
  <2>1. UNCHANGED <<publication, revision, linked>>
    BY <1>3 DEF vars
  <2>2. QED  BY <2>1, Found, Elsewhere
<1>4. QED  BY <1>1, <1>2, <1>3 DEF Next

\* Every reachable state satisfies the inductive invariant.
LEMMA PAlways == Spec => []PInv
<1>1. PInv /\ [Next]_vars => PInv'
  BY PStep DEF Advances
<1>2. QED  BY PStart, <1>1, PTL DEF Spec

\* The tables keep their types through every handler of publications/service.py.
THEOREM PublicationTypes == Spec => []PublicationsTypeOK
<1>1. PInv => PublicationsTypeOK
  BY DEF PInv, Sound, PublicationsTypeOK
<1>2. QED  BY PAlways, <1>1, PTL

\* The reference of a publication and the statuses of its revisions agree, through every
\* activation, re-activation and archiving of the service.
THEOREM CurrentRevision == Spec => []CurrentInForce
<1>1. PInv => CurrentInForce
  BY DEF PInv
<1>2. QED  BY PAlways, <1>1, PTL

\* A revision supersedes another of the same publication, and numbers are unique in it.
THEOREM Supersession == Spec => []SupersedesOwn
<1>1. PInv => SupersedesOwn
  BY DEF PInv, Sound, SupersedesOwn, Own, RevisionsOf
<1>2. QED  BY PAlways, <1>1, PTL

\* docs/PUBLICATIONS.md: no handler rewrites what a revision was.
THEOREM Immutability == Spec => RevisionsImmutable
<1>1. PInv /\ [Next]_vars =>
        [\A r \in Revisions : revision[r].status # "absent" =>
           /\ revision'[r].publication = revision[r].publication
           /\ revision'[r].number = revision[r].number
           /\ revision[r].supersedes # {} => revision'[r].supersedes = revision[r].supersedes
           /\ revision'[r].status \in {"draft", "absent"} => revision'[r].status = revision[r].status
           /\ revision[r].status = "archived" => revision'[r].status = "archived"]_vars
  BY PStep DEF Advances, Kept
<1>2. QED  BY PAlways, <1>1, PTL DEF Spec, RevisionsImmutable

\* The handlers of publications/service.py implement revision control.
THEOREM PublicationsControlled == Spec => ImplementsRevisionControl
<1>1. PInv /\ [Next]_vars => [Control!Next]_(Control!vars)
  BY PStep DEF Advances
<1>2. QED  BY PStart, PAlways, <1>1, PTL DEF Spec, ImplementsRevisionControl, Control!Spec

=============================================================================
