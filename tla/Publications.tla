---------------------------- MODULE Publications ----------------------------
(***************************************************************************)
(* Technical publications and their revisions                              *)
(* (backend/app/publications/service.py).                                  *)
(*                                                                         *)
(* Every handler that changes a publication or one of its revisions locks  *)
(* the publication from its first read to its one commit, so that each is  *)
(* one action; what two requests contend for is left to the unique         *)
(* indexes.  A column that may be NULL is the set of its values.  Titles,  *)
(* dates, storage locators and the references to fleet data that are only  *)
(* copied are left out.                                                    *)
(***************************************************************************)
CONSTANTS Publications, \* identifiers
          Revisions,    \* identifiers of revisions
          Numbers,      \* publication numbers of the organization
          Labels,       \* revision numbers
          Subjects,     \* ATA chapters and catalog items to link to
          AccessClassifications

VARIABLES publication, \* publications
          revision,    \* publication_revisions
          linked       \* publication_ata_links, publication_catalog_links

vars == <<publication, revision, linked>>

AtMostOne(S) == {{}} \cup {{x} : x \in S}

PublicationRows ==
    [status : {"absent", "active", "archived"}, number : AtMostOne(Numbers),
     access : AtMostOne(AccessClassifications), current : AtMostOne(Revisions),
     supersedes : AtMostOne(Publications)]
RevisionRows ==
    [status : {"absent", "draft", "current", "superseded", "archived"},
     publication : AtMostOne(Publications), number : AtMostOne(Labels),
     supersedes : AtMostOne(Revisions)]

NoPublication ==
    [status |-> "absent", number |-> {}, access |-> {}, current |-> {}, supersedes |-> {}]
NoRevision == [status |-> "absent", publication |-> {}, number |-> {}, supersedes |-> {}]

Init ==
    /\ publication = [p \in Publications |-> NoPublication]
    /\ revision = [r \in Revisions |-> NoRevision]
    /\ linked = {}

-----------------------------------------------------------------------------
There(p) == publication[p].status # "absent"

RevisionsOf(p) == {r \in Revisions : revision[r].publication = {p}}
InForce(p) == {r \in RevisionsOf(p) : revision[r].status = "current"}

\* supersedes_publication_id names a publication of the organization, perhaps itself.
Named(prior) == \A q \in prior : There(q)

\* _create_revision_row.
MayAdd(p, r, label, prior) ==
    /\ revision[r].status = "absent"
    /\ \A s \in RevisionsOf(p) : revision[s].number # {label}
    /\ prior \subseteq RevisionsOf(p)

NewRevision(p, label, prior) ==
    [status |-> "draft", publication |-> {p}, number |-> {label}, supersedes |-> prior]

\* _activate_revision_in_txn on rows of revisions: those in force are superseded, and one
\* of them is the one that r supersedes unless it names another already.
Activated(rows, p, r, earlier) ==
    [s \in Revisions |->
       IF s = r
         THEN [rows[s] EXCEPT !.status = "current",
                              !.supersedes = IF rows[s].supersedes = {} THEN earlier ELSE @]
         ELSE IF rows[s].publication = {p} /\ rows[s].status = "current"
                THEN [rows[s] EXCEPT !.status = "superseded"]
                ELSE rows[s]]

\* The revision found in force, if there is one.
Earlier(p, r) == IF InForce(p) \ {r} = {} THEN {{}} ELSE {{s} : s \in InForce(p) \ {r}}

-----------------------------------------------------------------------------
(* The handlers                                                            *)

\* The number is unique in the organization; the main chapter is linked at once.
NewPublication(p, number, access, prior, current, chapter) ==
    /\ publication[p].status = "absent"
    /\ \A q \in Publications : publication[q].number # {number}
    /\ Named(prior)
    /\ publication' = [publication EXCEPT ![p] =
                         [status |-> "active", number |-> {number}, access |-> {access},
                          current |-> current, supersedes |-> prior]]
    /\ linked' = linked \cup ({p} \X chapter)

CreatePublication(p, number, access, prior, chapter) ==
    /\ NewPublication(p, number, access, prior, {}, chapter)
    /\ UNCHANGED revision

\* create_publication with a first revision, in force unless the request says otherwise.
CreateRevised(p, number, access, prior, chapter, r, label, activate) ==
    LET added == [revision EXCEPT ![r] = NewRevision(p, label, {})]
    IN /\ MayAdd(p, r, label, {})
       /\ NewPublication(p, number, access, prior, IF activate THEN {r} ELSE {}, chapter)
       /\ \E e \in Earlier(p, r) :
             revision' = IF activate THEN Activated(added, p, r, e) ELSE added

UpdatePublication(p, prior) ==
    /\ publication[p].status = "active"
    /\ Named(prior)
    /\ publication' = [publication EXCEPT ![p].supersedes = prior]
    /\ UNCHANGED <<revision, linked>>

SetAccessClassification(p, access) ==
    /\ There(p)
    /\ publication' = [publication EXCEPT ![p].access = {access}]
    /\ UNCHANGED <<revision, linked>>

\* The reference to the current revision stays.
ArchivePublication(p) ==
    /\ publication[p].status = "active"
    /\ publication' = [publication EXCEPT ![p].status = "archived"]
    /\ revision' = [r \in Revisions |->
                      IF r \in InForce(p) THEN [revision[r] EXCEPT !.status = "archived"]
                                          ELSE revision[r]]
    /\ UNCHANGED linked

CreateRevision(p, r, label, prior) ==
    /\ publication[p].status = "active"
    /\ MayAdd(p, r, label, prior)
    /\ revision' = [revision EXCEPT ![r] = NewRevision(p, label, prior)]
    /\ UNCHANGED <<publication, linked>>

\* create_revision with activate.
CreateActive(p, r, label, prior) ==
    /\ publication[p].status = "active"
    /\ MayAdd(p, r, label, prior)
    /\ \E e \in Earlier(p, r) :
          revision' = Activated([revision EXCEPT ![r] = NewRevision(p, label, prior)], p, r, e)
    /\ publication' = [publication EXCEPT ![p].current = {r}]
    /\ UNCHANGED linked

\* A draft, or one that was superseded, comes into force.
ActivateRevision(p, r) ==
    /\ publication[p].status = "active"
    /\ r \in RevisionsOf(p)
    /\ revision[r].status \in {"draft", "superseded"}
    /\ \E e \in Earlier(p, r) : revision' = Activated(revision, p, r, e)
    /\ publication' = [publication EXCEPT ![p].current = {r}]
    /\ UNCHANGED linked

\* link_ata and link_catalog.
Link(p, subject) ==
    /\ There(p)
    /\ linked' = linked \cup {<<p, subject>>}
    /\ UNCHANGED <<publication, revision>>

-----------------------------------------------------------------------------
PublicationNext(p) ==
    \/ \E number \in Numbers, access \in AccessClassifications,
          prior \in AtMostOne(Publications), chapter \in AtMostOne(Subjects) :
          \/ CreatePublication(p, number, access, prior, chapter)
          \/ \E r \in Revisions, label \in Labels, activate \in BOOLEAN :
                CreateRevised(p, number, access, prior, chapter, r, label, activate)
    \/ \E prior \in AtMostOne(Publications) : UpdatePublication(p, prior)
    \/ \E access \in AccessClassifications : SetAccessClassification(p, access)
    \/ ArchivePublication(p)
    \/ \E subject \in Subjects : Link(p, subject)

RevisionNext(p, r) ==
    \/ \E label \in Labels, prior \in AtMostOne(Revisions) :
          CreateRevision(p, r, label, prior) \/ CreateActive(p, r, label, prior)
    \/ ActivateRevision(p, r)

Next ==
    \/ \E p \in Publications : PublicationNext(p)
    \/ \E p \in Publications, r \in Revisions : RevisionNext(p, r)

Spec == Init /\ [][Next]_vars

-----------------------------------------------------------------------------
(* Properties                                                              *)

\* The variables have the types of the tables.
PublicationsTypeOK ==
    /\ publication \in [Publications -> PublicationRows]
    /\ revision \in [Revisions -> RevisionRows]
    /\ linked \subseteq Publications \X Subjects

\* current_revision_id and the statuses of the revisions are two accounts of what is in
\* force: they agree while a publication is active, whatever was created, activated and
\* activated again, and nothing of an archived one is in force.
CurrentInForce ==
    \A p \in Publications :
        InForce(p) = IF publication[p].status = "active" THEN publication[p].current ELSE {}

\* docs/PUBLICATIONS.md: revisions are immutable and remain traceable.  No step takes a
\* revision away from its publication, changes its number, rewrites what it supersedes,
\* makes it a draft again or brings it back from the archive.
RevisionsImmutable ==
    [][\A r \in Revisions : revision[r].status # "absent" =>
          /\ revision'[r].publication = revision[r].publication
          /\ revision'[r].number = revision[r].number
          /\ revision[r].supersedes # {} => revision'[r].supersedes = revision[r].supersedes
          /\ revision'[r].status \in {"draft", "absent"} => revision'[r].status = revision[r].status
          /\ revision[r].status = "archived" => revision'[r].status = "archived"]_vars

\* What a revision supersedes is another revision of the same publication, and no two
\* revisions of a publication have the same number.
SupersedesOwn ==
    \A p \in Publications : \A r, s \in RevisionsOf(p) :
        /\ revision[r].supersedes \subseteq RevisionsOf(p) \ {r}
        /\ revision[r].number = revision[s].number => r = s

\* A publication with its revisions is a document under revision control.
Control == INSTANCE RevisionControl
             WITH Documents <- Publications,
                  owner <- [r \in Revisions |-> revision[r].publication],
                  inForce <- [p \in Publications |-> InForce(p)],
                  closed <- {p \in Publications : publication[p].status = "archived"}

ImplementsRevisionControl == Control!Spec
=============================================================================
