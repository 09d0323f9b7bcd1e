---------------------------- MODULE Annotations ----------------------------
(***************************************************************************)
(* The annotation page beside a bundle (internal/annotation) and the       *)
(* handlers that change it (internal/serve: handleAnnotations): each loads *)
(* the page, changes it and replaces the file, under a lock of the bundle. *)
(* Reading a page is no step, since it is replaced by a rename.            *)
(***************************************************************************)
EXTENDS Shelf, Sequences, Naturals

CONSTANTS
  Handler,   \* requests that may be served at once
  NoteId,    \* annotation identifiers
  Body       \* what an annotation says

ASSUME AnnotationsAssumption == None \notin Body

VARIABLES
  notes,     \* annotations.json of each bundle
  handler,   \* what each handler is about to save, None when idle
  noted      \* history: the body last reported as saved under an identifier

notesVars == <<notes, handler, noted>>

Note    == [id : NoteId, body : Body]

\* A deletion names the identifier only.
Request ==
  [op : {"post", "put"}, bundle : Bundle, note : Note]
    \cup [op : {"delete"}, bundle : Bundle,
          note : [id : NoteId, body : {CHOOSE x \in Body : TRUE}]]

AnnotationsTypeOK ==
  /\ notes \in [Bundle -> Seq(Note)]
  /\ \A h \in Handler : \/ handler[h] = None
                        \/ handler[h].request \in Request
  /\ noted \in [Bundle -> [NoteId -> Body \cup {None}]]

AnnotationsInit ==
  /\ notes = [b \in Bundle |-> <<>>]
  /\ handler = [h \in Handler |-> None]
  /\ noted = [b \in Bundle |-> [i \in NoteId |-> None]]

Ids(page) == {page[i].id : i \in DOMAIN page}

Add(page, note) == Append(page, note)

\* Only the first annotation of that identifier is replaced.
UpdateFirst(page, note) ==
  LET first == CHOOSE i \in DOMAIN page :
                 /\ page[i].id = note.id
                 /\ \A j \in 1..(i - 1) : page[j].id # note.id
  IN [page EXCEPT ![first] = note]

\* The annotations of a page under given identifiers, in their order.
Selected(page, ids) ==
  LET selected[k \in 0..Len(page)] ==
        IF k = 0 THEN <<>>
        ELSE IF page[k].id \in ids
             THEN Append(selected[k - 1], page[k])
             ELSE selected[k - 1]
  IN selected[Len(page)]

Delete(page, id) == Selected(page, NoteId \ {id})

Edited(page, request) ==
  CASE request.op = "post"   -> Add(page, request.note)
    [] request.op = "put"    -> UpdateFirst(page, request.note)
    [] request.op = "delete" -> Delete(page, request.note.id)

\* Mutant of Locked: overlapping requests are not serialized.
NeverLocked(b) == FALSE

Locked(b) ==
  \E h \in Handler : handler[h] # None /\ handler[h].request.bundle = b

\* A PUT or DELETE of an identifier that is not there changes nothing.
LoadPage(h, request) ==
  LET page == notes[request.bundle] IN
  /\ handler[h] = None
  /\ ~Locked(request.bundle)
  /\ request.op = "post" \/ request.note.id \in Ids(page)
  /\ handler' = [handler EXCEPT ![h] = [request |-> request, page |-> page]]
  /\ UNCHANGED <<notes, noted>>

SavePage(h) ==
  /\ handler[h] # None
  /\ LET request == handler[h].request IN
     /\ notes' = [notes EXCEPT
          ![request.bundle] = Edited(handler[h].page, request)]
     /\ noted' = [noted EXCEPT ![request.bundle][request.note.id] =
          IF request.op = "delete" THEN None ELSE request.note.body]
  /\ handler' = [handler EXCEPT ![h] = None]

SavePageFails(h) ==
  /\ handler[h] # None
  /\ handler' = [handler EXCEPT ![h] = None]
  /\ UNCHANGED <<notes, noted>>

\* Of an archive's annotations those whose identifiers are not there yet, the
\* first of each.
Missing(page, incoming) ==
  LET missing[k \in 0..Len(incoming)] ==
        IF k = 0 THEN <<>>
        ELSE IF incoming[k].id \in Ids(page) \cup Ids(missing[k - 1])
             THEN missing[k - 1]
             ELSE Append(missing[k - 1], incoming[k])
  IN missing[Len(incoming)]

MergeAnnotations(b, incoming) ==
  LET added == Missing(notes[b], incoming) IN
  /\ notes' = [notes EXCEPT ![b] = @ \o added]
  /\ noted' = [noted EXCEPT ![b] = [i \in NoteId |->
       IF i \in Ids(added)
       THEN added[CHOOSE k \in DOMAIN added : added[k].id = i].body
       ELSE @[i]]]
  /\ UNCHANGED handler
=============================================================================
