-------------------------------- MODULE Galeria --------------------------------
(***************************************************************************)
(* The gallery: pkg/services/galeria_service.go keeps a row for each image  *)
(* in the table galeria, and the image itself at Cloudinary.  An upload     *)
(* stores the image and then inserts the row; a deletion destroys the image *)
(* and then deletes the row, if it is the caller's.  Nothing ties the two   *)
(* stores together, and nothing is undone when the second step fails.       *)
(*                                                                         *)
(* Cloudinary is external: it stores or destroys an image at one point of   *)
(* the call, and the caller may not hear of it (the upload gives up after   *)
(* 30 seconds).  What the form may hold is checked before the first step    *)
(* and left out.                                                            *)
(***************************************************************************)
EXTENDS Naturals

CONSTANTS Users, Procs, None,
          MaxImages    \* bound on the images ever stored

VARIABLES images,   \* those at Cloudinary, numbered as they were stored
          rows,     \* table galeria
          stored,   \* images stored so far
          req,
          causes    \* history: why image and row of an upload have come apart

vars == <<images, rows, stored, req, causes>>

Image == 1 .. MaxImages

Row == [image : Image, owner : Users]

\* refused, failed and cut are ends of a deletion, after its image was destroyed;
\* kept: it was not destroyed; lost: no row was inserted.
Causes == [image : Image, why : {"lost", "kept", "refused", "failed", "cut"}]

Request == [pc : {"idle", "insert", "destroy", "delete"}, user : Users \cup {None},
            image : Image \cup {None}]

Local(pc, u, i) == [pc |-> pc, user |-> u, image |-> i]

Idle == Local("idle", None, None)

At(p, pc) == req[p].pc = pc

Goto(p, pc) == req' = [req EXCEPT ![p].pc = pc]

Return(p) == req' = [req EXCEPT ![p] = Idle]

Because(i, why) == causes' = causes \cup {[image |-> i, why |-> why]}

Init == images = {} /\ rows = {} /\ stored = 0 /\ causes = {} /\ req = [p \in Procs |-> Idle]

-----------------------------------------------------------------------------
(* Upload *)

\* The image is stored, and the caller hears of it or does not; a POST that stores
\* nothing changes nothing.
Post(p, u) ==
    /\ At(p, "idle")
    /\ stored < MaxImages /\ stored' = stored + 1
    /\ images' = images \cup {stored'}
    /\ \/ req' = [req EXCEPT ![p] = Local("insert", u, stored')] /\ UNCHANGED causes
       \/ Because(stored', "lost") /\ UNCHANGED req
    /\ UNCHANGED rows

Create(p) ==
    /\ At(p, "insert")
    /\ \/ /\ rows' = rows \cup {[image |-> req[p].image, owner |-> req[p].user]}
          /\ UNCHANGED causes
       \/ Because(req[p].image, "lost") /\ UNCHANGED rows
    /\ Return(p)
    /\ UNCHANGED <<images, stored>>

-----------------------------------------------------------------------------
(* Delete *)

\* The row is read, whosever it is.
GetByID(p, u) ==
    /\ At(p, "idle")
    /\ \E r \in rows : req' = [req EXCEPT ![p] = Local("destroy", u, r.image)]
    /\ UNCHANGED <<images, rows, stored, causes>>

\* Mutated form: the handler returns when the image was destroyed.
DestroyAndReturn(p) ==
    /\ At(p, "destroy")
    /\ images' = images \ {req[p].image}
    /\ IF req[p].image \in images THEN Return(p) ELSE Goto(p, "delete")
    /\ UNCHANGED <<rows, stored, causes>>

\* Mutated form: the signature is refused, and nobody looks at the answer.
DestroyNothing(p) ==
    /\ At(p, "destroy")
    /\ Goto(p, "delete")
    /\ UNCHANGED <<images, rows, stored, causes>>

\* Best effort: nobody looks at the answer.
Destroy(p) ==
    /\ At(p, "destroy")
    /\ \/ images' = images \ {req[p].image} /\ UNCHANGED causes
       \/ /\ req[p].image \in images
          /\ Because(req[p].image, "kept") /\ UNCHANGED images
    /\ Goto(p, "delete")
    /\ UNCHANGED <<rows, stored>>

\* DELETE ... WHERE id AND user_id: it may find the row of someone else, or none.
Delete(p) ==
    /\ At(p, "delete")
    /\ LET mine == [image |-> req[p].image, owner |-> req[p].user]
       IN \/ mine \in rows /\ rows' = rows \ {mine} /\ UNCHANGED causes
          \/ mine \notin rows /\ Because(req[p].image, "refused") /\ UNCHANGED rows
          \/ Because(req[p].image, "failed") /\ UNCHANGED rows
    /\ Return(p)
    /\ UNCHANGED <<images, stored>>

-----------------------------------------------------------------------------
\* The server stops.
Restart ==
    /\ \E p \in Procs : ~ At(p, "idle")
    /\ req' = [p \in Procs |-> Idle]
    /\ causes' = causes
          \cup {[image |-> req[p].image, why |-> "lost"] : p \in {q \in Procs : At(q, "insert")}}
          \cup {[image |-> req[p].image, why |-> "cut"] : p \in {q \in Procs : At(q, "delete")}}
    /\ UNCHANGED <<images, rows, stored>>

Next ==
    \/ \E p \in Procs : \/ \E u \in Users : Post(p, u) \/ GetByID(p, u)
                        \/ Create(p) \/ Destroy(p) \/ Delete(p)
    \/ Restart

Spec == Init /\ [][Next]_vars

-----------------------------------------------------------------------------
(* Properties *)

\* Images and rows are those that were stored, and each request is of one of its kinds.
TypeOK ==
    /\ images \subseteq 1 .. stored /\ stored \in 0 .. MaxImages
    /\ rows \subseteq Row /\ \A r \in rows : r.image <= stored
    /\ req \in [Procs -> Request]
    /\ causes \subseteq Causes

Came(i, whys) == \E c \in causes : c.image = i /\ c.why \in whys

\* A row of the gallery shows an image that is there, or a deletion of it is on its
\* way, or one ended without deleting the row: it was not the caller's, the statement
\* failed, or the server stopped.  Nothing else leaves a row without its image, such
\* as two deletions, or an upload beside one (Delete, lines 100-132).
RowHasImage ==
    \A r \in rows :
        \/ r.image \in images
        \/ \E p \in Procs : At(p, "delete") /\ req[p].image = r.image
        \/ Came(r.image, {"refused", "failed", "cut"})

\* An image has its row, or its upload is on its way or was lost before the row was
\* there, or it was not destroyed when its row was deleted (Upload, lines 72-97).
OrphanHasCause ==
    \A i \in images :
        \/ \E r \in rows : r.image = i
        \/ \E p \in Procs : At(p, "insert") /\ req[p].image = i
        \/ Came(i, {"lost", "kept"})
=============================================================================
