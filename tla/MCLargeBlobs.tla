---------------------------- MODULE MCLargeBlobs ----------------------------
(* TLC's instances of LargeBlobs: messages that overtake each other around one *)
(* write of an empty blob, or two mutations with a message at a time.  Shape   *)
(* picks one in the initial state, Within bounds it.                           *)
EXTENDS LargeBlobs, TLC

Orphan == [target |-> None, content |-> Empty]
MCArrays == {<<Orphan>> \o <<[target |-> c, content |-> Empty]>> : c \in Credential}

Symmetry == Permutations(BlobCall)

VARIABLE shape

\* The loads of the other screens belong to the first shape, whose contents do not
\* matter; the writes of the Lab and the deletions of passkeys to the second, in which
\* an authenticator that is lost fails the call.
Within ==
  /\ IF shape = "again"
     THEN /\ Len(wire) <= 1
          /\ \A i \in DOMAIN wire : wire[i].kind = "answer" => ~(wire[i].ok /\ wire[i].closed)
     ELSE previews <= 1 /\ (stores.mutation = Idle \/ stores.mutation.base.draft = Empty)
  /\ \A k \in BlobCall : calls[k].stage \notin (IF shape = "again" THEN {"other"} ELSE {"lab", "remove"})

ShapedInit == BlobsInit /\ shape \in {"reordered", "again"}
ShapedNext ==
  /\ BlobsNext
  /\ UNCHANGED shape /\ Within'
ShapedSpec == ShapedInit /\ [][ShapedNext]_<<blobVars, shape>>

\* What answers that overtake each other leave is another matter: the last to
\* arrive is shown.
SettledInOrder == shape = "again" => BlobsSettled

=============================================================================
