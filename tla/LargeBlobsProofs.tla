-------------------------- MODULE LargeBlobsProofs --------------------------
(***************************************************************************)
(* Theorems about LargeBlobs, for any credentials, contents, arrays,       *)
(* authenticators, coroutines, previews and messages under way, answered   *)
(* in any order; and about its second shape, in which they are answered    *)
(* in turn.                                                                *)
(***************************************************************************)
EXTENDS MCLargeBlobs, WellFoundedInduction, TLAPS

-----------------------------------------------------------------------------
(* The state: what it may be, and what is true of it.                       *)

Target == Credential \cup {None}
Blob == Content \cup {None}
Entry == [target : Target, content : Content]

BaseType ==
  [kind : {"write"}, index : Nat, credential : Credential, draft : Content]
  \cup [kind : {"delete"}, index : Nat, credential : Credential, draft : {None}]
  \cup [kind : {"cleanup"}, index : {0}, credential : {None}, draft : {None}]
WriteRequest == [kind : {"write"}, credential : Credential, content : Content]
RequestType ==
  WriteRequest
  \cup [kind : {"delete"}, credential : Credential, content : {None}]
  \cup [kind : {"cleanup"}, credential : {None}, content : {None}]

ReadState ==
  {Idle} \cup [phase : {"loading", "error"}, index : Nat]
  \cup [phase : {"ready"}, index : Nat, credential : Credential, content : Blob]
DecodeState == {Idle} \cup [phase : {"loading"}, index : Nat] \cup [phase : {"ended"}]
PasskeyState ==
  {Idle} \cup [phase : {"loading", "error"}, credential : Credential]
  \cup [phase : {"ready"}, credential : Credential, content : Blob]
MutationState ==
  {Idle} \cup [phase : {"editing", "previewing", "previewFailed"}, base : BaseType]
  \cup [phase : {"review", "executing", "executeFailed"}, base : BaseType, request : RequestType]
Stores ==
  [phase : {"idle", "loading", "refreshing", "ready", "error"}, report : Seq(Target) \cup {None},
   selected : Nat, read : ReadState, decode : DecodeState, passkey : PasskeyState,
   mutation : MutationState]

Coroutine ==
  {NoCall} \cup [stage : {"list", "reload", "other"}, served : BOOLEAN]
  \cup [stage : {"read"}, index : Nat, credential : Credential, served : BOOLEAN]
  \cup [stage : {"check", "remove"}, credential : Credential, served : BOOLEAN]
  \cup [stage : {"decode"}, index : Nat, served : BOOLEAN]
  \cup [stage : {"preview", "execute"}, base : BaseType, request : RequestType, served : BOOLEAN]
  \cup [stage : {"lab"}, request : WriteRequest, served : BOOLEAN]
Message ==
  [kind : {"snapshot"}, id : Nat, attached : BOOLEAN]
  \cup [kind : {"answer"}, call : BlobCall, ok : BOOLEAN, closed : BOOLEAN,
        value : Seq(Target) \cup Blob \cup BOOLEAN]

StoresType == stores \in Stores
CallsType == calls \in [BlobCall -> Coroutine]
WireType == wire \in Seq(Message)
ServiceType ==
  /\ made \in Nat /\ service \in [id : 0..made, token : Token \cup {None}]
  /\ service.id # 0 => service.token \in Token
  /\ arrays \in [Token -> Seq(Entry)] /\ deleted \in [Token -> SUBSET Credential]
WindowType == session \in [id : Nat, attached : BOOLEAN] /\ moved \in BOOLEAN

IsAnswer(i) == wire[i].kind = "answer"

\* An answer under way is the only one to its coroutine, which still awaits it.
AnswerAwaited ==
  \A i \in DOMAIN wire : IsAnswer(i) =>
    /\ calls[wire[i].call].stage # "none" /\ calls[wire[i].call].served
    /\ \A j \in DOMAIN wire : IsAnswer(j) /\ wire[j].call = wire[i].call => j = i

\* What a call may be answered.
AnswerType(call, value) ==
  /\ call.stage = "list" => value \in Seq(Target)
  /\ call.stage \in {"read", "check"} => value \in Blob
  /\ call.stage = "preview" => value \in BOOLEAN
AnswersTyped ==
  \A i \in DOMAIN wire : IsAnswer(i) /\ wire[i].ok => AnswerType(calls[wire[i].call], wire[i].value)

\* The row of what is being read, or was, has the target that was read, if no array
\* was listed since in which it has another.
RowsRight ==
  stores.phase = "ready" /\ ~moved =>
    /\ \A k \in BlobCall : ~Moves(calls[k], stores.report)
    /\ stores.read.phase = "ready" =>
         /\ stores.read.index \in DOMAIN stores.report
         /\ stores.report[stores.read.index] = stores.read.credential

\* An array has no entry of some passkeys, and none has one of a passkey deleted.
Clear(array, gone) == \A i \in DOMAIN array : array[i].target \notin gone
NoneDeleted == \A t \in Token : Clear(arrays[t], deleted[t])

\* Inductive.
BlobsInv ==
  /\ StoresType /\ CallsType /\ WireType /\ ServiceType /\ WindowType /\ NoneDeleted
  /\ AnswerAwaited /\ AnswersTyped /\ RowsRight /\ BlobsWait

\* The array of the authenticator that is selected.
Stored == IF service.id = 0 THEN <<>> ELSE arrays[service.token]

\* A report without some passkeys, and what an array holds unless it is for one of them.
Alive(report, gone) == [i \in DOMAIN report |-> IF report[i] \in gone THEN None ELSE report[i]]
Kept(array, gone, c, content) == c \in gone \/ Holds(array, c, content)

\* What the screens show is stored, but for the passkeys that are gone.
ListRight ==
  stores.phase = "ready" => service.id # 0 /\ Alive(stores.report, Gone) = Targets(Stored)
ReadRight ==
  stores.read.phase = "ready" =>
    Kept(Stored, Gone, stores.read.credential, stores.read.content)
PasskeyRight ==
  stores.passkey.phase = "ready" =>
    service.id # 0 /\ Kept(Stored, Gone, stores.passkey.credential, stores.passkey.content)

\* A message that ends the selection, one that says of a change to the array, and
\* of one to the blob of a passkey.
Ends(i) == wire[i].kind = "snapshot" \/ wire[i].closed
Writes(i) == IsAnswer(i) /\ wire[i].ok /\ calls[wire[i].call].stage \in {"execute", "lab"}
CleansUp(i) == calls[wire[i].call].stage = "execute" /\ calls[wire[i].call].request.kind = "cleanup"

\* What an answer says is what is stored, and what was asked for has been done.
AnswerRight(call, value) ==
  /\ call.stage # "decode" => service.id # 0
  /\ call.stage = "list" => Alive(value, Gone) = Targets(Stored)
  /\ call.stage \in {"read", "check"} => Kept(Stored, Gone, call.credential, value)
  /\ call.stage = "preview" /\ call.request.kind = "delete" /\ value =>
       Kept(Stored, Gone, call.request.credential, None)
  /\ call.stage = "execute" /\ call.request.kind # "cleanup" =>
       Kept(Stored, Gone, call.request.credential, call.request.content)

\* With a message at a time, what is shown is stored unless the message says otherwise.
TurnInv ==
  /\ (\A i \in DOMAIN wire : ~Ends(i)) => session.id = service.id
  /\ (\A i \in DOMAIN wire : ~Ends(i) /\ ~Writes(i)) => ListRight /\ ReadRight
  /\ (\A i \in DOMAIN wire : ~Ends(i) /\ (Writes(i) => CleansUp(i))) => PasskeyRight
  /\ \A i \in DOMAIN wire :
       /\ IsAnswer(i) /\ wire[i].ok => AnswerRight(calls[wire[i].call], wire[i].value)
       /\ wire[i].kind = "snapshot" => wire[i].id = service.id /\ wire[i].id # session.id
       /\ IsAnswer(i) /\ wire[i].closed => service.id = 0

\* Messages come one at a time, and an authenticator that is lost fails the call.
OneAtATime ==
  /\ Len(wire) <= 1
  /\ \A i \in DOMAIN wire : IsAnswer(i) => ~(wire[i].ok /\ wire[i].closed)

\* Inductive, in the second shape.
AgainInv == shape = "again" => OneAtATime /\ TurnInv

-----------------------------------------------------------------------------
(* Numbers and sequences.                                                   *)

\* A set of natural numbers has a least one.
LEMMA NatMin ==
  ASSUME NEW T \in SUBSET Nat, T # {}
  PROVE  \E x \in T : \A y \in T : x <= y
<1> DEFINE R == {p \in Nat \X Nat : p[1] < p[2]}
<1>1. IsWellFoundedOn(R, Nat)
  BY NatLessThanWellFounded DEF OpToRel
<1>2. \A x, y \in Nat : x < y => <<x, y>> \in R
  OBVIOUS
<1> HIDE DEF R
<1>3. \E x \in T : \A y \in T : ~(<<y, x>> \in R)
  BY <1>1, WFMin
<1>4. PICK x \in T : \A y \in T : ~(<<y, x>> \in R)
  BY <1>3
<1>5. ASSUME NEW y \in T
      PROVE  x <= y
  <2>1. x \in Nat /\ y \in Nat
    OBVIOUS
  <2>2. ~(<<y, x>> \in R)
    BY <1>4
  <2>3. ~(y < x)
    BY <1>2, <2>1, <2>2
  <2>. QED  BY <2>1, <2>3
<1>. QED  BY <1>5

\* One entry after the others.
LEMMA EntryAppended ==
  ASSUME NEW s \in Seq(Entry), NEW e \in Entry
  PROVE  /\ Append(s, e) \in Seq(Entry) /\ Len(Append(s, e)) = Len(s) + 1
         /\ DOMAIN Append(s, e) = 1..Len(s) + 1
         /\ DOMAIN s = 1..Len(s) /\ Len(s) \in Nat
         /\ \A i \in 1..Len(s) : Append(s, e)[i] = s[i]
         /\ Append(s, e)[Len(s) + 1] = e
OBVIOUS

\* The function that goes through an array and keeps the entries whose target is
\* not c.
Keeps(f, array, c, n) ==
  f = [m \in 1..n |->
         LET before == IF m = 1 THEN <<>> ELSE f[m - 1]
         IN IF array[m].target = c THEN before ELSE Append(before, array[m])]

\* There is such a function.
LEMMA KeptExists ==
  ASSUME NEW array \in Seq(Entry), NEW c, NEW n \in Nat
  PROVE  \E f : Keeps(f, array, c, n)
<1> DEFINE T == {l \in Nat : ~\E f : Keeps(f, array, c, l)}
<1> SUFFICES ASSUME T # {}
             PROVE  FALSE
  OBVIOUS
<1>1. PICK l \in T : \A y \in T : l <= y
  BY NatMin
<1>2. l \in Nat /\ ~\E f : Keeps(f, array, c, l)
  OBVIOUS
<1>3. CASE l = 0
  <2> DEFINE f == [m \in 1..0 |-> <<>>]
  <2>1. Keeps(f, array, c, 0)
    BY DEF Keeps
  <2>. QED  BY <1>2, <1>3, <2>1
<1>4. CASE l # 0
  <2>1. l - 1 \in Nat /\ ~(l - 1 \in T)
    BY <1>1, <1>2, <1>4
  <2>2. PICK g : Keeps(g, array, c, l - 1)
    BY <2>1
  <2> DEFINE before(m) == IF m = 1 THEN <<>> ELSE g[m - 1]
             f == [m \in 1..l |->
                     IF array[m].target = c THEN before(m) ELSE Append(before(m), array[m])]
  <2>3. \A m \in 1..l : m # 1 => m - 1 \in 1..l - 1 /\ m - 1 \in 1..l
    BY <1>2
  <2>4. \A m \in 1..l - 1 : g[m] = IF array[m].target = c THEN before(m) ELSE Append(before(m), array[m])
    BY <2>2 DEF Keeps
  <2>5. \A m \in 1..l - 1 : m \in 1..l
    BY <1>2
  <2>6. \A m \in 1..l : f[m] = IF array[m].target = c THEN before(m) ELSE Append(before(m), array[m])
    OBVIOUS
  <2> HIDE DEF f
  <2>7. \A m \in 1..l - 1 : f[m] = g[m]
    BY <2>4, <2>5, <2>6
  <2>8. \A m \in 1..l : before(m) = IF m = 1 THEN <<>> ELSE f[m - 1]
    BY <2>3, <2>7
  <2>9. f = [m \in 1..l |-> IF array[m].target = c THEN IF m = 1 THEN <<>> ELSE f[m - 1]
                            ELSE Append(IF m = 1 THEN <<>> ELSE f[m - 1], array[m])]
    BY <2>8 DEF f
  <2>10. Keeps(f, array, c, l)
    BY <2>9 DEF Keeps
  <2>. QED  BY <1>2, <2>10
<1>. QED  BY <1>3, <1>4

\* What s has of the first l entries of an array: all whose target is not c.
KeptOf(s, array, c, l) ==
  /\ s \in Seq(Entry) /\ Len(s) <= l
  /\ \A j \in 1..Len(s) : s[j].target # c /\ \E i \in 1..l : s[j] = array[i]
  /\ \A i \in 1..l : array[i].target # c => \E j \in 1..Len(s) : s[j] = array[i]
  /\ (\E i \in 1..l : array[i].target = c) => Len(s) < l

\* Of no entries nothing is kept.
LEMMA KeptOfNone ==
  ASSUME NEW array, NEW c
  PROVE  KeptOf(<<>>, array, c, 0)
<1>1. <<>> \in Seq(Entry) /\ Len(<<>>) = 0
  OBVIOUS
<1>. QED  BY <1>1 DEF KeptOf

\* One entry more is kept, or left out.
LEMMA KeptOfNext ==
  ASSUME NEW array \in Seq(Entry), NEW c, NEW l \in 1..Len(array), NEW s, KeptOf(s, array, c, l - 1)
  PROVE  KeptOf(IF array[l].target = c THEN s ELSE Append(s, array[l]), array, c, l)
<1>1. /\ s \in Seq(Entry) /\ Len(s) <= l - 1 /\ Len(s) \in Nat /\ l \in Nat
      /\ \A j \in 1..Len(s) : s[j].target # c /\ \E i \in 1..l - 1 : s[j] = array[i]
      /\ \A i \in 1..l - 1 : array[i].target # c => \E j \in 1..Len(s) : s[j] = array[i]
      /\ (\E i \in 1..l - 1 : array[i].target = c) => Len(s) < l - 1
  BY DEF KeptOf
<1>2. \A i \in 1..l : i \in 1..l - 1 \/ i = l
  BY <1>1
<1>3. \A i \in 1..l - 1 : i \in 1..l
  BY <1>1
<1>4. CASE array[l].target = c
  <2>1. Len(s) <= l /\ Len(s) < l
    BY <1>1
  <2>2. \A j \in 1..Len(s) : s[j].target # c /\ \E i \in 1..l : s[j] = array[i]
    BY <1>1, <1>3
  <2>3. \A i \in 1..l : array[i].target # c => \E j \in 1..Len(s) : s[j] = array[i]
    BY <1>1, <1>2, <1>4
  <2>. QED  BY <1>1, <1>4, <2>1, <2>2, <2>3 DEF KeptOf
<1>5. CASE array[l].target # c
  <2> DEFINE t == Append(s, array[l])
  <2>1. array[l] \in Entry
    OBVIOUS
  <2>2. /\ t \in Seq(Entry) /\ Len(t) = Len(s) + 1
        /\ \A j \in 1..Len(s) : t[j] = s[j]
        /\ t[Len(s) + 1] = array[l]
    BY <1>1, <2>1, EntryAppended
  <2> HIDE DEF t
  <2>3. Len(t) \in Nat /\ Len(t) <= l
    BY <1>1, <2>2
  <2>4. \A j \in 1..Len(t) : j \in 1..Len(s) \/ j = Len(s) + 1
    BY <1>1, <2>2
  <2>5. \A j \in 1..Len(s) : j \in 1..Len(t)
    BY <1>1, <2>2
  <2>6. Len(s) + 1 \in 1..Len(t)
    BY <1>1, <2>2
  <2>7. ASSUME NEW j \in 1..Len(t)
        PROVE  t[j].target # c /\ \E i \in 1..l : t[j] = array[i]
    <3>1. CASE j \in 1..Len(s)
      <4>1. t[j] = s[j] /\ s[j].target # c /\ \E i \in 1..l - 1 : s[j] = array[i]
        BY <1>1, <2>2, <3>1
      <4>. QED  BY <1>3, <4>1
    <3>2. CASE j = Len(s) + 1
      <4>1. t[j] = array[l] /\ l \in 1..l
        BY <1>1, <2>2, <3>2
      <4>. QED  BY <1>5, <4>1
    <3>. QED  BY <2>4, <3>1, <3>2
  <2>8. \A i \in 1..l : array[i].target # c => \E j \in 1..Len(t) : t[j] = array[i]
    BY <1>1, <1>2, <2>2, <2>5, <2>6
  <2>9. (\E i \in 1..l : array[i].target = c) => Len(t) < l
    <3>1. SUFFICES ASSUME NEW i \in 1..l, array[i].target = c
                   PROVE  Len(t) < l
      OBVIOUS
    <3>2. i \in 1..l - 1
      BY <1>2, <1>5, <3>1
    <3>3. Len(s) < l - 1
      BY <1>1, <3>1, <3>2
    <3>. QED  BY <1>1, <2>2, <3>3
  <2>10. KeptOf(t, array, c, l)
    BY <2>2, <2>3, <2>7, <2>8, <2>9 DEF KeptOf
  <2>. QED  BY <1>5, <2>10 DEF t
<1>. QED  BY <1>4, <1>5

\* What is left of an array without the entries of a target.
LEMMA WithoutKeeps ==
  ASSUME NEW array \in Seq(Entry), NEW c
  PROVE  KeptOf(Without(array, c), array, c, Len(array))
<1>1. Len(array) \in Nat /\ DOMAIN array = 1..Len(array)
  OBVIOUS
<1>2. CASE array = <<>>
  <2>1. Len(array) = 0 /\ Without(array, c) = <<>>
    BY <1>2 DEF Without
  <2>. QED  BY <2>1, KeptOfNone
<1>3. CASE array # <<>>
  <2> DEFINE kept == CHOOSE f : Keeps(f, array, c, Len(array))
  <2>1. Keeps(kept, array, c, Len(array))
    BY <1>1, KeptExists
  <2>2. Without(array, c) = kept[Len(array)]
    BY <1>1, <1>3 DEF Without, Keeps
  <2> HIDE DEF kept
  <2>3. \A m \in 1..Len(array) :
          kept[m] = LET before == IF m = 1 THEN <<>> ELSE kept[m - 1]
                    IN IF array[m].target = c THEN before ELSE Append(before, array[m])
    BY <2>1 DEF Keeps
  <2>4. Len(array) # 0
    BY <1>3
  <2> DEFINE T == {l \in Nat : l \in 1..Len(array) /\ ~KeptOf(kept[l], array, c, l)}
  <2>5. CASE T # {}
    <3>1. PICK l \in T : \A y \in T : l <= y
      BY <2>5, NatMin
    <3>2. l \in Nat /\ l \in 1..Len(array) /\ ~KeptOf(kept[l], array, c, l)
      OBVIOUS
    <3>3. PICK s : /\ s = IF l = 1 THEN <<>> ELSE kept[l - 1]
                   /\ kept[l] = IF array[l].target = c THEN s ELSE Append(s, array[l])
      BY <2>3, <3>2
    <3>4. KeptOf(s, array, c, l - 1)
      <4>1. CASE l = 1
        <5>1. s = <<>> /\ l - 1 = 0
          BY <3>3, <4>1
        <5>. QED  BY <5>1, KeptOfNone
      <4>2. CASE l # 1
        <5>1. l - 1 \in Nat /\ l - 1 \in 1..Len(array) /\ ~(l <= l - 1)
          BY <1>1, <3>2, <4>2
        <5>2. ~(l - 1 \in T)
          BY <3>1, <5>1
        <5>. QED  BY <3>3, <4>2, <5>1, <5>2
      <4>. QED  BY <4>1, <4>2
    <3>. QED  BY <3>2, <3>3, <3>4, KeptOfNext
  <2>6. CASE T = {}
    <3>1. Len(array) \in 1..Len(array)
      BY <1>1, <2>4
    <3>. QED  BY <1>1, <2>2, <2>6, <3>1
  <2>. QED  BY <2>5, <2>6
<1>. QED  BY <1>2, <1>3

\* Without a target nothing is held for it, nothing was if that is no change, and for
\* the others it is as it was.
LEMMA WithoutHolds ==
  ASSUME NEW array \in Seq(Entry), NEW c
  PROVE  /\ Without(array, c) \in Seq(Entry)
         /\ Holds(Without(array, c), c, None)
         /\ Without(array, c) = array => Holds(array, c, None)
         /\ \A d, content : d # c /\ Holds(array, d, content) => Holds(Without(array, c), d, content)
<1>1. PICK s : s = Without(array, c)
  OBVIOUS
<1>2. /\ s \in Seq(Entry) /\ Len(s) <= Len(array)
      /\ \A j \in 1..Len(s) : s[j].target # c /\ \E i \in 1..Len(array) : s[j] = array[i]
      /\ \A i \in 1..Len(array) : array[i].target # c => \E j \in 1..Len(s) : s[j] = array[i]
      /\ (\E i \in 1..Len(array) : array[i].target = c) => Len(s) < Len(array)
  <2>1. KeptOf(s, array, c, Len(array))
    BY <1>1, WithoutKeeps
  <2>. QED  BY <2>1 DEF KeptOf
<1>3. /\ DOMAIN s = 1..Len(s) /\ DOMAIN array = 1..Len(array)
      /\ Len(s) \in Nat /\ Len(array) \in Nat
  BY <1>2
<1>4. Holds(s, c, None)
  BY <1>2, <1>3 DEF Holds
<1>5. ASSUME s = array
      PROVE  Holds(array, c, None)
  <2>1. ~(Len(s) < Len(array))
    BY <1>3, <1>5
  <2>2. \A i \in 1..Len(array) : array[i].target # c
    BY <1>2, <2>1
  <2>. QED  BY <1>3, <2>2 DEF Holds
<1>6. ASSUME NEW d, NEW content, d # c, Holds(array, d, content)
      PROVE  Holds(s, d, content)
  <2>1. CASE content = None
    <3>1. \A i \in 1..Len(array) : array[i].target # d
      BY <1>3, <1>6, <2>1 DEF Holds
    <3>2. \A j \in 1..Len(s) : s[j].target # d
      BY <1>2, <3>1
    <3>. QED  BY <1>3, <2>1, <3>2 DEF Holds
  <2>2. CASE content # None
    <3>1. PICK i \in 1..Len(array) : array[i] = [target |-> d, content |-> content]
      BY <1>3, <1>6, <2>2 DEF Holds
    <3>2. array[i].target # c
      BY <1>6, <3>1
    <3>3. PICK j \in 1..Len(s) : s[j] = array[i]
      BY <1>2, <3>2
    <3>. QED  BY <1>3, <2>2, <3>1, <3>3 DEF Holds
  <2>. QED  BY <2>1, <2>2
<1>. QED  BY <1>1, <1>2, <1>4, <1>5, <1>6

\* What is read of an array is what it holds.
LEMMA BlobHeld ==
  ASSUME BlobsAssumption, NEW array \in Seq(Entry), NEW c
  PROVE  /\ BlobOf(array, c) \in Blob
         /\ BlobOf(array, c) = None <=> \A i \in DOMAIN array : array[i].target # c
         /\ Holds(array, c, BlobOf(array, c))
<1>1. None \notin Content
  BY DEF BlobsAssumption
<1>2. CASE \E i \in DOMAIN array : array[i].target = c
  <2>1. PICK i : i \in DOMAIN array /\ array[i].target = c /\ BlobOf(array, c) = array[i].content
    BY <1>2 DEF BlobOf
  <2>2. array[i] \in Entry
    BY <2>1
  <2>3. array[i].content \in Content /\ array[i] = [target |-> c, content |-> array[i].content]
    BY <2>1, <2>2 DEF Entry
  <2>4. Holds(array, c, array[i].content)
    BY <1>1, <2>1, <2>3 DEF Holds
  <2>. QED  BY <1>1, <2>1, <2>3, <2>4 DEF Blob
<1>3. CASE \A i \in DOMAIN array : array[i].target # c
  <2>1. BlobOf(array, c) = None
    BY <1>3 DEF BlobOf
  <2>. QED  BY <1>3, <2>1 DEF Blob, Holds
<1>. QED  BY <1>2, <1>3

\* What a request leaves is an array, and holds what was asked for; a clean-up takes
\* nothing from a credential.
LEMMA WrittenHolds ==
  ASSUME BlobsAssumption, NEW array \in Seq(Entry), NEW r \in RequestType
  PROVE  /\ Written(array, r) \in Seq(Entry)
         /\ r.kind # "cleanup" => Holds(Written(array, r), r.credential, r.content)
         /\ r.kind = "delete" /\ Written(array, r) = array => Holds(array, r.credential, None)
         /\ r.kind = "cleanup" => \A c \in Credential, content \in Blob :
              Holds(array, c, content) => Holds(Written(array, r), c, content)
<1>1. None \notin Content /\ None \notin Credential
  BY DEF BlobsAssumption
<1>2. CASE r.kind # "write"
  <2>1. Written(array, r) = Without(array, r.credential)
    BY <1>2 DEF Written
  <2>2. /\ r.kind # "cleanup" => r.content = None
        /\ r.kind = "cleanup" => r.credential = None
    BY <1>2 DEF RequestType, WriteRequest
  <2>. QED  BY <1>1, <2>1, <2>2, WithoutHolds
<1>3. CASE r.kind = "write"
  <2>1. r.credential \in Credential /\ r.content \in Content
    BY <1>3 DEF RequestType, WriteRequest
  <2> DEFINE e == [target |-> r.credential, content |-> r.content]
  <2>2. e \in Entry
    BY <2>1 DEF Entry, Target
  <2>3. CASE BlobOf(array, r.credential) = None
    <3>1. Written(array, r) = Append(array, e)
      BY <1>3, <2>3 DEF Written
    <3> HIDE DEF e
    <3>2. /\ Append(array, e) \in Seq(Entry) /\ DOMAIN Append(array, e) = 1..Len(array) + 1
          /\ Append(array, e)[Len(array) + 1] = e /\ Len(array) \in Nat
      BY <2>2, EntryAppended
    <3>3. Len(array) + 1 \in 1..Len(array) + 1
      BY <3>2
    <3>4. \E i \in DOMAIN Append(array, e) : Append(array, e)[i] = e
      BY <3>2, <3>3
    <3>5. Holds(Append(array, e), r.credential, r.content)
      BY <1>1, <2>1, <3>4 DEF Holds, e
    <3>. QED  BY <1>3, <3>1, <3>2, <3>5
  <2>4. CASE BlobOf(array, r.credential) # None
    <3> DEFINE t == [i \in DOMAIN array |-> IF array[i].target = r.credential
                                            THEN [array[i] EXCEPT !.content = r.content] ELSE array[i]]
    <3>1. Written(array, r) = t
      BY <1>3, <2>4 DEF Written
    <3>2. ASSUME NEW i \in DOMAIN array
          PROVE  /\ t[i] \in Entry
                 /\ array[i].target = r.credential => t[i] = e
      <4>1. array[i] \in Entry
        OBVIOUS
      <4>2. array[i].target = r.credential => [array[i] EXCEPT !.content = r.content] = e
        BY <4>1 DEF Entry
      <4>. QED  BY <2>2, <4>1, <4>2
    <3>3. DOMAIN t = DOMAIN array
      OBVIOUS
    <3> HIDE DEF t
    <3>4. Len(array) \in Nat /\ DOMAIN array = 1..Len(array)
      OBVIOUS
    <3>5. t \in Seq(Entry)
      <4>1. t \in [1..Len(array) -> Entry]
        BY <3>2, <3>3, <3>4 DEF t
      <4>. QED  BY <3>4, <4>1
    <3>6. \E i \in DOMAIN array : array[i].target = r.credential
      BY <2>4, BlobHeld
    <3>7. \E i \in DOMAIN t : t[i] = e
      BY <3>2, <3>3, <3>6
    <3>8. Holds(t, r.credential, r.content)
      BY <1>1, <2>1, <3>7 DEF Holds
    <3>. QED  BY <1>3, <3>1, <3>5, <3>8
  <2>. QED  BY <2>3, <2>4
<1>. QED  BY <1>2, <1>3

\* A request about a passkey that is there adds no entry of one that is not.
LEMMA WrittenClear ==
  ASSUME NEW array \in Seq(Entry), NEW r \in RequestType, NEW gone, Clear(array, gone),
         r.credential \notin gone
  PROVE  Clear(Written(array, r), gone)
<1>1. Len(array) \in Nat /\ DOMAIN array = 1..Len(array)
  OBVIOUS
<1>2. CASE r.kind # "write"
  <2>1. PICK s : s = Without(array, r.credential)
    OBVIOUS
  <2>2. /\ s \in Seq(Entry)
        /\ \A j \in 1..Len(s) : \E i \in 1..Len(array) : s[j] = array[i]
    BY <2>1, WithoutKeeps DEF KeptOf
  <2>3. DOMAIN s = 1..Len(s)
    BY <2>2
  <2>4. \A j \in DOMAIN s : s[j].target \notin gone
    BY <1>1, <2>2, <2>3 DEF Clear
  <2>. QED  BY <1>2, <2>1, <2>4 DEF Written, Clear
<1>3. CASE r.kind = "write"
  <2>1. r.credential \in Credential /\ r.content \in Content
    BY <1>3 DEF RequestType, WriteRequest
  <2>2. PICK e : e = [target |-> r.credential, content |-> r.content]
    OBVIOUS
  <2>3. e \in Entry /\ e.target = r.credential
    BY <2>1, <2>2 DEF Entry, Target
  <2>4. CASE BlobOf(array, r.credential) = None
    <3>1. PICK s : s = Append(array, e)
      OBVIOUS
    <3>2. /\ DOMAIN s = 1..Len(array) + 1 /\ s[Len(array) + 1] = e
          /\ \A i \in 1..Len(array) : s[i] = array[i]
      BY <2>3, <3>1, EntryAppended
    <3>3. \A i \in 1..Len(array) + 1 : i \in 1..Len(array) \/ i = Len(array) + 1
      BY <1>1
    <3>4. \A i \in DOMAIN s : s[i].target \notin gone
      BY <1>1, <2>3, <3>2, <3>3 DEF Clear
    <3>. QED  BY <1>3, <2>2, <2>4, <3>1, <3>4 DEF Written, Clear
  <2>5. CASE BlobOf(array, r.credential) # None
    <3>1. ASSUME NEW i \in DOMAIN array
          PROVE  [array[i] EXCEPT !.content = r.content].target \notin gone
      <4>1. array[i] \in Entry /\ array[i].target \notin gone
        BY DEF Clear
      <4>. QED  BY <4>1 DEF Entry
    <3>. QED  BY <1>3, <2>5, <3>1 DEF Written, Clear
  <2>. QED  BY <2>4, <2>5
<1>. QED  BY <1>2, <1>3

\* The targets of an array without an entry of what is gone are all of it.
LEMMA TargetsAlive ==
  ASSUME NEW array, NEW gone, Clear(array, gone)
  PROVE  Alive(Targets(array), gone) = Targets(array)
<1>1. DOMAIN Targets(array) = DOMAIN array
  BY DEF Targets
<1>2. \A i \in DOMAIN array : Targets(array)[i] \notin gone
  BY DEF Targets, Clear
<1>3. PICK t : t = Targets(array)
  OBVIOUS
<1>4. [i \in DOMAIN t |-> IF t[i] \in gone THEN None ELSE t[i]] = [i \in DOMAIN array |-> t[i]]
  BY <1>1, <1>2, <1>3
<1>5. t = [i \in DOMAIN array |-> t[i]]
  BY <1>3 DEF Targets
<1>. QED  BY <1>3, <1>4, <1>5 DEF Alive

\* The blob of a passkey that is deleted has no target any more, and nothing else
\* has changed.
LEMMA OrphanedHolds ==
  ASSUME BlobsAssumption, NEW array \in Seq(Entry), NEW gone, NEW c \in Credential
  PROVE  /\ Orphaned(array, c) \in Seq(Entry)
         /\ Clear(array, gone) /\ None \notin gone => Clear(Orphaned(array, c), gone \cup {c})
         /\ \A d \in Credential : \A content :
              Kept(array, gone, d, content) => Kept(Orphaned(array, c), gone \cup {c}, d, content)
         /\ \A report : Alive(report, gone) = Targets(array) =>
              Alive(report, gone \cup {c}) = Targets(Orphaned(array, c))
<1>1. None \notin Credential /\ None \notin Content
  BY DEF BlobsAssumption
<1>2. Len(array) \in Nat /\ DOMAIN array = 1..Len(array)
  OBVIOUS
<1>3. PICK t : t = Orphaned(array, c)
  OBVIOUS
<1>4. ASSUME NEW i \in DOMAIN array
      PROVE  /\ t[i] \in Entry
             /\ array[i].target = c => t[i].target = None
             /\ array[i].target # c => t[i] = array[i]
  <2>1. array[i] \in Entry
    OBVIOUS
  <2>2. t[i] = IF array[i].target = c THEN [array[i] EXCEPT !.target = None] ELSE array[i]
    BY <1>3 DEF Orphaned
  <2>3. /\ [array[i] EXCEPT !.target = None] \in Entry
        /\ [array[i] EXCEPT !.target = None].target = None
    BY <2>1 DEF Entry, Target
  <2>. QED  BY <2>1, <2>2, <2>3
<1>5. DOMAIN t = DOMAIN array
  BY <1>3 DEF Orphaned
<1>6. t \in Seq(Entry)
  <2>1. t = [i \in 1..Len(array) |-> t[i]]
    BY <1>2, <1>3 DEF Orphaned
  <2>2. t \in [1..Len(array) -> Entry]
    BY <1>2, <1>4, <2>1
  <2>. QED  BY <1>2, <2>2
<1>7. ASSUME Clear(array, gone), None \notin gone
      PROVE  Clear(t, gone \cup {c})
  BY <1>1, <1>4, <1>5, <1>7 DEF Clear
<1>8. ASSUME NEW d \in Credential, NEW content, Kept(array, gone, d, content), d # c
      PROVE  Kept(t, gone \cup {c}, d, content)
  <2>1. CASE d \in gone
    BY <2>1 DEF Kept
  <2>2. CASE Holds(array, d, content) /\ content = None
    <3>1. \A i \in DOMAIN array : array[i].target # d
      BY <2>2 DEF Holds
    <3>2. \A i \in DOMAIN t : t[i].target # d
      BY <1>1, <1>4, <1>5, <3>1
    <3>. QED  BY <2>2, <3>2 DEF Kept, Holds
  <2>3. CASE Holds(array, d, content) /\ content # None
    <3>1. PICK i \in DOMAIN array : array[i] = [target |-> d, content |-> content]
      BY <2>3 DEF Holds
    <3>2. t[i] = array[i]
      BY <1>4, <1>8, <3>1
    <3>. QED  BY <1>5, <2>3, <3>1, <3>2 DEF Kept, Holds
  <2>. QED  BY <1>8, <2>1, <2>2, <2>3 DEF Kept
<1>9. \A d, content : d = c => Kept(t, gone \cup {c}, d, content)
  BY DEF Kept
<1>10. ASSUME NEW report, Alive(report, gone) = Targets(array)
       PROVE  Alive(report, gone \cup {c}) = Targets(t)
  <2>1. DOMAIN report = DOMAIN array
    <3>1. DOMAIN Alive(report, gone) = DOMAIN report /\ DOMAIN Targets(array) = DOMAIN array
      BY DEF Alive, Targets
    <3>. QED  BY <1>10, <3>1
  <2>2. ASSUME NEW i \in DOMAIN array
        PROVE  (IF report[i] \in gone \cup {c} THEN None ELSE report[i]) = t[i].target
    <3>1. (IF report[i] \in gone THEN None ELSE report[i]) = array[i].target
      <4>1. Alive(report, gone)[i] = IF report[i] \in gone THEN None ELSE report[i]
        BY <2>1 DEF Alive
      <4>2. Targets(array)[i] = array[i].target
        BY DEF Targets
      <4>. QED  BY <1>10, <4>1, <4>2
    <3>. QED  BY <1>1, <1>4, <3>1
  <2>. QED  BY <1>5, <2>1, <2>2 DEF Alive, Targets
<1>. QED  BY <1>3, <1>6, <1>7, <1>8, <1>9, <1>10

-----------------------------------------------------------------------------
(* The wire.                                                                *)

\* What is sent comes last.
LEMMA Sent ==
  ASSUME WireType, NEW m \in Message, Send(m)
  PROVE  /\ WireType'
         /\ DOMAIN wire' = DOMAIN wire \cup {Len(wire) + 1}
         /\ wire'[Len(wire) + 1] = m
         /\ \A i \in DOMAIN wire : wire'[i] = wire[i] /\ i \in 1..Len(wire)
         /\ Len(wire) \in Nat
BY DEF WireType, Send

\* What is left when one element is taken out.
LEMMA Removed ==
  ASSUME NEW S, NEW s \in Seq(S), NEW i \in DOMAIN s
  PROVE  /\ RemoveAt(s, i) \in Seq(S)
         /\ Len(RemoveAt(s, i)) = Len(s) - 1
         /\ \A j \in 1..Len(s) - 1 : RemoveAt(s, i)[j] = IF j < i THEN s[j] ELSE s[j + 1]
<1> DEFINE a == SubSeq(s, 1, i - 1)
           b == SubSeq(s, i + 1, Len(s))
<1>1. Len(s) \in Nat /\ i \in 1..Len(s)
  OBVIOUS
<1>2. a \in Seq(S) /\ Len(a) = i - 1 /\ \A j \in 1..i - 1 : a[j] = s[j]
  BY <1>1
<1>3. b \in Seq(S) /\ Len(b) = Len(s) - i /\ \A j \in 1..Len(s) - i : b[j] = s[i + j]
  BY <1>1
<1>4. RemoveAt(s, i) = a \o b
  BY DEF RemoveAt
<1> HIDE DEF a, b
<1>5. a \o b \in Seq(S) /\ Len(a \o b) = Len(s) - 1
  BY <1>1, <1>2, <1>3
<1>6. ASSUME NEW j \in 1..Len(s) - 1
      PROVE  (a \o b)[j] = IF j < i THEN s[j] ELSE s[j + 1]
  <2>1. CASE j < i
    BY <1>1, <1>2, <1>3, <2>1
  <2>2. CASE j >= i
    <3>1. (a \o b)[j] = b[j - (i - 1)] /\ j - (i - 1) \in 1..Len(s) - i
      BY <1>1, <1>2, <1>3, <2>2, SMTT(30)
    <3>. QED  BY <1>1, <1>3, <2>2, <3>1, SMTT(30)
  <2>3. j < i \/ j >= i
    BY <1>1
  <2>. QED  BY <2>1, <2>2, <2>3
<1>. QED  BY <1>4, <1>5, <1>6

\* A message is taken out of the wire: those that are left were there before, each
\* at a place of its own that is not the place of the one taken.
LEMMA Received ==
  ASSUME WireType, NEW i \in DOMAIN wire, wire' = RemoveAt(wire, i)
  PROVE  /\ WireType' /\ DOMAIN wire' = 1..Len(wire) - 1
         /\ \E old \in [DOMAIN wire' -> DOMAIN wire \ {i}] :
              /\ \A j \in DOMAIN wire' : wire'[j] = wire[old[j]]
              /\ \A j, l \in DOMAIN wire' : old[j] = old[l] => j = l
<1>1. /\ Len(wire) \in Nat /\ DOMAIN wire = 1..Len(wire) /\ wire' \in Seq(Message)
      /\ Len(wire') = Len(wire) - 1
      /\ \A j \in 1..Len(wire) - 1 : wire'[j] = IF j < i THEN wire[j] ELSE wire[j + 1]
  BY Removed DEF WireType
<1>2. DOMAIN wire' = 1..Len(wire) - 1
  BY <1>1
<1> DEFINE old == [j \in DOMAIN wire' |-> IF j < i THEN j ELSE j + 1]
<1>3. old \in [DOMAIN wire' -> DOMAIN wire \ {i}]
  BY <1>1, <1>2
<1>4. \A j \in DOMAIN wire' : wire'[j] = wire[old[j]]
  BY <1>1, <1>2
<1>5. \A j, l \in DOMAIN wire' : old[j] = old[l] => j = l
  BY <1>1, <1>2
<1>. QED  BY <1>1, <1>2, <1>3, <1>4, <1>5 DEF WireType

\* Messages of the two kinds are told apart.
LEMMA MessageKinds ==
  ASSUME WireType, NEW i \in DOMAIN wire
  PROVE  /\ IsAnswer(i) => /\ wire[i].call \in BlobCall /\ wire[i].ok \in BOOLEAN
                           /\ wire[i].closed \in BOOLEAN
         /\ wire[i].kind = "snapshot" => wire[i].id \in Nat /\ wire[i].attached \in BOOLEAN
         /\ wire[i].kind \in {"answer", "snapshot"}
BY DEF WireType, Message, IsAnswer

-----------------------------------------------------------------------------
(* The stores, and what they wait for.                                      *)

\* Some call under way is at a stage.
Awaits(cs, stage) == \E k \in BlobCall : cs[k].stage = stage
Waiting(s, cs) ==
  /\ Loading(s) => Awaits(cs, "list")
  /\ s.read.phase = "loading" => Awaits(cs, "read")
  /\ s.decode.phase = "loading" => Awaits(cs, "decode")
  /\ s.passkey.phase = "loading" => Awaits(cs, "check")
  /\ s.mutation.phase = "previewing" => Awaits(cs, "preview")
  /\ s.mutation.phase = "executing" => Awaits(cs, "execute")

\* What t waits for, s waited for or is the call at a stage.
OnlyWaits(s, t, stage) ==
  /\ Loading(t) => Loading(s) \/ stage = "list"
  /\ t.read.phase = "loading" => s.read.phase = "loading" \/ stage = "read"
  /\ t.decode.phase = "loading" => s.decode.phase = "loading" \/ stage = "decode"
  /\ t.passkey.phase = "loading" => s.passkey.phase = "loading" \/ stage = "check"
  /\ t.mutation.phase = "previewing" => s.mutation.phase = "previewing" \/ stage = "preview"
  /\ t.mutation.phase = "executing" => s.mutation.phase = "executing" \/ stage = "execute"

\* Nothing of s waits for a call at a stage.
WaitsNot(s, stage) ==
  /\ Loading(s) => stage # "list"
  /\ s.read.phase = "loading" => stage # "read"
  /\ s.decode.phase = "loading" => stage # "decode"
  /\ s.passkey.phase = "loading" => stage # "check"
  /\ s.mutation.phase = "previewing" => stage # "preview"
  /\ s.mutation.phase = "executing" => stage # "execute"

\* The stores wait as the property says.
LEMMA WaitingIsProperty ==
  /\ BlobsWait <=> Waiting(stores, calls)
  /\ BlobsWait' <=> Waiting(stores', calls')
BY DEF BlobsWait, Waiting, UnderWay, Awaits, Loading

\* A call takes the place of another: what waits anew waits for it, and nothing waits
\* for the other.
LEMMA WaitsInstead ==
  ASSUME NEW s, NEW t, NEW cs \in [BlobCall -> Coroutine], NEW k \in BlobCall, NEW call,
         Waiting(s, cs), OnlyWaits(s, t, call.stage), WaitsNot(t, cs[k].stage)
  PROVE  Waiting(t, [cs EXCEPT ![k] = call])
<1> DEFINE ds == [cs EXCEPT ![k] = call]
<1>1. Awaits(ds, call.stage)
  BY DEF Awaits
<1>2. ASSUME NEW stage, Awaits(cs, stage), stage # cs[k].stage
      PROVE  Awaits(ds, stage)
  BY <1>2 DEF Awaits
<1> HIDE DEF ds
<1>3. /\ Awaits(cs, "list") /\ cs[k].stage # "list" => Awaits(ds, "list")
      /\ Awaits(cs, "read") /\ cs[k].stage # "read" => Awaits(ds, "read")
      /\ Awaits(cs, "decode") /\ cs[k].stage # "decode" => Awaits(ds, "decode")
      /\ Awaits(cs, "check") /\ cs[k].stage # "check" => Awaits(ds, "check")
      /\ Awaits(cs, "preview") /\ cs[k].stage # "preview" => Awaits(ds, "preview")
      /\ Awaits(cs, "execute") /\ cs[k].stage # "execute" => Awaits(ds, "execute")
  BY <1>2
<1>4. Waiting(t, ds)
  BY <1>1, <1>3 DEF Waiting, OnlyWaits, WaitsNot
<1>. QED  BY <1>4 DEF ds

\* What t shows, s showed.
KeepsShown(s, t) ==
  /\ t.phase = "ready" => s.phase = "ready" /\ t.report = s.report
  /\ t.read.phase = "ready" => t.read = s.read
  /\ t.passkey.phase = "ready" => t.passkey = s.passkey
After(s, t, stage) == t \in Stores /\ KeepsShown(s, t) /\ OnlyWaits(s, t, stage)

\* What the stores hold, one by one.
LEMMA StoresParts ==
  ASSUME NEW s \in Stores
  PROVE  /\ s.phase \in {"idle", "loading", "refreshing", "ready", "error"}
         /\ s.report \in Seq(Target) \cup {None} /\ s.selected \in Nat
         /\ s.read \in ReadState /\ s.decode \in DecodeState
         /\ s.passkey \in PasskeyState /\ s.mutation \in MutationState
BY DEF Stores

\* Empty stores show nothing and wait for nothing.
LEMMA EmptyAfter ==
  ASSUME NEW s, NEW stage
  PROVE  After(s, EmptyStores, stage)
<1>1. /\ EmptyStores.phase = "idle" /\ EmptyStores.read = Idle /\ EmptyStores.decode = Idle
      /\ EmptyStores.passkey = Idle /\ EmptyStores.mutation = Idle
      /\ EmptyStores.report = None /\ EmptyStores.selected = 0
  BY DEF EmptyStores
<1>2. EmptyStores \in Stores
  BY DEF EmptyStores, Stores, ReadState, DecodeState, PasskeyState, MutationState
<1>3. Idle.phase = "idle"
  BY DEF Idle
<1>. QED  BY <1>1, <1>2, <1>3 DEF After, KeepsShown, OnlyWaits, Loading

\* Stores left alone.
LEMMA SameAfter ==
  ASSUME NEW s \in Stores, NEW stage
  PROVE  After(s, s, stage)
BY DEF After, KeepsShown, OnlyWaits

\* A load begins.
LEMMA BeginLoadAfter ==
  ASSUME NEW s \in Stores
  PROVE  After(s, BeginLoad(s), "list")
<1>1. BeginLoad(s) \in Stores
  BY DEF BeginLoad, Stores
<1>2. /\ BeginLoad(s).phase # "ready" /\ BeginLoad(s).read = s.read
      /\ BeginLoad(s).decode = s.decode /\ BeginLoad(s).passkey = s.passkey
      /\ BeginLoad(s).mutation = s.mutation
  BY DEF BeginLoad, Stores
<1>. QED  BY <1>1, <1>2 DEF After, KeepsShown, OnlyWaits

\* What was read is forgotten, and another row is selected or none.
LEMMA ResetAfter ==
  ASSUME NEW s \in Stores, NEW i \in Nat, NEW stage
  PROVE  After(s, [ResetRead(s) EXCEPT !.selected = i], stage)
<1> DEFINE t == [ResetRead(s) EXCEPT !.selected = i]
<1>1. t \in Stores
  BY DEF ResetRead, Stores, ReadState, DecodeState
<1>2. /\ t.phase = s.phase /\ t.report = s.report /\ t.read = Idle
      /\ t.decode = Idle /\ t.passkey = s.passkey /\ t.mutation = s.mutation
  BY DEF ResetRead, Stores
<1>3. Idle.phase = "idle"
  BY DEF Idle
<1> HIDE DEF t
<1>4. After(s, t, stage)
  BY <1>1, <1>2, <1>3 DEF After, KeepsShown, OnlyWaits, Loading
<1>. QED  BY <1>4 DEF t

\* A read begins.
LEMMA StartReadAfter ==
  ASSUME NEW s \in Stores, NEW i \in Nat
  PROVE  After(s, StartRead(s, i), "read")
<1> DEFINE t == StartRead(s, i)
<1>1. At("loading", i) = [phase |-> "loading", index |-> i]
  BY DEF At
<1>2. t \in Stores
  <2>1. PICK r : r = At("loading", i)
    OBVIOUS
  <2>2. r \in ReadState /\ Idle \in ReadState /\ Idle \in DecodeState
    BY <1>1, <2>1 DEF ReadState, DecodeState
  <2>3. PICK l : l = ResetRead(s)
    OBVIOUS
  <2>4. l \in Stores
    BY <2>2, <2>3 DEF ResetRead, Stores
  <2>5. t = [l EXCEPT !.selected = i, !.read = r]
    BY <2>1, <2>3 DEF StartRead
  <2>. QED  BY <2>2, <2>4, <2>5 DEF Stores
<1>3. /\ t.phase = s.phase /\ t.report = s.report /\ t.read = At("loading", i)
      /\ t.decode = Idle /\ t.passkey = s.passkey /\ t.mutation = s.mutation
  BY DEF StartRead, ResetRead, Stores
<1>4. Idle.phase = "idle" /\ At("loading", i).phase = "loading"
  BY <1>1 DEF Idle
<1> HIDE DEF t
<1>5. After(s, t, "read")
  BY <1>2, <1>3, <1>4 DEF After, KeepsShown, OnlyWaits, Loading
<1>. QED  BY <1>5 DEF t

\* What was read begins to be decoded.
LEMMA DecodingAfter ==
  ASSUME NEW s \in Stores, NEW i \in Nat
  PROVE  After(s, Decoding(s, i), "decode")
<1> DEFINE t == Decoding(s, i)
<1>1. At("loading", i) = [phase |-> "loading", index |-> i]
  BY DEF At
<1>2. t \in Stores
  BY <1>1 DEF Decoding, Stores, DecodeState
<1>3. /\ t.phase = s.phase /\ t.report = s.report /\ t.read = s.read
      /\ t.passkey = s.passkey /\ t.mutation = s.mutation
  BY DEF Decoding, Stores
<1> HIDE DEF t
<1>4. After(s, t, "decode")
  BY <1>2, <1>3 DEF After, KeepsShown, OnlyWaits, Loading
<1>. QED  BY <1>4 DEF t

\* The blob of a passkey begins to be read.
LEMMA CheckingAfter ==
  ASSUME NEW s \in Stores, NEW c \in Credential
  PROVE  After(s, [s EXCEPT !.passkey = [phase |-> "loading", credential |-> c]], "check")
<1> DEFINE p == [phase |-> "loading", credential |-> c]
           t == [s EXCEPT !.passkey = p]
<1>1. p \in PasskeyState /\ p.phase = "loading"
  BY DEF PasskeyState
<1> HIDE DEF p
<1>2. t \in Stores
  BY <1>1 DEF Stores
<1>3. /\ t.phase = s.phase /\ t.report = s.report /\ t.read = s.read /\ t.decode = s.decode
      /\ t.passkey = p /\ t.mutation = s.mutation
  BY DEF Stores
<1> HIDE DEF t
<1>4. After(s, t, "check")
  BY <1>1, <1>2, <1>3 DEF After, KeepsShown, OnlyWaits, Loading
<1>. QED  BY <1>4 DEF t, p

\* The dialog of a mutation changes.
LEMMA MutationAfter ==
  ASSUME NEW s \in Stores, NEW x \in MutationState, NEW i \in Nat, NEW stage,
         x.phase = "previewing" => stage = "preview", x.phase = "executing" => stage = "execute"
  PROVE  /\ After(s, [s EXCEPT !.mutation = x], stage)
         /\ After(s, [s EXCEPT !.mutation = x, !.selected = i], stage)
<1>1. ASSUME NEW t, t = [s EXCEPT !.mutation = x] \/ t = [s EXCEPT !.mutation = x, !.selected = i]
      PROVE  After(s, t, stage)
  <2>1. t \in Stores
    BY <1>1 DEF Stores
  <2>2. /\ t.phase = s.phase /\ t.report = s.report /\ t.read = s.read /\ t.decode = s.decode
        /\ t.passkey = s.passkey /\ t.mutation = x
    BY <1>1 DEF Stores
  <2>. QED  BY <2>1, <2>2 DEF After, KeepsShown, OnlyWaits, Loading
<1>. QED  BY <1>1

-----------------------------------------------------------------------------
(* What the user does.                                                      *)

\* The window goes on from the stores s: it may begin a call, and waits for it.
Begun(k, s) ==
  /\ calls[k].stage = "none"
  /\ calls'[k].stage = "read" => ~Moves(calls'[k], s.report)
Does(s) ==
  /\ stores' \in Stores /\ KeepsShown(s, stores')
  /\ calls' \in [BlobCall -> Coroutine] /\ Waiting(stores', calls')
  /\ \A k \in BlobCall : calls'[k] = calls[k] \/ Begun(k, s)
WindowStep == Does(stores) /\ UNCHANGED <<session, serviceVars, wire, moved>>

\* A call begins from the stores s.
LEMMA DoesCall ==
  ASSUME CallsType, NEW s \in Stores, Waiting(s, calls),
         NEW k \in BlobCall, NEW call \in Coroutine, Begins(k, call),
         After(s, stores', call.stage), call.stage = "read" => ~Moves(call, s.report)
  PROVE  Does(s)
<1>1. calls[k].stage = "none" /\ calls' = [calls EXCEPT ![k] = call]
  BY DEF Begins, Free
<1>2. calls \in [BlobCall -> Coroutine]
  BY DEF CallsType
<1>3. OnlyWaits(s, stores', call.stage)
  BY DEF After
<1>4. Waiting(stores', [calls EXCEPT ![k] = call])
  <2>1. WaitsNot(stores', calls[k].stage)
    BY <1>1 DEF WaitsNot
  <2>. QED  BY <1>2, <1>3, <2>1, WaitsInstead
<1>5. calls' \in [BlobCall -> Coroutine]
  BY <1>1, <1>2
<1>6. ASSUME NEW j \in BlobCall
      PROVE  calls'[j] = calls[j] \/ Begun(j, s)
  <2>1. CASE j = k
    <3>1. calls'[j] = call
      BY <1>1, <1>2, <2>1
    <3>. QED  BY <1>1, <2>1, <3>1 DEF Begun
  <2>2. CASE j # k
    BY <1>1, <1>2, <2>2
  <2>. QED  BY <2>1, <2>2
<1>. QED  BY <1>1, <1>4, <1>5, <1>6 DEF Does, After

\* No call begins.
LEMMA DoesNothing ==
  ASSUME CallsType, NEW s \in Stores, Waiting(s, calls), calls' = calls, After(s, stores', "none")
  PROVE  Does(s)
<1>1. Waiting(stores', calls)
  BY DEF After, Waiting, OnlyWaits
<1>. QED  BY <1>1 DEF Does, After, CallsType

\* The invariant gives what the lemmas ask for.
LEMMA InvWaits ==
  ASSUME BlobsInv
  PROVE  CallsType /\ stores \in Stores /\ Waiting(stores, calls)
BY WaitingIsProperty DEF BlobsInv, StoresType

\* An entry with a target is one of the report.
LEMMA TargetOfReport ==
  ASSUME BlobsAssumption, NEW s \in Stores, NEW id, NEW i, HasTarget(s, id, i)
  PROVE  /\ i \in Nat /\ s.report[i] \in Credential /\ i \in DOMAIN s.report
         /\ ReadCall(s, i) \in Coroutine /\ ReadCall(s, i).stage = "read"
         /\ ~Moves(ReadCall(s, i), s.report)
<1>1. s.report \in Seq(Target) /\ i \in DOMAIN s.report /\ s.report[i] # None
  BY StoresParts DEF HasTarget, ActsOn
<1>2. i \in Nat /\ s.report[i] \in Target
  BY <1>1
<1>3. s.report[i] \in Credential
  BY <1>1, <1>2 DEF Target
<1>4. ReadCall(s, i) = [stage |-> "read", index |-> i, credential |-> s.report[i], served |-> FALSE]
  BY DEF ReadCall
<1>5. ReadCall(s, i) \in Coroutine /\ ReadCall(s, i).stage = "read"
  BY <1>2, <1>3, <1>4 DEF Coroutine
<1>6. ~Moves(ReadCall(s, i), s.report)
  BY <1>1, <1>4 DEF Moves
<1>. QED  BY <1>1, <1>2, <1>3, <1>5, <1>6

\* The calls that say no more than what they are.
LEMMA PlainCalls ==
  /\ Loads("list") \in Coroutine /\ Loads("list").stage = "list"
  /\ Loads("reload") \in Coroutine /\ Loads("reload").stage = "reload"
  /\ Loads("other") \in Coroutine /\ Loads("other").stage = "other"
  /\ \A i \in Nat : DecodeCall(i) \in Coroutine /\ DecodeCall(i).stage = "decode"
<1>1. ASSUME NEW stage \in {"list", "reload", "other"}
      PROVE  Loads(stage) \in Coroutine /\ Loads(stage).stage = stage
  BY DEF Loads, Coroutine
<1>2. ASSUME NEW i \in Nat
      PROVE  DecodeCall(i) \in Coroutine /\ DecodeCall(i).stage = "decode"
  BY DEF DecodeCall, Coroutine
<1>. QED  BY <1>1, <1>2

\* A row is selected, and read if it has a target.
LEMMA SelectEntryStep ==
  ASSUME BlobsAssumption, BlobsInv, NEW i \in Nat, SelectEntry(i)
  PROVE  WindowStep
<1>1. CallsType /\ stores \in Stores /\ Waiting(stores, calls)
  BY InvWaits
<1>2. UNCHANGED <<session, serviceVars, wire, moved>>
  BY DEF SelectEntry, history
<1>3. CASE i # 0 /\ HasTarget(stores, session.id, i)
  <2>1. PICK k \in Free : Start(k, ReadCall(stores, i))
    BY <1>3 DEF SelectEntry
  <2>2. k \in BlobCall /\ Begins(k, ReadCall(stores, i)) /\ stores' = StartRead(stores, i)
    BY <1>3, <2>1 DEF SelectEntry, Start, Free
  <2>3. /\ ReadCall(stores, i) \in Coroutine /\ ReadCall(stores, i).stage = "read"
        /\ ~Moves(ReadCall(stores, i), stores.report)
    BY <1>1, <1>3, TargetOfReport
  <2>4. After(stores, stores', "read")
    BY <1>1, <2>2, StartReadAfter
  <2>5. Does(stores)
    BY <1>1, <2>2, <2>3, <2>4, DoesCall
  <2>. QED  BY <1>2, <2>5 DEF WindowStep
<1>4. CASE ~(i # 0 /\ HasTarget(stores, session.id, i))
  <2>1. stores' = [ResetRead(stores) EXCEPT !.selected = i] /\ calls' = calls
    BY <1>4 DEF SelectEntry
  <2>2. After(stores, stores', "none")
    BY <1>1, <2>1, ResetAfter
  <2>. QED  BY <1>1, <1>2, <2>1, <2>2, DoesNothing DEF WindowStep
<1>. QED  BY <1>3, <1>4

\* What was read is decoded in another way.
LEMMA DecodeAgainStep ==
  ASSUME BlobsInv, NEW k \in BlobCall, DecodeAgain(k)
  PROVE  WindowStep
<1>1. CallsType /\ stores \in Stores /\ Waiting(stores, calls)
  BY InvWaits
<1>2. UNCHANGED <<session, serviceVars, wire, moved>>
  BY DEF DecodeAgain, history
<1>3. stores.selected \in Nat
  BY <1>1, StoresParts
<1>4. /\ stores' = Decoding(stores, stores.selected)
      /\ Begins(k, DecodeCall(stores.selected))
  BY DEF DecodeAgain
<1>5. After(stores, stores', "decode")
  BY <1>1, <1>3, <1>4, DecodingAfter
<1>6. DecodeCall(stores.selected) \in Coroutine /\ DecodeCall(stores.selected).stage = "decode"
  BY <1>3, PlainCalls
<1>7. Does(stores)
  BY <1>1, <1>4, <1>5, <1>6, DoesCall
<1>. QED  BY <1>2, <1>7 DEF WindowStep

\* The blob of a passkey is read.
LEMMA CheckPasskeyStep ==
  ASSUME BlobsInv, NEW k \in BlobCall, NEW c \in Credential, CheckPasskey(k, c)
  PROVE  WindowStep
<1>1. CallsType /\ stores \in Stores /\ Waiting(stores, calls)
  BY InvWaits
<1>2. UNCHANGED <<session, serviceVars, wire, moved>>
  BY DEF CheckPasskey, history
<1>3. PICK call : call = [stage |-> "check", credential |-> c, served |-> FALSE]
  OBVIOUS
<1>4. call \in Coroutine /\ call.stage = "check"
  BY <1>3 DEF Coroutine
<1>5. /\ stores' = [stores EXCEPT !.passkey = [phase |-> "loading", credential |-> c]]
      /\ Begins(k, call)
  BY <1>3 DEF CheckPasskey, Start
<1>6. After(stores, stores', "check")
  BY <1>1, <1>5, CheckingAfter
<1>7. Does(stores)
  BY <1>1, <1>4, <1>5, <1>6, DoesCall
<1>. QED  BY <1>2, <1>7 DEF WindowStep

\* What a dialog is about.
LEMMA MutationParts ==
  ASSUME NEW x \in MutationState
  PROVE  /\ x # Idle => x.base \in BaseType
         /\ x.phase # "idle" => x # Idle
         /\ x.phase \in {"review", "executing", "executeFailed"} => x.request \in RequestType
<1>1. Idle.phase = "idle"
  BY DEF Idle
<1>. QED  BY <1>1 DEF MutationState

\* The base of a dialog by its kind, and the dialogs there are of one.
LEMMA BaseParts ==
  /\ \A b \in BaseType :
       /\ b.index \in Nat
       /\ b.kind = "write" => b.credential \in Credential /\ b.draft \in Content
       /\ Request(b) \in RequestType /\ Request(b).kind = b.kind
       /\ \A phase \in {"editing", "previewing", "previewFailed"} :
            Mutating(phase, b) \in MutationState /\ Mutating(phase, b).phase = phase
  /\ \A i \in Nat, c \in Credential, v \in Content : Base("write", i, c, v) \in BaseType
  /\ \A i \in Nat, c \in Credential : Base("delete", i, c, None) \in BaseType
  /\ Base("cleanup", 0, None, None) \in BaseType
<1>1. ASSUME NEW b \in BaseType
      PROVE  /\ b.index \in Nat
             /\ b.kind = "write" => b.credential \in Credential /\ b.draft \in Content
  BY DEF BaseType
<1>2. ASSUME NEW b \in BaseType
      PROVE  Request(b) \in RequestType /\ Request(b).kind = b.kind
  BY DEF BaseType, RequestType, WriteRequest, Request
<1>3. ASSUME NEW b \in BaseType, NEW phase \in {"editing", "previewing", "previewFailed"}
      PROVE  Mutating(phase, b) \in MutationState /\ Mutating(phase, b).phase = phase
  BY DEF Mutating, MutationState
<1>4. \A i \in Nat, c \in Credential, v \in Content : Base("write", i, c, v) \in BaseType
  BY DEF Base, BaseType
<1>5. \A i \in Nat, c \in Credential : Base("delete", i, c, None) \in BaseType
  BY DEF Base, BaseType
<1>6. Base("cleanup", 0, None, None) \in BaseType
  BY DEF Base, BaseType
<1>. QED  BY <1>1, <1>2, <1>3, <1>4, <1>5, <1>6

\* The dialog changes and no call begins.
LEMMA DialogStep ==
  ASSUME BlobsInv, NEW x \in MutationState, x.phase # "previewing", x.phase # "executing",
         stores' = [stores EXCEPT !.mutation = x],
         UNCHANGED <<session, calls, serviceVars, wire, moved>>
  PROVE  WindowStep
<1>1. CallsType /\ stores \in Stores /\ Waiting(stores, calls)
  BY InvWaits
<1>2. After(stores, stores', "none")
  BY <1>1, MutationAfter
<1>3. Does(stores)
  BY <1>1, <1>2, DoesNothing
<1>. QED  BY <1>3 DEF WindowStep

\* The form to write a blob is opened.
LEMMA BeginWriteStep ==
  ASSUME BlobsAssumption, BlobsInv, BeginWrite
  PROVE  WindowStep
<1>1. stores \in Stores
  BY InvWaits
<1>2. UNCHANGED <<session, calls, serviceVars, wire, moved>>
  BY DEF BeginWrite, history
<1>3. \E b \in BaseType : stores' = [stores EXCEPT !.mutation = Mutating("editing", b)]
  <2>1. CASE /\ MutationsEnabled /\ Shown # None /\ HasTarget(stores, session.id, stores.selected)
             /\ stores' = [stores EXCEPT !.mutation = Mutating("editing",
                  Base("write", stores.selected, stores.report[stores.selected], Shown))]
    <3>1. stores.selected \in Nat /\ stores.report[stores.selected] \in Credential
      BY <1>1, <2>1, TargetOfReport
    <3>2. Shown = stores.read.content /\ stores.read.phase = "ready" /\ stores.read \in ReadState
      BY <1>1, <2>1, StoresParts DEF Shown
    <3>3. stores.read.content \in Blob
      <4>1. Idle.phase = "idle"
        BY DEF Idle
      <4>. QED  BY <3>2, <4>1 DEF ReadState
    <3>4. Shown \in Content
      BY <2>1, <3>2, <3>3 DEF Blob
    <3>. QED  BY <2>1, <3>1, <3>4, BaseParts
  <2>2. CASE /\ PasskeyEnabled /\ stores.passkey.phase = "ready"
             /\ stores' = [stores EXCEPT !.mutation = Mutating("editing",
                  Base("write", 0, stores.passkey.credential,
                       IF stores.passkey.content = None THEN Empty ELSE stores.passkey.content))]
    <3>1. stores.passkey \in PasskeyState /\ stores.passkey.phase = "ready"
      BY <1>1, <2>2, StoresParts
    <3>2. stores.passkey.credential \in Credential /\ stores.passkey.content \in Blob
      <4>1. Idle.phase = "idle"
        BY DEF Idle
      <4>. QED  BY <3>1, <4>1 DEF PasskeyState
    <3>3. (IF stores.passkey.content = None THEN Empty ELSE stores.passkey.content) \in Content
      BY <3>2 DEF Blob, BlobsAssumption
    <3>. QED  BY <2>2, <3>2, <3>3, BaseParts
  <2>. QED  BY <2>1, <2>2 DEF BeginWrite
<1>4. PICK b \in BaseType : stores' = [stores EXCEPT !.mutation = Mutating("editing", b)]
  BY <1>3
<1>5. Mutating("editing", b) \in MutationState /\ Mutating("editing", b).phase = "editing"
  BY <1>4, BaseParts
<1>. QED  BY <1>2, <1>4, <1>5, DialogStep

\* The draft changes.
LEMMA UpdateDraftStep ==
  ASSUME BlobsInv, NEW v \in Content, UpdateDraft(v)
  PROVE  WindowStep
<1>1. stores \in Stores
  BY InvWaits
<1>2. UNCHANGED <<session, calls, serviceVars, wire, moved>>
  BY DEF UpdateDraft, history
<1>3. PICK x : x = stores.mutation
  OBVIOUS
<1>4. x \in MutationState /\ x.phase \in {"editing", "previewFailed"} /\ x.base.kind = "write"
  BY <1>1, <1>3, StoresParts DEF UpdateDraft
<1>5. x.base \in BaseType
  BY <1>4, MutationParts
<1>6. PICK b : b = [x.base EXCEPT !.draft = v]
  OBVIOUS
<1>7. b \in BaseType
  BY <1>4, <1>5, <1>6 DEF BaseType
<1>8. stores' = [stores EXCEPT !.mutation = Mutating("editing", b)]
  BY <1>1, <1>3, <1>6 DEF UpdateDraft, Stores
<1>9. Mutating("editing", b) \in MutationState /\ Mutating("editing", b).phase = "editing"
  BY <1>7, BaseParts
<1>. QED  BY <1>2, <1>8, <1>9, DialogStep

\* The form is shown again.
LEMMA EditWriteStep ==
  ASSUME BlobsInv, EditWrite
  PROVE  WindowStep
<1>1. stores \in Stores
  BY InvWaits
<1>2. UNCHANGED <<session, calls, serviceVars, wire, moved>>
  BY DEF EditWrite, history
<1>3. PICK x : x = stores.mutation
  OBVIOUS
<1>4. x \in MutationState /\ x.phase = "review"
  BY <1>1, <1>3, StoresParts DEF EditWrite
<1>5. x.base \in BaseType
  BY <1>4, MutationParts
<1>6. stores' = [stores EXCEPT !.mutation = Mutating("editing", x.base)]
  BY <1>1, <1>3 DEF EditWrite, Stores
<1>7. Mutating("editing", x.base) \in MutationState /\ Mutating("editing", x.base).phase = "editing"
  BY <1>5, BaseParts
<1>. QED  BY <1>2, <1>6, <1>7, DialogStep

\* The dialog is closed.
LEMMA CloseMutationStep ==
  ASSUME BlobsInv, CloseMutation
  PROVE  WindowStep
<1>1. UNCHANGED <<session, calls, serviceVars, wire, moved>>
  BY DEF CloseMutation, history
<1>2. Idle \in MutationState /\ Idle.phase = "idle"
  BY DEF MutationState, Idle
<1>3. stores' = [stores EXCEPT !.mutation = Idle]
  BY DEF CloseMutation
<1>. QED  BY <1>1, <1>2, <1>3, DialogStep

\* What is asked of the service about a mutation.
LEMMA AskingCalls ==
  ASSUME NEW b \in BaseType, NEW r \in RequestType, NEW stage \in {"preview", "execute"}
  PROVE  Asks(stage, b, r) \in Coroutine /\ Asks(stage, b, r).stage = stage
BY DEF Asks, Coroutine

\* A mutation is previewed.
LEMMA PreviewStep ==
  ASSUME BlobsInv, NEW k \in BlobCall, NEW b \in BaseType, Preview(k, b)
  PROVE  WindowStep
<1>1. CallsType /\ stores \in Stores /\ Waiting(stores, calls)
  BY InvWaits
<1>2. UNCHANGED <<session, serviceVars, wire, moved>>
  BY DEF Preview
<1>3. PICK i : i = IF b.kind = "delete" /\ b.index # 0 THEN b.index ELSE stores.selected
  OBVIOUS
<1>4. i \in Nat
  BY <1>1, <1>3, BaseParts, StoresParts
<1>5. PICK x : x = Mutating("previewing", b)
  OBVIOUS
<1>6. x \in MutationState /\ x.phase = "previewing"
  BY <1>5, BaseParts
<1>7. stores' = [stores EXCEPT !.mutation = x, !.selected = i]
  BY <1>1, <1>3, <1>5 DEF Preview, Stores
<1>8. After(stores, stores', "preview")
  BY <1>1, <1>4, <1>6, <1>7, MutationAfter
<1>9. Begins(k, Asks("preview", b, Request(b)))
  BY DEF Preview, Start
<1>10. Asks("preview", b, Request(b)) \in Coroutine /\ Asks("preview", b, Request(b)).stage = "preview"
  BY BaseParts, AskingCalls
<1>11. Does(stores)
  BY <1>1, <1>8, <1>9, <1>10, DoesCall
<1>. QED  BY <1>2, <1>11 DEF WindowStep

\* A draft is previewed.
LEMMA PreviewWriteStep ==
  ASSUME BlobsInv, NEW k \in BlobCall, PreviewWrite(k)
  PROVE  WindowStep
<1>1. PICK x : x = stores.mutation
  OBVIOUS
<1>2. x \in MutationState /\ x.phase \in {"editing", "previewFailed"}
  BY <1>1, InvWaits, StoresParts DEF PreviewWrite
<1>3. x.base \in BaseType
  BY <1>2, MutationParts
<1>4. Preview(k, x.base)
  BY <1>1 DEF PreviewWrite
<1>. QED  BY <1>3, <1>4, PreviewStep

\* A deletion is previewed.
LEMMA PreviewDeleteStep ==
  ASSUME BlobsAssumption, BlobsInv, NEW k \in BlobCall, PreviewDelete(k)
  PROVE  WindowStep
<1>1. stores \in Stores
  BY InvWaits
<1>2. \E b \in BaseType : Preview(k, b)
  <2>1. CASE \E i : HasTarget(stores, session.id, i) /\ Preview(k, Base("delete", i, stores.report[i], None))
    <3>1. PICK i : HasTarget(stores, session.id, i) /\ Preview(k, Base("delete", i, stores.report[i], None))
      BY <2>1
    <3>2. i \in Nat /\ stores.report[i] \in Credential
      BY <1>1, <3>1, TargetOfReport
    <3>. QED  BY <3>1, <3>2, BaseParts
  <2>2. CASE stores.passkey.phase = "ready" /\ Preview(k, Base("delete", 0, stores.passkey.credential, None))
    <3>1. stores.passkey \in PasskeyState
      BY <1>1, StoresParts
    <3>2. stores.passkey.credential \in Credential
      <4>1. Idle.phase = "idle"
        BY DEF Idle
      <4>. QED  BY <2>2, <3>1, <4>1 DEF PasskeyState
    <3>. QED  BY <2>2, <3>2, BaseParts
  <2>. QED  BY <2>1, <2>2 DEF PreviewDelete
<1>. QED  BY <1>2, PreviewStep

\* A clean-up is previewed.
LEMMA PreviewCleanupStep ==
  ASSUME BlobsInv, NEW k \in BlobCall, PreviewCleanup(k)
  PROVE  WindowStep
<1>1. Preview(k, Base("cleanup", 0, None, None))
  BY DEF PreviewCleanup
<1>. QED  BY <1>1, BaseParts, PreviewStep

\* What was reviewed is executed.
LEMMA ConfirmMutationStep ==
  ASSUME BlobsInv, NEW k \in BlobCall, ConfirmMutation(k)
  PROVE  WindowStep
<1>1. CallsType /\ stores \in Stores /\ Waiting(stores, calls)
  BY InvWaits
<1>2. UNCHANGED <<session, serviceVars, wire, moved>>
  BY DEF ConfirmMutation, history
<1>3. PICK x : x = stores.mutation
  OBVIOUS
<1>4. x \in MutationState /\ x.phase \in {"review", "executeFailed"}
  BY <1>1, <1>3, StoresParts DEF ConfirmMutation
<1>5. x.base \in BaseType /\ x.request \in RequestType
  BY <1>4, MutationParts
<1>6. PICK y : y = [x EXCEPT !.phase = "executing"]
  OBVIOUS
<1>7. y \in MutationState /\ y.phase = "executing"
  <2>1. Idle.phase = "idle"
    BY DEF Idle
  <2>. QED  BY <1>4, <1>6, <2>1 DEF MutationState
<1>8. stores' = [stores EXCEPT !.mutation = y]
  BY <1>1, <1>3, <1>6 DEF ConfirmMutation, Stores
<1>9. After(stores, stores', "execute")
  <2>1. 0 \in Nat
    OBVIOUS
  <2>. QED  BY <1>1, <1>7, <1>8, <2>1, MutationAfter
<1>10. Begins(k, Asks("execute", x.base, x.request))
  BY <1>3 DEF ConfirmMutation, Start
<1>11. Asks("execute", x.base, x.request) \in Coroutine /\ Asks("execute", x.base, x.request).stage = "execute"
  BY <1>5, AskingCalls
<1>12. Does(stores)
  BY <1>1, <1>9, <1>10, <1>11, DoesCall
<1>. QED  BY <1>2, <1>12 DEF WindowStep

\* The array is loaded again.
LEMMA ReloadBlobsStep ==
  ASSUME BlobsInv, NEW k \in BlobCall, ReloadBlobs(k)
  PROVE  WindowStep
<1>1. CallsType /\ stores \in Stores /\ Waiting(stores, calls)
  BY InvWaits
<1>2. UNCHANGED <<session, serviceVars, wire, moved>>
  BY DEF ReloadBlobs, history
<1>3. stores' = BeginLoad(stores) /\ Begins(k, Loads("list"))
  BY DEF ReloadBlobs, Start
<1>4. After(stores, stores', "list")
  BY <1>1, <1>3, BeginLoadAfter
<1>5. Does(stores)
  BY <1>1, <1>3, <1>4, PlainCalls, DoesCall
<1>. QED  BY <1>2, <1>5 DEF WindowStep

\* The Lab writes a blob.
LEMMA LabWritesStep ==
  ASSUME BlobsInv, NEW k \in BlobCall, NEW c \in Credential, NEW v \in Content, LabWrites(k, c, v)
  PROVE  WindowStep
<1>1. CallsType /\ stores \in Stores /\ Waiting(stores, calls)
  BY InvWaits
<1>2. UNCHANGED <<session, serviceVars, wire, moved>>
  BY DEF LabWrites
<1>3. PICK r : r = [kind |-> "write", credential |-> c, content |-> v]
  OBVIOUS
<1>4. PICK call : call = [stage |-> "lab", served |-> FALSE, request |-> r]
  OBVIOUS
<1>5. r \in WriteRequest
  BY <1>3 DEF WriteRequest
<1>6. call \in Coroutine /\ call.stage = "lab"
  BY <1>4, <1>5 DEF Coroutine
<1>7. stores' = stores /\ Begins(k, call)
  BY <1>3, <1>4 DEF LabWrites, Start
<1>8. After(stores, stores', "lab")
  BY <1>1, <1>7, SameAfter
<1>9. Does(stores)
  BY <1>1, <1>6, <1>7, <1>8, DoesCall
<1>. QED  BY <1>2, <1>9 DEF WindowStep

\* A passkey is deleted.
LEMMA DeletePasskeyStep ==
  ASSUME BlobsInv, NEW k \in BlobCall, NEW c \in Credential, DeletePasskey(k, c)
  PROVE  WindowStep
<1>1. CallsType /\ stores \in Stores /\ Waiting(stores, calls)
  BY InvWaits
<1>2. UNCHANGED <<session, serviceVars, wire, moved>>
  BY DEF DeletePasskey
<1>3. PICK call : call = [stage |-> "remove", credential |-> c, served |-> FALSE]
  OBVIOUS
<1>4. call \in Coroutine /\ call.stage = "remove"
  BY <1>3 DEF Coroutine
<1>5. stores' = stores /\ Begins(k, call)
  BY <1>3 DEF DeletePasskey, Start
<1>6. After(stores, stores', "remove")
  BY <1>1, <1>5, SameAfter
<1>7. Does(stores)
  BY <1>1, <1>4, <1>5, <1>6, DoesCall
<1>. QED  BY <1>2, <1>7 DEF WindowStep

\* A screen loads what it lacks, given the stores.
LEMMA LoadActiveScreenDoes ==
  ASSUME CallsType, NEW s \in Stores, Waiting(s, calls), NEW scr, NEW id, LoadActiveScreen(scr, id, s)
  PROVE  Does(s)
<1>1. CASE stores' = BeginLoad(s) /\ \E k \in Free : Start(k, Loads("list"))
  <2>1. PICK k \in BlobCall : Begins(k, Loads("list"))
    BY <1>1 DEF Free, Start
  <2>2. After(s, stores', "list")
    BY <1>1, BeginLoadAfter
  <2>. QED  BY <2>1, <2>2, PlainCalls, DoesCall
<1>2. CASE stores' = s /\ \E k \in Free : Start(k, Loads("other"))
  <2>1. PICK k \in BlobCall : Begins(k, Loads("other"))
    BY <1>2 DEF Free, Start
  <2>2. After(s, stores', "other")
    BY <1>2, SameAfter
  <2>. QED  BY <2>1, <2>2, PlainCalls, DoesCall
<1>3. CASE stores' = s /\ calls' = calls
  <2>1. After(s, stores', "none")
    BY <1>3, SameAfter
  <2>. QED  BY <1>3, <2>1, DoesNothing
<1>. QED  BY <1>1, <1>2, <1>3 DEF LoadActiveScreen

\* Another screen is shown.
LEMMA NavigateStep ==
  ASSUME BlobsInv, NEW scr, NavigateToScreen(scr)
  PROVE  WindowStep
<1>1. CallsType /\ stores \in Stores /\ Waiting(stores, calls)
  BY InvWaits
<1>2. UNCHANGED <<session, serviceVars, wire, moved>>
  BY DEF NavigateToScreen, history
<1>3. LoadActiveScreen(scr, session.id, stores)
  BY DEF NavigateToScreen
<1>4. Does(stores)
  BY <1>1, <1>3, LoadActiveScreenDoes
<1>. QED  BY <1>2, <1>4 DEF WindowStep

\* What the user can do.
UserNext ==
  \/ \E i \in 0..MaxEntries : SelectEntry(i)
  \/ BeginWrite \/ EditWrite \/ CloseMutation
  \/ \E v \in Content : UpdateDraft(v)
  \/ \E s \in {"large-blobs", "passkeys", "lab"} : NavigateToScreen(s)
  \/ \E k \in BlobCall :
       \/ DecodeAgain(k) \/ ReloadBlobs(k)
       \/ PreviewWrite(k) \/ PreviewDelete(k) \/ PreviewCleanup(k) \/ ConfirmMutation(k)
       \/ \E c \in Credential : CheckPasskey(k, c) \/ DeletePasskey(k, c)
       \/ \E c \in Credential, v \in Content : LabWrites(k, c, v)

\* All of it goes on from the stores as they are, and leaves the wire and the service.
LEMMA UserStep ==
  ASSUME BlobsAssumption, BlobsInv, UserNext
  PROVE  WindowStep
<1>1. ASSUME NEW i \in 0..MaxEntries, SelectEntry(i)
      PROVE  WindowStep
  <2>1. i \in Nat
    BY DEF BlobsAssumption
  <2>. QED  BY <1>1, <2>1, SelectEntryStep
<1>2. CASE BeginWrite \/ EditWrite \/ CloseMutation
  BY <1>2, BeginWriteStep, EditWriteStep, CloseMutationStep
<1>3. ASSUME NEW v \in Content, UpdateDraft(v)
      PROVE  WindowStep
  BY <1>3, UpdateDraftStep
<1>4. ASSUME NEW s, NavigateToScreen(s)
      PROVE  WindowStep
  BY <1>4, NavigateStep
<1>5. ASSUME NEW k \in BlobCall, DecodeAgain(k) \/ ReloadBlobs(k)
      PROVE  WindowStep
  BY <1>5, DecodeAgainStep, ReloadBlobsStep
<1>6. ASSUME NEW k \in BlobCall,
             PreviewWrite(k) \/ PreviewDelete(k) \/ PreviewCleanup(k) \/ ConfirmMutation(k)
      PROVE  WindowStep
  BY <1>6, PreviewWriteStep, PreviewDeleteStep, PreviewCleanupStep, ConfirmMutationStep
<1>7. ASSUME NEW k \in BlobCall, NEW c \in Credential, CheckPasskey(k, c) \/ DeletePasskey(k, c)
      PROVE  WindowStep
  BY <1>7, CheckPasskeyStep, DeletePasskeyStep
<1>8. ASSUME NEW k \in BlobCall, NEW c \in Credential, NEW v \in Content, LabWrites(k, c, v)
      PROVE  WindowStep
  BY <1>8, LabWritesStep
<1>. QED  BY <1>1, <1>2, <1>3, <1>4, <1>5, <1>6, <1>7, <1>8 DEF UserNext

\* The answers under way are those that were, to the same calls.
LEMMA AnswersKept ==
  ASSUME CallsType, WireType, AnswerAwaited, UNCHANGED wire, NEW s, Does(s),
         NEW i \in DOMAIN wire, IsAnswer(i)
  PROVE  /\ wire[i].call \in BlobCall
         /\ calls'[wire[i].call] = calls[wire[i].call]
<1>1. wire[i].call \in BlobCall
  BY MessageKinds
<1>2. calls[wire[i].call].stage # "none"
  BY DEF AnswerAwaited
<1>3. calls'[wire[i].call] = calls[wire[i].call] \/ Begun(wire[i].call, s)
  BY <1>1 DEF Does
<1>. QED  BY <1>1, <1>2, <1>3 DEF Begun

\* What is read is of the right row from stores whose rows are.
LEMMA RowsKept ==
  ASSUME NEW s, Does(s), UNCHANGED moved,
         s.phase = "ready" /\ ~moved =>
           /\ \A k \in BlobCall : ~Moves(calls[k], s.report)
           /\ s.read.phase = "ready" =>
                /\ s.read.index \in DOMAIN s.report
                /\ s.report[s.read.index] = s.read.credential
  PROVE  RowsRight'
<1>1. SUFFICES ASSUME stores'.phase = "ready", ~moved
               PROVE  /\ \A k \in BlobCall : ~Moves(calls'[k], stores'.report)
                      /\ stores'.read.phase = "ready" =>
                           /\ stores'.read.index \in DOMAIN stores'.report
                           /\ stores'.report[stores'.read.index] = stores'.read.credential
  BY DEF RowsRight, Moves
<1>2. s.phase = "ready" /\ stores'.report = s.report
  BY <1>1 DEF Does, KeepsShown
<1>3. stores'.read.phase = "ready" => stores'.read = s.read
  BY DEF Does, KeepsShown
<1>4. ASSUME NEW k \in BlobCall
      PROVE  ~Moves(calls'[k], stores'.report)
  <2>1. CASE calls'[k] = calls[k]
    BY <1>1, <1>2, <2>1
  <2>2. CASE Begun(k, s)
    BY <1>2, <2>2 DEF Begun, Moves
  <2>. QED  BY <2>1, <2>2 DEF Does
<1>. QED  BY <1>1, <1>2, <1>3, <1>4

\* The invariant after a step of the user.
LEMMA WindowInv ==
  ASSUME BlobsInv, WindowStep
  PROVE  BlobsInv'
<1>1. /\ Does(stores) /\ session' = session /\ UNCHANGED serviceVars
      /\ wire' = wire /\ moved' = moved
  BY DEF WindowStep
<1>2. CallsType /\ WireType /\ AnswerAwaited
  BY DEF BlobsInv
<1>3. StoresType' /\ CallsType' /\ BlobsWait'
  BY <1>1, WaitingIsProperty DEF Does, StoresType, CallsType
<1>4. WireType' /\ ServiceType' /\ WindowType' /\ NoneDeleted'
  BY <1>1 DEF BlobsInv, WireType, ServiceType, WindowType, NoneDeleted, serviceVars
<1>5. AnswerAwaited'
  <2>1. ASSUME NEW i \in DOMAIN wire, IsAnswer(i)
        PROVE  /\ calls'[wire[i].call].stage # "none" /\ calls'[wire[i].call].served
               /\ \A j \in DOMAIN wire : IsAnswer(j) /\ wire[j].call = wire[i].call => j = i
    BY <1>1, <1>2, <2>1, AnswersKept DEF AnswerAwaited
  <2>. QED  BY <1>1, <2>1 DEF AnswerAwaited, IsAnswer
<1>6. AnswersTyped'
  <2>1. ASSUME NEW i \in DOMAIN wire, IsAnswer(i), wire[i].ok
        PROVE  AnswerType(calls'[wire[i].call], wire[i].value)
    <3>1. AnswerType(calls[wire[i].call], wire[i].value)
      BY <2>1 DEF BlobsInv, AnswersTyped
    <3>. QED  BY <1>1, <1>2, <2>1, <3>1, AnswersKept
  <2>. QED  BY <1>1, <2>1 DEF AnswersTyped, IsAnswer, AnswerType
<1>7. RowsRight'
  <2>1. stores.phase = "ready" /\ ~moved =>
           /\ \A k \in BlobCall : ~Moves(calls[k], stores.report)
           /\ stores.read.phase = "ready" =>
                /\ stores.read.index \in DOMAIN stores.report
                /\ stores.report[stores.read.index] = stores.read.credential
    BY DEF BlobsInv, RowsRight
  <2>. QED  BY <1>1, <2>1, RowsKept
<1>. QED  BY <1>3, <1>4, <1>5, <1>6, <1>7 DEF BlobsInv

-----------------------------------------------------------------------------
(* What the service does.                                                   *)

\* A selection is published.
LEMMA PublishInv ==
  ASSUME BlobsInv, PublishSelection
  PROVE  BlobsInv'
<1>1. /\ CallsType /\ WireType /\ AnswerAwaited /\ ServiceType /\ WindowType /\ AnswersTyped
      /\ StoresType /\ RowsRight /\ BlobsWait /\ NoneDeleted
  BY DEF BlobsInv
<1>2. /\ stores' = stores /\ calls' = calls /\ session' = session /\ moved' = moved
      /\ arrays' = arrays /\ deleted' = deleted
  BY DEF PublishSelection, history
<1>3. \E m \in Message : Send(m) /\ m.kind = "snapshot"
  <2>1. ASSUME NEW m, NEW id \in Nat, NEW att \in BOOLEAN,
               m = [kind |-> "snapshot", id |-> id, attached |-> att]
        PROVE  m \in Message /\ m.kind = "snapshot"
    BY <2>1 DEF Message
  <2>2. made \in Nat
    BY <1>1 DEF ServiceType
  <2>3. CASE Send([kind |-> "snapshot", id |-> made + 1, attached |-> TRUE])
    <3>1. made + 1 \in Nat
      BY <2>2
    <3>. QED  BY <2>1, <2>3, <3>1
  <2>4. CASE \E att \in BOOLEAN : Send([kind |-> "snapshot", id |-> 0, attached |-> att])
    <3>1. 0 \in Nat
      OBVIOUS
    <3>. QED  BY <2>1, <2>4, <3>1
  <2>. QED  BY <2>3, <2>4 DEF PublishSelection
<1>4. PICK m \in Message : Send(m) /\ m.kind = "snapshot"
  BY <1>3
<1>5. PICK n : n = Len(wire) + 1
  OBVIOUS
<1>6. /\ WireType' /\ DOMAIN wire' = DOMAIN wire \cup {n} /\ wire'[n] = m
      /\ \A i \in DOMAIN wire : wire'[i] = wire[i]
  BY <1>1, <1>4, <1>5, Sent
<1>7. ServiceType' /\ WindowType'
  <2>1. made \in Nat /\ service \in [id : 0..made, token : Token \cup {None}]
    BY <1>1 DEF ServiceType
  <2>2. CASE made' = made + 1 /\ \E t \in Token : service' = [id |-> made + 1, token |-> t]
    <3>1. PICK t \in Token : service' = [id |-> made + 1, token |-> t]
      BY <2>2
    <3>2. made' \in Nat /\ made + 1 \in 0..made'
      BY <2>1, <2>2
    <3>3. service' \in [id : 0..made', token : Token \cup {None}] /\ service'.token \in Token
      BY <3>1, <3>2
    <3>. QED  BY <1>1, <1>2, <3>2, <3>3 DEF ServiceType, WindowType
  <2>3. CASE made' = made /\ service' = [id |-> 0, token |-> None]
    <3>1. 0 \in 0..made
      BY <2>1
    <3>2. service' \in [id : 0..made', token : Token \cup {None}] /\ service'.id = 0
      BY <2>3, <3>1
    <3>. QED  BY <1>1, <1>2, <2>3, <3>2 DEF ServiceType, WindowType
  <2>. QED  BY <2>2, <2>3 DEF PublishSelection
<1>8. AnswerAwaited'
  BY <1>1, <1>2, <1>4, <1>6 DEF AnswerAwaited, IsAnswer
<1>9. AnswersTyped'
  BY <1>1, <1>2, <1>4, <1>6 DEF AnswersTyped, IsAnswer, AnswerType
<1>10. StoresType' /\ CallsType' /\ RowsRight' /\ BlobsWait' /\ NoneDeleted'
  BY <1>1, <1>2, WaitingIsProperty DEF StoresType, CallsType, RowsRight, Moves, NoneDeleted
<1>. QED  BY <1>6, <1>7, <1>8, <1>9, <1>10 DEF BlobsInv

\* A call that was served is what it was.
LEMMA ServedCall ==
  ASSUME NEW call \in Coroutine, call.stage # "none", NEW d, d = [call EXCEPT !.served = TRUE]
  PROVE  /\ d \in Coroutine /\ d.stage = call.stage /\ d.served
         /\ call.stage = "read" => d.index = call.index /\ d.credential = call.credential
         /\ call.stage = "check" => d.credential = call.credential
         /\ call.stage = "remove" => call.credential \in Credential
         /\ call.stage \in {"preview", "execute"} =>
              d.request = call.request /\ call.request \in RequestType
         /\ call.stage = "lab" => d.request = call.request /\ call.request \in RequestType
<1>1. NoCall.stage = "none"
  BY DEF NoCall
<1>2. CASE call \in [stage : {"list", "reload", "other"}, served : BOOLEAN]
  BY <1>2 DEF Coroutine
<1>3. CASE call \in [stage : {"read"}, index : Nat, credential : Credential, served : BOOLEAN]
  BY <1>3 DEF Coroutine
<1>4. CASE call \in [stage : {"check", "remove"}, credential : Credential, served : BOOLEAN]
  BY <1>4 DEF Coroutine
<1>5. CASE call \in [stage : {"decode"}, index : Nat, served : BOOLEAN]
  BY <1>5 DEF Coroutine
<1>6. CASE call \in [stage : {"preview", "execute"}, base : BaseType, request : RequestType, served : BOOLEAN]
  BY <1>6 DEF Coroutine
<1>7. CASE call \in [stage : {"lab"}, request : WriteRequest, served : BOOLEAN]
  BY <1>7 DEF Coroutine, RequestType
<1>. QED  BY <1>1, <1>2, <1>3, <1>4, <1>5, <1>6, <1>7 DEF Coroutine

\* What the service answers on an array is what may be answered.
LEMMA AnswerTypes ==
  ASSUME BlobsAssumption, NEW call \in Coroutine, NEW array \in Seq(Entry)
  PROVE  /\ AnswerType(call, Answer(call, array))
         /\ Answer(call, array) \in Seq(Target) \cup Blob \cup BOOLEAN
<1>1. Targets(array) \in Seq(Target)
  <2>1. ASSUME NEW i \in DOMAIN array
        PROVE  array[i].target \in Target
    <3>1. array[i] \in Entry
      OBVIOUS
    <3>. QED  BY <3>1 DEF Entry
  <2>2. Len(array) \in Nat /\ DOMAIN array = 1..Len(array)
    OBVIOUS
  <2>3. Targets(array) \in [1..Len(array) -> Target]
    BY <2>1, <2>2 DEF Targets
  <2>. QED  BY <2>2, <2>3
<1>2. \A c : BlobOf(array, c) \in Blob
  BY BlobHeld
<1>3. None \in Blob
  BY DEF Blob
<1>4. CASE call.stage = "list"
  <2>1. Answer(call, array) = Targets(array)
    BY <1>4 DEF Answer
  <2>. QED  BY <1>1, <1>4, <2>1 DEF AnswerType
<1>5. CASE call.stage \in {"read", "check"}
  <2>1. Answer(call, array) = BlobOf(array, call.credential)
    BY <1>5 DEF Answer
  <2>. QED  BY <1>2, <1>5, <2>1 DEF AnswerType
<1>6. CASE call.stage = "preview"
  <2>1. Answer(call, array) = (Written(array, call.request) = array)
    BY <1>6 DEF Answer
  <2>2. (Written(array, call.request) = array) \in BOOLEAN
    OBVIOUS
  <2>. QED  BY <1>6, <2>1, <2>2 DEF AnswerType
<1>7. CASE call.stage \notin {"list", "read", "check", "preview"}
  <2>1. Answer(call, array) = None
    BY <1>7 DEF Answer
  <2>. QED  BY <1>3, <1>7, <2>1 DEF AnswerType
<1>. QED  BY <1>4, <1>5, <1>6, <1>7

\* The array that is stored is one.
LEMMA StoredType ==
  ASSUME ServiceType
  PROVE  Stored \in Seq(Entry)
<1>1. CASE service.id = 0
  <2>1. Stored = <<>>
    BY <1>1 DEF Stored
  <2>. QED  BY <2>1
<1>2. CASE service.id # 0
  <2>1. Stored = arrays[service.token] /\ service.token \in Token
    BY <1>2 DEF ServiceType, Stored
  <2>. QED  BY <2>1 DEF ServiceType
<1>. QED  BY <1>1, <1>2

\* What serving a call does, part by part.
LEMMA ServeParts ==
  ASSUME BlobsAssumption, BlobsInv, NEW k \in BlobCall, Serve(k)
  PROVE  /\ calls[k].stage # "none" /\ ~calls[k].served /\ calls[k] \in Coroutine
         /\ calls' = [calls EXCEPT ![k] = [calls[k] EXCEPT !.served = TRUE]]
         /\ UNCHANGED <<session, stores, made, moved>>
         /\ \E m \in Message :
              /\ Send(m) /\ m.kind = "answer" /\ m.call = k /\ m.ok \in BOOLEAN /\ m.closed \in BOOLEAN
              /\ calls[k].stage = "decode" => ~m.closed
              /\ calls[k].stage # "decode" /\ service.id = 0 => ~m.ok /\ m.closed
              /\ service' = IF m.closed THEN [id |-> 0, token |-> None] ELSE service
              /\ m.ok => m.value = Answer(calls[k], Stored)
              /\ arrays' = IF m.ok /\ calls[k].stage \in {"execute", "lab"}
                           THEN [arrays EXCEPT ![service.token] = Written(Stored, calls[k].request)]
                           ELSE IF m.ok /\ calls[k].stage = "remove"
                           THEN [arrays EXCEPT ![service.token] = Orphaned(Stored, calls[k].credential)]
                           ELSE arrays
              /\ deleted' = IF m.ok /\ calls[k].stage = "remove"
                            THEN [deleted EXCEPT ![service.token] = Gone \cup {calls[k].credential}]
                            ELSE deleted
              /\ m.ok => PasskeyOf(calls[k]) \notin Gone
<1>1. calls \in [BlobCall -> Coroutine] /\ ServiceType
  BY DEF BlobsInv, CallsType
<1>2. calls[k] \in Coroutine /\ calls[k].stage # "none" /\ ~calls[k].served
  BY <1>1 DEF Serve
<1>3. Stored \in Seq(Entry)
  BY <1>1, StoredType
<1>4. PICK ok \in BOOLEAN, closed \in BOOLEAN :
        /\ IF calls[k].stage = "decode" THEN ~closed ELSE service.id = 0 => ~ok /\ closed
        /\ service' = IF closed THEN [id |-> 0, token |-> None] ELSE service
        /\ Send([kind |-> "answer", call |-> k, ok |-> ok, closed |-> closed,
                 value |-> IF ok THEN Answer(calls[k], Stored) ELSE None])
        /\ arrays' = IF ok /\ calls[k].stage \in {"execute", "lab"}
                     THEN [arrays EXCEPT ![service.token] = Written(@, calls[k].request)]
                     ELSE IF ok /\ calls[k].stage = "remove"
                     THEN [arrays EXCEPT ![service.token] = Orphaned(@, calls[k].credential)]
                     ELSE arrays
        /\ deleted' = IF ok /\ calls[k].stage = "remove"
                      THEN [deleted EXCEPT ![service.token] = @ \cup {calls[k].credential}]
                      ELSE deleted
        /\ ok => PasskeyOf(calls[k]) \notin Gone
  BY DEF Serve, Stored
<1>5. calls' = [calls EXCEPT ![k].served = TRUE]
  BY DEF Serve
<1>6. calls' = [calls EXCEPT ![k] = [calls[k] EXCEPT !.served = TRUE]]
  BY <1>1, <1>5
<1>7. PICK m : m = [kind |-> "answer", call |-> k, ok |-> ok, closed |-> closed,
                    value |-> IF ok THEN Answer(calls[k], Stored) ELSE None]
  OBVIOUS
<1>8. /\ Send(m) /\ m.kind = "answer" /\ m.call = k /\ m.ok = ok /\ m.closed = closed
      /\ ok => m.value = Answer(calls[k], Stored)
  BY <1>4, <1>7
<1>9. m \in Message
  <2>1. (IF ok THEN Answer(calls[k], Stored) ELSE None) \in Seq(Target) \cup Blob \cup BOOLEAN
    BY <1>2, <1>3, AnswerTypes DEF Blob
  <2>. QED  BY <1>7, <2>1 DEF Message
<1>10. /\ arrays' = IF ok /\ calls[k].stage \in {"execute", "lab"}
                    THEN [arrays EXCEPT ![service.token] = Written(Stored, calls[k].request)]
                    ELSE IF ok /\ calls[k].stage = "remove"
                    THEN [arrays EXCEPT ![service.token] = Orphaned(Stored, calls[k].credential)]
                    ELSE arrays
       /\ deleted' = IF ok /\ calls[k].stage = "remove"
                     THEN [deleted EXCEPT ![service.token] = Gone \cup {calls[k].credential}]
                     ELSE deleted
  <2>1. CASE ok /\ calls[k].stage \in {"execute", "lab", "remove"}
    <3>1. service.id # 0
      BY <1>4, <2>1
    <3>2. Stored = arrays[service.token] /\ Gone = deleted[service.token]
      BY <3>1 DEF Stored, Gone
    <3>. QED  BY <1>4, <2>1, <3>2
  <2>2. CASE ~(ok /\ calls[k].stage \in {"execute", "lab", "remove"})
    BY <1>4, <2>2
  <2>. QED  BY <2>1, <2>2
<1>11. UNCHANGED <<session, stores, made, moved>>
  BY DEF Serve, history
<1>. QED  BY <1>2, <1>4, <1>6, <1>8, <1>9, <1>10, <1>11

\* A call is served.
LEMMA ServeInv ==
  ASSUME BlobsAssumption, BlobsInv, NEW k \in BlobCall, Serve(k)
  PROVE  BlobsInv'
<1>1. /\ CallsType /\ WireType /\ AnswerAwaited /\ ServiceType /\ WindowType /\ AnswersTyped
      /\ StoresType /\ RowsRight /\ BlobsWait /\ NoneDeleted
  BY DEF BlobsInv
<1>2. /\ calls[k].stage # "none" /\ ~calls[k].served /\ calls[k] \in Coroutine
      /\ calls' = [calls EXCEPT ![k] = [calls[k] EXCEPT !.served = TRUE]]
      /\ session' = session /\ stores' = stores /\ made' = made /\ moved' = moved
  BY ServeParts
<1>3. PICK m \in Message :
        /\ Send(m) /\ m.kind = "answer" /\ m.call = k /\ m.ok \in BOOLEAN /\ m.closed \in BOOLEAN
        /\ calls[k].stage = "decode" => ~m.closed
        /\ calls[k].stage # "decode" /\ service.id = 0 => ~m.ok /\ m.closed
        /\ service' = IF m.closed THEN [id |-> 0, token |-> None] ELSE service
        /\ m.ok => m.value = Answer(calls[k], Stored)
        /\ arrays' = IF m.ok /\ calls[k].stage \in {"execute", "lab"}
                     THEN [arrays EXCEPT ![service.token] = Written(Stored, calls[k].request)]
                     ELSE IF m.ok /\ calls[k].stage = "remove"
                     THEN [arrays EXCEPT ![service.token] = Orphaned(Stored, calls[k].credential)]
                     ELSE arrays
        /\ deleted' = IF m.ok /\ calls[k].stage = "remove"
                      THEN [deleted EXCEPT ![service.token] = Gone \cup {calls[k].credential}]
                      ELSE deleted
        /\ m.ok => PasskeyOf(calls[k]) \notin Gone
  BY ServeParts
<1>4. PICK d : d = [calls[k] EXCEPT !.served = TRUE]
  OBVIOUS
<1>5. /\ d \in Coroutine /\ d.stage = calls[k].stage /\ d.served
      /\ calls[k].stage = "read" => d.index = calls[k].index /\ d.credential = calls[k].credential
      /\ calls[k].stage \in {"execute", "lab"} => calls[k].request \in RequestType
      /\ calls[k].stage = "remove" => calls[k].credential \in Credential
  BY <1>2, <1>4, ServedCall
<1>6. /\ calls \in [BlobCall -> Coroutine] /\ calls' = [calls EXCEPT ![k] = d]
      /\ calls' \in [BlobCall -> Coroutine] /\ calls'[k] = d
      /\ \A j \in BlobCall : j # k => calls'[j] = calls[j]
  BY <1>1, <1>2, <1>4, <1>5 DEF CallsType
<1>7. PICK n : n = Len(wire) + 1
  OBVIOUS
<1>8. /\ WireType' /\ DOMAIN wire' = DOMAIN wire \cup {n} /\ wire'[n] = m
      /\ \A i \in DOMAIN wire : wire'[i] = wire[i]
  BY <1>1, <1>3, <1>7, Sent
<1>9. ASSUME NEW i \in DOMAIN wire, IsAnswer(i)
      PROVE  /\ wire[i].call \in BlobCall /\ wire[i].call # k
             /\ calls'[wire[i].call] = calls[wire[i].call]
  <2>1. wire[i].call \in BlobCall
    BY <1>1, <1>9, MessageKinds
  <2>2. calls[wire[i].call].served
    BY <1>1, <1>9 DEF AnswerAwaited
  <2>. QED  BY <1>2, <1>6, <2>1, <2>2
<1>10. AnswerAwaited'
  <2>1. ASSUME NEW i \in DOMAIN wire', wire'[i].kind = "answer"
        PROVE  /\ calls'[wire'[i].call].stage # "none" /\ calls'[wire'[i].call].served
               /\ \A j \in DOMAIN wire' :
                    wire'[j].kind = "answer" /\ wire'[j].call = wire'[i].call => j = i
    <3>1. ASSUME NEW j \in DOMAIN wire, wire[j].kind = "answer"
          PROVE  wire[j].call # k
      BY <1>9, <3>1 DEF IsAnswer
    <3>2. CASE i = n
      BY <1>2, <1>3, <1>5, <1>6, <1>8, <3>1, <3>2
    <3>3. CASE i \in DOMAIN wire
      <4>1. wire'[i] = wire[i] /\ IsAnswer(i)
        BY <1>8, <2>1, <3>3 DEF IsAnswer
      <4>2. wire[i].call # k /\ calls'[wire[i].call] = calls[wire[i].call]
        BY <1>9, <3>3, <4>1
      <4>3. /\ calls[wire[i].call].stage # "none" /\ calls[wire[i].call].served
            /\ \A j \in DOMAIN wire : wire[j].kind = "answer" /\ wire[j].call = wire[i].call => j = i
        BY <1>1, <3>3, <4>1 DEF AnswerAwaited, IsAnswer
      <4>. QED  BY <1>3, <1>8, <4>1, <4>2, <4>3
    <3>. QED  BY <1>8, <2>1, <3>2, <3>3
  <2>. QED  BY <2>1 DEF AnswerAwaited, IsAnswer
<1>11. AnswersTyped'
  <2>1. ASSUME NEW i \in DOMAIN wire', wire'[i].kind = "answer", wire'[i].ok
        PROVE  AnswerType(calls'[wire'[i].call], wire'[i].value)
    <3>1. CASE i = n
      <4>1. AnswerType(calls[k], m.value)
        BY <1>1, <1>2, <1>3, <1>8, <2>1, <3>1, StoredType, AnswerTypes
      <4>. QED  BY <1>3, <1>5, <1>6, <1>8, <3>1, <4>1 DEF AnswerType
    <3>2. CASE i \in DOMAIN wire
      <4>1. wire'[i] = wire[i] /\ IsAnswer(i) /\ wire[i].ok
        BY <1>8, <2>1, <3>2 DEF IsAnswer
      <4>2. calls'[wire[i].call] = calls[wire[i].call]
        BY <1>9, <3>2, <4>1
      <4>3. AnswerType(calls[wire[i].call], wire[i].value)
        BY <1>1, <3>2, <4>1 DEF AnswersTyped
      <4>. QED  BY <4>1, <4>2, <4>3
    <3>. QED  BY <1>8, <2>1, <3>1, <3>2
  <2>. QED  BY <2>1 DEF AnswersTyped, IsAnswer, AnswerType
<1>12. ServiceType' /\ NoneDeleted'
  <2>1. made' \in Nat /\ service' \in [id : 0..made', token : Token \cup {None}]
    BY <1>1, <1>2, <1>3 DEF ServiceType
  <2>2. service'.id # 0 => service'.token \in Token
    BY <1>1, <1>3 DEF ServiceType
  <2>3. CASE m.ok /\ calls[k].stage \in {"execute", "lab", "remove"}
    <3>1. service.id # 0
      BY <1>3, <2>3
    <3>2. PICK u : u = service.token
      OBVIOUS
    <3>3. u \in Token /\ Stored = arrays[u] /\ Gone = deleted[u] /\ Stored \in Seq(Entry)
      BY <1>1, <3>1, <3>2, StoredType DEF ServiceType, Stored, Gone
    <3>4. Clear(Stored, Gone) /\ Gone \in SUBSET Credential /\ None \notin Gone
      BY <1>1, <3>3 DEF NoneDeleted, ServiceType, BlobsAssumption
    <3>5. PICK B, G : /\ B \in Seq(Entry) /\ G \in SUBSET Credential /\ Clear(B, G)
                      /\ arrays' = [arrays EXCEPT ![u] = B] /\ deleted' = [deleted EXCEPT ![u] = G]
      <4>1. CASE calls[k].stage = "remove"
        <5>1. /\ Orphaned(Stored, calls[k].credential) \in Seq(Entry)
              /\ Clear(Orphaned(Stored, calls[k].credential), Gone \cup {calls[k].credential})
          BY <1>5, <3>3, <3>4, <4>1, OrphanedHolds
        <5>2. Gone \cup {calls[k].credential} \in SUBSET Credential
          BY <1>5, <3>4, <4>1
        <5>. QED  BY <1>3, <2>3, <3>2, <4>1, <5>1, <5>2
      <4>2. CASE calls[k].stage \in {"execute", "lab"}
        <5>1. calls[k].request \in RequestType /\ calls[k].request.credential \notin Gone
          BY <1>3, <1>5, <2>3, <4>2 DEF PasskeyOf
        <5>2. /\ Written(Stored, calls[k].request) \in Seq(Entry)
              /\ Clear(Written(Stored, calls[k].request), Gone)
          BY <3>3, <3>4, <5>1, WrittenHolds, WrittenClear
        <5>3. arrays' = [arrays EXCEPT ![u] = Written(Stored, calls[k].request)]
          BY <1>3, <2>3, <3>2, <4>2
        <5>4. deleted' = [deleted EXCEPT ![u] = Gone]
          BY <1>1, <1>3, <3>3, <4>2 DEF ServiceType
        <5>. QED  BY <3>4, <5>2, <5>3, <5>4
      <4>. QED  BY <2>3, <4>1, <4>2
    <3>6. arrays' \in [Token -> Seq(Entry)] /\ deleted' \in [Token -> SUBSET Credential]
      BY <1>1, <3>3, <3>5 DEF ServiceType
    <3>7. ASSUME NEW t \in Token
          PROVE  Clear(arrays'[t], deleted'[t])
      <4>1. CASE t = u
        BY <1>1, <3>5, <4>1 DEF ServiceType
      <4>2. CASE t # u
        BY <1>1, <3>5, <4>2 DEF ServiceType, NoneDeleted
      <4>. QED  BY <4>1, <4>2
    <3>. QED  BY <2>1, <2>2, <3>6, <3>7 DEF ServiceType, NoneDeleted, Clear
  <2>4. CASE ~(m.ok /\ calls[k].stage \in {"execute", "lab", "remove"})
    <3>1. arrays' = arrays /\ deleted' = deleted
      BY <1>3, <2>4
    <3>. QED  BY <1>1, <2>1, <2>2, <3>1 DEF ServiceType, NoneDeleted
  <2>. QED  BY <2>3, <2>4
<1>13. BlobsWait'
  <2>1. ASSUME NEW stage, Awaits(calls, stage)
        PROVE  Awaits(calls', stage)
    BY <1>5, <1>6, <2>1 DEF Awaits
  <2>2. Waiting(stores, calls)
    BY <1>1, WaitingIsProperty
  <2>3. Waiting(stores, calls')
    BY <2>1, <2>2 DEF Waiting
  <2>. QED  BY <1>2, <2>3, WaitingIsProperty
<1>14. RowsRight'
  <2>1. ASSUME NEW j \in BlobCall
        PROVE  Moves(calls'[j], stores.report) <=> Moves(calls[j], stores.report)
    <3>1. CASE j = k
      BY <1>5, <1>6, <3>1 DEF Moves
    <3>2. CASE j # k
      BY <1>6, <3>2
    <3>. QED  BY <3>1, <3>2
  <2>2. stores.phase = "ready" /\ ~moved =>
          /\ \A j \in BlobCall : ~Moves(calls'[j], stores.report)
          /\ stores.read.phase = "ready" =>
               /\ stores.read.index \in DOMAIN stores.report
               /\ stores.report[stores.read.index] = stores.read.credential
    BY <1>1, <2>1 DEF RowsRight
  <2>. QED  BY <1>2, <2>2 DEF RowsRight, Moves
<1>15. StoresType' /\ CallsType' /\ WindowType'
  BY <1>1, <1>2, <1>6 DEF StoresType, CallsType, WindowType
<1>. QED  BY <1>8, <1>10, <1>11, <1>12, <1>13, <1>14, <1>15 DEF BlobsInv

-----------------------------------------------------------------------------
(* What arrives.                                                            *)

\* A message is taken; the answers that are left were there before.
LEMMA Delivered ==
  ASSUME WireType, NEW kind, NEW i, Deliver(kind, i)
  PROVE  /\ i \in DOMAIN wire /\ wire[i].kind = kind /\ WireType'
         /\ DOMAIN wire' = 1..Len(wire) - 1
         /\ \E old \in [DOMAIN wire' -> DOMAIN wire \ {i}] :
              /\ \A j \in DOMAIN wire' : wire'[j] = wire[old[j]]
              /\ \A j, l \in DOMAIN wire' : old[j] = old[l] => j = l
BY Received DEF Deliver

\* A snapshot arrives, and the screen loads what it lacks.
LEMMA HandleParts ==
  ASSUME BlobsInv, NEW i, HandleDiscoveryChanged(i)
  PROVE  /\ Deliver("snapshot", i)
         /\ session' = [id |-> wire[i].id, attached |-> wire[i].attached]
         /\ Does(IF session' = session THEN stores ELSE EmptyStores)
         /\ UNCHANGED <<serviceVars, moved>>
<1>1. CallsType /\ stores \in Stores /\ Waiting(stores, calls)
  BY InvWaits
<1>2. PICK next : next = [id |-> wire[i].id, attached |-> wire[i].attached]
  OBVIOUS
<1>3. PICK s : s = IF next = session THEN stores ELSE EmptyStores
  OBVIOUS
<1>4. /\ Deliver("snapshot", i) /\ session' = next /\ UNCHANGED <<serviceVars, moved>>
      /\ \/ LoadActiveScreen(screen, next.id, s)
         \/ stores' = s /\ calls' = calls
  BY <1>2, <1>3 DEF HandleDiscoveryChanged, history
<1>5. s \in Stores /\ Waiting(s, calls)
  <2>1. EmptyStores \in Stores
    BY EmptyAfter DEF After
  <2>2. Waiting(EmptyStores, calls)
    BY <1>1, EmptyAfter DEF EmptyStores, Waiting, Loading, Idle
  <2>. QED  BY <1>1, <1>3, <2>1, <2>2
<1>6. Does(s)
  <2>1. CASE LoadActiveScreen(screen, next.id, s)
    BY <1>1, <1>5, <2>1, LoadActiveScreenDoes
  <2>2. CASE stores' = s /\ calls' = calls
    <3>1. After(s, stores', "none")
      BY <1>5, <2>2, SameAfter
    <3>. QED  BY <1>1, <1>5, <2>2, <3>1, DoesNothing
  <2>. QED  BY <1>4, <2>1, <2>2
<1>. QED  BY <1>2, <1>3, <1>4, <1>6

\* The calls that wait for an answer are not touched by what begins.
LEMMA AwaitedKept ==
  ASSUME CallsType, NEW s, Does(s), NEW k \in BlobCall, calls[k].stage # "none"
  PROVE  calls'[k] = calls[k]
BY DEF Does, Begun

\* A snapshot is shown.
LEMMA HandleInv ==
  ASSUME BlobsInv, NEW i, HandleDiscoveryChanged(i)
  PROVE  BlobsInv'
<1>1. /\ CallsType /\ WireType /\ AnswerAwaited /\ ServiceType /\ WindowType /\ AnswersTyped
      /\ RowsRight /\ NoneDeleted
  BY DEF BlobsInv
<1>2. /\ Deliver("snapshot", i) /\ UNCHANGED serviceVars /\ moved' = moved
      /\ session' = [id |-> wire[i].id, attached |-> wire[i].attached]
  BY HandleParts
<1>3. PICK s : s = (IF session' = session THEN stores ELSE EmptyStores) /\ Does(s)
  BY HandleParts
<1>4. i \in DOMAIN wire /\ wire[i].kind = "snapshot" /\ WireType'
  BY <1>1, <1>2, Delivered
<1>5. PICK old \in [DOMAIN wire' -> DOMAIN wire \ {i}] :
        /\ \A j \in DOMAIN wire' : wire'[j] = wire[old[j]]
        /\ \A j, l \in DOMAIN wire' : old[j] = old[l] => j = l
  BY <1>1, <1>2, Delivered
<1>6. StoresType' /\ CallsType' /\ BlobsWait'
  BY <1>3, WaitingIsProperty DEF Does, StoresType, CallsType
<1>7. ServiceType' /\ WindowType' /\ NoneDeleted'
  <2>1. wire[i].id \in Nat /\ wire[i].attached \in BOOLEAN
    BY <1>1, <1>4, MessageKinds
  <2>. QED  BY <1>1, <1>2, <2>1 DEF ServiceType, WindowType, NoneDeleted, serviceVars
<1>8. ASSUME NEW j \in DOMAIN wire', wire'[j].kind = "answer"
      PROVE  /\ wire'[j] = wire[old[j]] /\ old[j] \in DOMAIN wire /\ IsAnswer(old[j])
             /\ calls'[wire'[j].call] = calls[wire[old[j]].call]
  <2>1. wire'[j] = wire[old[j]] /\ old[j] \in DOMAIN wire /\ IsAnswer(old[j])
    BY <1>5, <1>8 DEF IsAnswer
  <2>2. wire[old[j]].call \in BlobCall /\ calls[wire[old[j]].call].stage # "none"
    BY <1>1, <2>1, MessageKinds DEF AnswerAwaited
  <2>. QED  BY <1>1, <1>3, <2>1, <2>2, AwaitedKept
<1>9. AnswerAwaited'
  <2>1. ASSUME NEW j \in DOMAIN wire', wire'[j].kind = "answer"
        PROVE  /\ calls'[wire'[j].call].stage # "none" /\ calls'[wire'[j].call].served
               /\ \A l \in DOMAIN wire' :
                    wire'[l].kind = "answer" /\ wire'[l].call = wire'[j].call => l = j
    <3>1. /\ wire'[j] = wire[old[j]] /\ old[j] \in DOMAIN wire /\ IsAnswer(old[j])
          /\ calls'[wire'[j].call] = calls[wire[old[j]].call]
      BY <1>8, <2>1
    <3>2. calls[wire[old[j]].call].stage # "none" /\ calls[wire[old[j]].call].served
      BY <1>1, <3>1 DEF AnswerAwaited
    <3>3. ASSUME NEW l \in DOMAIN wire', wire'[l].kind = "answer", wire'[l].call = wire'[j].call
          PROVE  l = j
      <4>1. wire'[l] = wire[old[l]] /\ old[l] \in DOMAIN wire /\ IsAnswer(old[l])
        BY <1>8, <3>3
      <4>2. old[l] = old[j]
        BY <1>1, <3>1, <3>3, <4>1 DEF AnswerAwaited
      <4>. QED  BY <1>5, <4>2
    <3>. QED  BY <3>1, <3>2, <3>3
  <2>. QED  BY <2>1 DEF AnswerAwaited, IsAnswer
<1>10. AnswersTyped'
  <2>1. ASSUME NEW j \in DOMAIN wire', wire'[j].kind = "answer", wire'[j].ok
        PROVE  AnswerType(calls'[wire'[j].call], wire'[j].value)
    <3>1. /\ wire'[j] = wire[old[j]] /\ old[j] \in DOMAIN wire /\ IsAnswer(old[j])
          /\ calls'[wire'[j].call] = calls[wire[old[j]].call]
      BY <1>8, <2>1
    <3>2. AnswerType(calls[wire[old[j]].call], wire[old[j]].value)
      BY <1>1, <2>1, <3>1 DEF AnswersTyped
    <3>. QED  BY <3>1, <3>2
  <2>. QED  BY <2>1 DEF AnswersTyped, IsAnswer, AnswerType
<1>11. RowsRight'
  <2>1. EmptyStores.phase = "idle"
    BY DEF EmptyStores
  <2>2. s.phase = "ready" /\ ~moved =>
           /\ \A k \in BlobCall : ~Moves(calls[k], s.report)
           /\ s.read.phase = "ready" =>
                /\ s.read.index \in DOMAIN s.report
                /\ s.report[s.read.index] = s.read.credential
    BY <1>1, <1>3, <2>1 DEF RowsRight
  <2>. QED  BY <1>2, <1>3, <2>2, RowsKept
<1>. QED  BY <1>4, <1>6, <1>7, <1>9, <1>10, <1>11 DEF BlobsInv

\* What a coroutine publishes: what is shown was shown or is what was answered, and
\* nothing waits for its call, unless an execution is to be followed by a load.
ListShown(s, t, call, a) ==
  t.phase = "ready" =>
    \/ s.phase = "ready" /\ t.report = s.report /\ call.stage # "list"
    \/ call.stage = "list" /\ a.ok /\ t.report = a.value /\ t.read = Idle
ReadShown(s, t, call, a) ==
  t.read.phase = "ready" =>
    \/ t.read = s.read
    \/ call.stage = "read" /\ a.ok /\ t.read = EntryBlob(call.index, call.credential, a.value)
PasskeyShown(s, t, call, a) ==
  t.passkey.phase = "ready" =>
    \/ t.passkey = s.passkey /\ (call.stage = "execute" /\ a.ok => call.request.kind = "cleanup")
    \/ call.stage = "check" /\ a.ok /\ t.passkey = PasskeyBlob(call.credential, a.value)
    \/ /\ call.stage = "preview" /\ a.ok /\ call.request.kind = "delete" /\ a.value
       /\ t.passkey = PasskeyBlob(call.request.credential, None)
    \/ /\ call.stage = "execute" /\ a.ok /\ call.request.kind # "cleanup"
       /\ t.passkey = PasskeyBlob(call.request.credential, call.request.content)
Publishes(s, t, call, a) ==
  /\ t \in Stores /\ OnlyWaits(s, t, "none")
  /\ ~(call.stage = "execute" /\ a.ok) => WaitsNot(t, call.stage)
  /\ ListShown(s, t, call, a) /\ ReadShown(s, t, call, a) /\ PasskeyShown(s, t, call, a)

\* A list that was answered.
LEMMA ListPublishes ==
  ASSUME NEW s \in Stores, NEW call, call.stage = "list", NEW a,
         a.ok \in BOOLEAN, a.ok => a.value \in Seq(Target)
  PROVE  Publishes(s, ListReturns(s, a), call, a)
<1>1. PICK t : t = ListReturns(s, a)
  OBVIOUS
<1>2. Idle.phase = "idle" /\ Idle \in ReadState /\ Idle \in DecodeState /\ Idle \in MutationState
  BY DEF Idle, ReadState, DecodeState, MutationState
<1>3. CASE ~a.ok
  <2>1. t = [s EXCEPT !.phase = "error"]
    BY <1>1, <1>3 DEF ListReturns
  <2>2. t \in Stores
    BY <2>1 DEF Stores
  <2>3. /\ t.phase = "error" /\ t.read = s.read /\ t.decode = s.decode /\ t.passkey = s.passkey
        /\ t.mutation = s.mutation
    BY <2>1 DEF Stores
  <2>. QED  BY <1>1, <1>3, <2>2, <2>3
            DEF Publishes, OnlyWaits, WaitsNot, Loading, ListShown, ReadShown, PasskeyShown
<1>4. CASE a.ok
  <2>1. PICK l : l = [ResetRead(s) EXCEPT !.phase = "ready", !.report = a.value]
    OBVIOUS
  <2>2. /\ l \in Stores /\ l.phase = "ready" /\ l.report = a.value /\ l.read = Idle
        /\ l.decode = Idle /\ l.passkey = s.passkey /\ l.mutation = s.mutation
    BY <1>2, <1>4, <2>1 DEF ResetRead, Stores
  <2>3. t = l \/ t = [l EXCEPT !.selected = 0, !.mutation = Idle]
    BY <1>1, <1>4, <2>1 DEF ListReturns
  <2>4. /\ t \in Stores /\ t.phase = "ready" /\ t.report = a.value /\ t.read = Idle
        /\ t.decode = Idle /\ t.passkey = s.passkey /\ t.mutation \in {s.mutation, Idle}
    <3>1. CASE t = l
      BY <2>2, <3>1
    <3>2. CASE t = [l EXCEPT !.selected = 0, !.mutation = Idle]
      <4>1. t \in Stores
        BY <1>2, <2>2, <3>2 DEF Stores
      <4>. QED  BY <2>2, <3>2, <4>1 DEF Stores
    <3>. QED  BY <2>3, <3>1, <3>2
  <2>5. OnlyWaits(s, t, "none") /\ WaitsNot(t, "list")
    BY <1>2, <2>4 DEF OnlyWaits, WaitsNot, Loading
  <2>6. ListShown(s, t, call, a) /\ ReadShown(s, t, call, a) /\ PasskeyShown(s, t, call, a)
    BY <1>2, <1>4, <2>4 DEF ListShown, ReadShown, PasskeyShown
  <2>. QED  BY <1>1, <2>4, <2>5, <2>6 DEF Publishes
<1>. QED  BY <1>3, <1>4

\* A row that was read.
LEMMA ReadPublishes ==
  ASSUME NEW s \in Stores, NEW call \in Coroutine, call.stage = "read", NEW a,
         a.ok \in BOOLEAN, a.ok => a.value \in Blob,
         NEW t, t = [s EXCEPT !.read = IF a.ok THEN EntryBlob(call.index, call.credential, a.value)
                                       ELSE At("error", call.index)]
  PROVE  Publishes(s, t, call, a)
<1>1. call.index \in Nat /\ call.credential \in Credential
  BY DEF Coroutine, NoCall
<1>2. PICK r : r = IF a.ok THEN EntryBlob(call.index, call.credential, a.value)
                   ELSE At("error", call.index)
  OBVIOUS
<1>3. /\ r \in ReadState /\ r.phase # "loading"
      /\ r.phase = "ready" => a.ok
      /\ a.ok => r = EntryBlob(call.index, call.credential, a.value)
  <2>1. CASE a.ok
    BY <1>1, <1>2, <2>1 DEF EntryBlob, ReadState
  <2>2. CASE ~a.ok
    BY <1>1, <1>2, <2>2 DEF At, ReadState
  <2>. QED  BY <2>1, <2>2
<1>4. /\ t \in Stores /\ t.phase = s.phase /\ t.report = s.report /\ t.read = r
      /\ t.decode = s.decode /\ t.passkey = s.passkey /\ t.mutation = s.mutation
  BY <1>2, <1>3 DEF Stores
<1>5. OnlyWaits(s, t, "none") /\ WaitsNot(t, "read")
  BY <1>3, <1>4 DEF OnlyWaits, WaitsNot, Loading
<1>6. ListShown(s, t, call, a) /\ ReadShown(s, t, call, a) /\ PasskeyShown(s, t, call, a)
  BY <1>3, <1>4 DEF ListShown, ReadShown, PasskeyShown
<1>. QED  BY <1>4, <1>5, <1>6 DEF Publishes

\* The blob of a passkey that was read.
LEMMA CheckPublishes ==
  ASSUME NEW s \in Stores, NEW call \in Coroutine, call.stage = "check", NEW a,
         a.ok \in BOOLEAN, a.ok => a.value \in Blob,
         NEW t, t = [s EXCEPT !.passkey = IF a.ok THEN PasskeyBlob(call.credential, a.value)
                                          ELSE [phase |-> "error", credential |-> call.credential]]
  PROVE  Publishes(s, t, call, a)
<1>1. call.credential \in Credential
  BY DEF Coroutine, NoCall
<1>2. PICK p : p = IF a.ok THEN PasskeyBlob(call.credential, a.value)
                   ELSE [phase |-> "error", credential |-> call.credential]
  OBVIOUS
<1>3. /\ p \in PasskeyState /\ p.phase # "loading"
      /\ p.phase = "ready" => a.ok
      /\ a.ok => p = PasskeyBlob(call.credential, a.value)
  <2>1. CASE a.ok
    BY <1>1, <1>2, <2>1 DEF PasskeyBlob, PasskeyState
  <2>2. CASE ~a.ok
    BY <1>1, <1>2, <2>2 DEF PasskeyState
  <2>. QED  BY <2>1, <2>2
<1>4. /\ t \in Stores /\ t.phase = s.phase /\ t.report = s.report /\ t.read = s.read
      /\ t.decode = s.decode /\ t.passkey = p /\ t.mutation = s.mutation
  BY <1>2, <1>3 DEF Stores
<1>5. OnlyWaits(s, t, "none") /\ WaitsNot(t, "check")
  BY <1>3, <1>4 DEF OnlyWaits, WaitsNot, Loading
<1>6. ListShown(s, t, call, a) /\ ReadShown(s, t, call, a) /\ PasskeyShown(s, t, call, a)
  BY <1>3, <1>4 DEF ListShown, ReadShown, PasskeyShown
<1>. QED  BY <1>4, <1>5, <1>6 DEF Publishes

\* A preview that was answered.
LEMMA PreviewPublishes ==
  ASSUME NEW s \in Stores, NEW call \in Coroutine, call.stage = "preview", NEW a,
         a.ok \in BOOLEAN, a.ok => a.value \in BOOLEAN
  PROVE  Publishes(s, PreviewReturns(s, call, a), call, a)
<1>1. call.base \in BaseType /\ call.request \in RequestType
  BY DEF Coroutine, NoCall
<1>2. PICK t : t = PreviewReturns(s, call, a)
  OBVIOUS
<1>3. \E x \in MutationState, p \in PasskeyState :
        /\ t = [s EXCEPT !.mutation = x, !.passkey = p]
        /\ x.phase \notin {"previewing", "executing"}
        /\ \/ p = s.passkey
           \/ /\ a.ok /\ call.request.kind = "delete" /\ a.value
              /\ p = PasskeyBlob(call.request.credential, None)
  <2>1. s.passkey \in PasskeyState /\ s.mutation \in MutationState
    BY StoresParts
  <2>2. ASSUME NEW x
        PROVE  [s EXCEPT !.mutation = x] = [s EXCEPT !.mutation = x, !.passkey = s.passkey]
    BY DEF Stores
  <2>3. CASE ~a.ok
    <3>1. t = [s EXCEPT !.mutation = Mutating("previewFailed", call.base)]
      BY <1>2, <2>3 DEF PreviewReturns
    <3>2. /\ Mutating("previewFailed", call.base) \in MutationState
          /\ Mutating("previewFailed", call.base).phase = "previewFailed"
      BY <1>1, BaseParts
    <3>3. t = [s EXCEPT !.mutation = Mutating("previewFailed", call.base), !.passkey = s.passkey]
      BY <2>2, <3>1
    <3>. QED  BY <2>1, <3>2, <3>3
  <2>4. CASE a.ok /\ call.request.kind # "write" /\ a.value
    <3>1. PICK p : p = IF call.request.kind = "delete" THEN PasskeyBlob(call.request.credential, None)
                       ELSE s.passkey
      OBVIOUS
    <3>2. t = [s EXCEPT !.mutation = Idle, !.passkey = p]
      BY <1>2, <2>4, <3>1 DEF PreviewReturns, Stores
    <3>3. p \in PasskeyState
      <4>1. CASE call.request.kind = "delete"
        <5>1. call.request.credential \in Credential
          BY <1>1, <4>1 DEF RequestType, WriteRequest
        <5>. QED  BY <3>1, <4>1, <5>1 DEF PasskeyBlob, PasskeyState, Blob
      <4>2. CASE call.request.kind # "delete"
        BY <2>1, <3>1, <4>2
      <4>. QED  BY <4>1, <4>2
    <3>4. Idle \in MutationState /\ Idle.phase = "idle"
      BY DEF MutationState, Idle
    <3>. QED  BY <2>4, <3>1, <3>2, <3>3, <3>4
  <2>5. CASE a.ok /\ ~(call.request.kind # "write" /\ a.value)
    <3>1. PICK x : x = [phase |-> "review", base |-> call.base, request |-> call.request]
      OBVIOUS
    <3>2. t = [s EXCEPT !.mutation = x]
      BY <1>2, <2>5, <3>1 DEF PreviewReturns
    <3>3. x \in MutationState /\ x.phase = "review"
      BY <1>1, <3>1 DEF MutationState
    <3>4. t = [s EXCEPT !.mutation = x, !.passkey = s.passkey]
      BY <2>2, <3>2
    <3>. QED  BY <2>1, <3>3, <3>4
  <2>. QED  BY <2>3, <2>4, <2>5
<1>4. PICK x \in MutationState, p \in PasskeyState :
        /\ t = [s EXCEPT !.mutation = x, !.passkey = p]
        /\ x.phase \notin {"previewing", "executing"}
        /\ \/ p = s.passkey
           \/ /\ a.ok /\ call.request.kind = "delete" /\ a.value
              /\ p = PasskeyBlob(call.request.credential, None)
  BY <1>3
<1>5. /\ t \in Stores /\ t.phase = s.phase /\ t.report = s.report /\ t.read = s.read
      /\ t.decode = s.decode /\ t.passkey = p /\ t.mutation = x
  BY <1>4 DEF Stores
<1>6. p = s.passkey \/ p.phase = "ready"
  BY <1>4 DEF PasskeyBlob
<1>7. OnlyWaits(s, t, "none") /\ WaitsNot(t, "preview")
  BY <1>4, <1>5, <1>6 DEF OnlyWaits, WaitsNot, Loading
<1>8. ListShown(s, t, call, a) /\ ReadShown(s, t, call, a)
  BY <1>5 DEF ListShown, ReadShown
<1>9. PasskeyShown(s, t, call, a)
  BY <1>4, <1>5 DEF PasskeyShown
<1>. QED  BY <1>2, <1>5, <1>7, <1>8, <1>9 DEF Publishes

\* An execution that was answered.
LEMMA ExecutePublishes ==
  ASSUME NEW s \in Stores, NEW call \in Coroutine, call.stage = "execute", NEW a, a.ok \in BOOLEAN
  PROVE  Publishes(s, ExecuteReturns(s, call, a), call, a)
<1>1. call.base \in BaseType /\ call.request \in RequestType
  BY DEF Coroutine, NoCall
<1>2. PICK t : t = ExecuteReturns(s, call, a)
  OBVIOUS
<1>3. CASE ~a.ok
  <2>1. PICK x : x = [phase |-> "executeFailed", base |-> call.base, request |-> call.request]
    OBVIOUS
  <2>2. t = [s EXCEPT !.mutation = x]
    BY <1>2, <1>3, <2>1 DEF ExecuteReturns
  <2>3. x \in MutationState /\ x.phase = "executeFailed"
    BY <1>1, <2>1 DEF MutationState
  <2>4. /\ t \in Stores /\ t.phase = s.phase /\ t.report = s.report /\ t.read = s.read
        /\ t.decode = s.decode /\ t.passkey = s.passkey /\ t.mutation = x
    BY <2>2, <2>3 DEF Stores
  <2>5. OnlyWaits(s, t, "none") /\ WaitsNot(t, "execute")
    BY <2>3, <2>4 DEF OnlyWaits, WaitsNot, Loading
  <2>6. ListShown(s, t, call, a) /\ ReadShown(s, t, call, a) /\ PasskeyShown(s, t, call, a)
    BY <1>3, <2>4 DEF ListShown, ReadShown, PasskeyShown
  <2>. QED  BY <1>2, <2>4, <2>5, <2>6 DEF Publishes
<1>4. CASE a.ok /\ call.request.kind = "cleanup"
  <2>1. t = s
    BY <1>2, <1>4 DEF ExecuteReturns
  <2>. QED  BY <1>2, <1>4, <2>1 DEF Publishes, OnlyWaits, ListShown, ReadShown, PasskeyShown
<1>5. CASE a.ok /\ call.request.kind # "cleanup"
  <2>1. PICK p : p = PasskeyBlob(call.request.credential, call.request.content)
    OBVIOUS
  <2>2. t = [s EXCEPT !.passkey = p]
    BY <1>2, <1>5, <2>1 DEF ExecuteReturns
  <2>3. p \in PasskeyState /\ p.phase = "ready"
    <3>1. call.request.credential \in Credential /\ call.request.content \in Blob
      BY <1>1, <1>5 DEF RequestType, WriteRequest, Blob
    <3>. QED  BY <2>1, <3>1 DEF PasskeyBlob, PasskeyState
  <2>4. /\ t \in Stores /\ t.phase = s.phase /\ t.report = s.report /\ t.read = s.read
        /\ t.decode = s.decode /\ t.passkey = p /\ t.mutation = s.mutation
    BY <2>2, <2>3 DEF Stores
  <2>5. OnlyWaits(s, t, "none")
    BY <2>3, <2>4 DEF OnlyWaits, Loading
  <2>6. ListShown(s, t, call, a) /\ ReadShown(s, t, call, a) /\ PasskeyShown(s, t, call, a)
    BY <1>5, <2>1, <2>4 DEF ListShown, ReadShown, PasskeyShown
  <2>. QED  BY <1>2, <1>5, <2>4, <2>5, <2>6 DEF Publishes
<1>. QED  BY <1>3, <1>4, <1>5

\* What a coroutine publishes, whatever it was called for.
LEMMA ReturnedPublishes ==
  ASSUME NEW s \in Stores, NEW call \in Coroutine, call.stage # "none", NEW a,
         a.ok \in BOOLEAN, a.ok => AnswerType(call, a.value)
  PROVE  Publishes(s, Returned(s, call, a), call, a)
<1>1. PICK t : t = Returned(s, call, a)
  OBVIOUS
<1>2. CASE call.stage = "list"
  <2>1. t = ListReturns(s, a)
    BY <1>1, <1>2 DEF Returned
  <2>. QED  BY <1>1, <1>2, <2>1, ListPublishes DEF AnswerType
<1>3. CASE call.stage = "read"
  <2>1. t = [s EXCEPT !.read = IF a.ok THEN EntryBlob(call.index, call.credential, a.value)
                               ELSE At("error", call.index)]
    BY <1>1, <1>3 DEF Returned
  <2>. QED  BY <1>1, <1>3, <2>1, ReadPublishes DEF AnswerType
<1>4. CASE call.stage = "check"
  <2>1. t = [s EXCEPT !.passkey = IF a.ok THEN PasskeyBlob(call.credential, a.value)
                                  ELSE [phase |-> "error", credential |-> call.credential]]
    BY <1>1, <1>4 DEF Returned
  <2>. QED  BY <1>1, <1>4, <2>1, CheckPublishes DEF AnswerType
<1>5. CASE call.stage = "decode"
  <2>1. t = [s EXCEPT !.decode = [phase |-> "ended"]]
    BY <1>1, <1>5 DEF Returned
  <2>2. /\ t \in Stores /\ t.phase = s.phase /\ t.report = s.report /\ t.read = s.read
        /\ t.decode.phase = "ended" /\ t.passkey = s.passkey /\ t.mutation = s.mutation
    BY <2>1 DEF Stores, DecodeState
  <2>3. OnlyWaits(s, t, "none") /\ WaitsNot(t, "decode")
    BY <2>2 DEF OnlyWaits, WaitsNot, Loading
  <2>4. ListShown(s, t, call, a) /\ ReadShown(s, t, call, a) /\ PasskeyShown(s, t, call, a)
    BY <1>5, <2>2 DEF ListShown, ReadShown, PasskeyShown
  <2>. QED  BY <1>1, <1>5, <2>2, <2>3, <2>4 DEF Publishes
<1>6. CASE call.stage = "preview"
  <2>1. t = PreviewReturns(s, call, a)
    BY <1>1, <1>6 DEF Returned
  <2>. QED  BY <1>1, <1>6, <2>1, PreviewPublishes DEF AnswerType
<1>7. CASE call.stage = "execute"
  <2>1. t = ExecuteReturns(s, call, a)
    BY <1>1, <1>7 DEF Returned
  <2>. QED  BY <1>1, <1>7, <2>1, ExecutePublishes
<1>8. CASE call.stage \in {"lab", "remove", "reload", "other"}
  <2>1. t = s \/ t = EmptyStores
    BY <1>1, <1>8 DEF Returned
  <2>2. After(s, t, "none")
    BY <2>1, SameAfter, EmptyAfter
  <2>. QED  BY <1>1, <1>8, <2>2
            DEF After, KeepsShown, Publishes, WaitsNot, ListShown, ReadShown, PasskeyShown
<1>9. call.stage \in {"none", "list", "reload", "other", "read", "check", "remove", "decode",
                      "preview", "execute", "lab"}
  BY DEF Coroutine, NoCall
<1>. QED  BY <1>2, <1>3, <1>4, <1>5, <1>6, <1>7, <1>8, <1>9

\* After a mutation what was loaded is dropped or loaded again, and the dialog closes.
LEMMA RefreshedParts ==
  ASSUME NEW s \in Stores, NEW c, c = Refreshed(s)
  PROVE  /\ After(s, c.stores, c.then.stage) /\ c.then \in Coroutine /\ c.then.stage # "read"
         /\ WaitsNot(c.stores, "execute")
         /\ c.stores.phase # "ready" /\ c.stores.read.phase # "ready"
<1>1. Idle.phase = "idle" /\ Idle \in ReadState /\ Idle \in DecodeState /\ Idle \in MutationState
  BY DEF Idle, ReadState, DecodeState, MutationState
<1>2. NoCall \in Coroutine /\ NoCall.stage = "none"
  BY DEF NoCall, Coroutine
<1>3. /\ EmptyStores \in Stores /\ EmptyStores.phase = "idle" /\ EmptyStores.read = Idle
      /\ EmptyStores.decode = Idle /\ EmptyStores.passkey = Idle /\ EmptyStores.mutation = Idle
  BY EmptyAfter DEF After, EmptyStores
<1>4. CASE c = [stores |-> InvalidateArray(s), then |-> NoCall]
  <2>1. PICK t : t = InvalidateArray(s)
    OBVIOUS
  <2>2. t = [EmptyStores EXCEPT !.passkey = s.passkey]
    BY <2>1 DEF InvalidateArray
  <2>3. /\ t \in Stores /\ t.phase = "idle" /\ t.read = Idle
        /\ t.decode = Idle /\ t.passkey = s.passkey /\ t.mutation = Idle
    BY <1>3, <2>2, StoresParts DEF Stores
  <2>4. After(s, t, "none") /\ WaitsNot(t, "execute") /\ t.read.phase # "ready"
    BY <1>1, <2>3 DEF After, KeepsShown, OnlyWaits, WaitsNot, Loading
  <2>5. c.stores = t /\ c.then = NoCall
    BY <1>4, <2>1
  <2>. QED  BY <1>2, <2>3, <2>4, <2>5
<1>5. CASE c = [stores |-> BeginLoad([ResetRead(s) EXCEPT !.mutation = Idle, !.selected = 0]),
                then |-> Loads("list")]
  <2>1. PICK l : l = [ResetRead(s) EXCEPT !.mutation = Idle, !.selected = 0]
    OBVIOUS
  <2>2. /\ l \in Stores /\ l.phase = s.phase /\ l.report = s.report /\ l.read = Idle
        /\ l.decode = Idle /\ l.passkey = s.passkey /\ l.mutation = Idle
    BY <1>1, <2>1 DEF ResetRead, Stores
  <2>3. PICK t : t = BeginLoad(l)
    OBVIOUS
  <2>4. /\ t \in Stores /\ t.phase \in {"loading", "refreshing"} /\ t.read = Idle
        /\ t.decode = Idle /\ t.passkey = s.passkey /\ t.mutation = Idle
    BY <2>2, <2>3 DEF BeginLoad, Stores
  <2>5. After(s, t, "list") /\ WaitsNot(t, "execute") /\ t.read.phase # "ready"
    BY <1>1, <2>4 DEF After, KeepsShown, OnlyWaits, WaitsNot, Loading
  <2>6. c.stores = t /\ c.then = Loads("list")
    BY <1>5, <2>1, <2>3
  <2>. QED  BY <2>4, <2>5, <2>6, PlainCalls
<1>6. CASE c = [stores |-> EmptyStores, then |-> NoCall]
  <2>1. c.stores = EmptyStores /\ c.then = NoCall
    BY <1>6
  <2>2. After(s, EmptyStores, "none") /\ WaitsNot(EmptyStores, "execute")
    BY <1>1, <1>3, EmptyAfter DEF WaitsNot, Loading
  <2>. QED  BY <1>1, <1>2, <1>3, <2>1, <2>2
<1>. QED  BY <1>4, <1>5, <1>6 DEF Refreshed

\* What a coroutine does next.
LEMMA ContinuedParts ==
  ASSUME BlobsAssumption, NEW s \in Stores, NEW call \in Coroutine, NEW a, NEW id,
         ~(call.stage = "execute" /\ a.ok) => WaitsNot(s, call.stage),
         NEW c, c = Continued(call, a, s, id)
  PROVE  /\ After(s, c.stores, c.then.stage) /\ c.then \in Coroutine
         /\ WaitsNot(c.stores, call.stage)
         /\ c.then.stage = "read" => ~Moves(c.then, s.report)
         /\ call.stage = "execute" /\ a.ok => c.stores.phase # "ready" /\ c.stores.read.phase # "ready"
<1>1. CASE a.ok /\ call.stage = "list" /\ s.selected # 0 /\ HasTarget(s, id, s.selected)
  <2>1. c.stores = StartRead(s, s.selected) /\ c.then = ReadCall(s, s.selected)
    BY <1>1 DEF Continued
  <2>2. /\ ReadCall(s, s.selected) \in Coroutine /\ ReadCall(s, s.selected).stage = "read"
        /\ ~Moves(ReadCall(s, s.selected), s.report)
    BY <1>1, TargetOfReport
  <2>3. After(s, c.stores, "read")
    BY <2>1, StoresParts, StartReadAfter
  <2>4. c.stores.phase = s.phase
    BY <2>1 DEF StartRead, ResetRead, Stores
  <2>5. WaitsNot(c.stores, "list")
    BY <1>1, <2>4 DEF WaitsNot, Loading
  <2>. QED  BY <1>1, <2>1, <2>2, <2>3, <2>5
<1>2. CASE a.ok /\ call.stage = "read" /\ a.value # None
  <2>1. c.stores = Decoding(s, call.index) /\ c.then = DecodeCall(call.index)
    BY <1>2 DEF Continued
  <2>2. call.index \in Nat
    BY <1>2 DEF Coroutine, NoCall
  <2>3. After(s, c.stores, "decode") /\ c.then \in Coroutine /\ c.then.stage = "decode"
    BY <2>1, <2>2, DecodingAfter, PlainCalls
  <2>4. c.stores.read = s.read
    BY <2>1 DEF Decoding, Stores
  <2>5. WaitsNot(c.stores, "read")
    BY <1>2, <2>4 DEF WaitsNot
  <2>. QED  BY <1>2, <2>3, <2>5
<1>3. CASE a.ok /\ call.stage = "execute"
  <2>1. c = Refreshed(s)
    BY <1>3 DEF Continued
  <2>. QED  BY <1>3, <2>1, RefreshedParts
<1>4. CASE a.ok /\ call.stage = "remove" /\ id # 0
  <2>1. c.stores = s /\ c.then = Loads("reload")
    BY <1>4 DEF Continued
  <2>2. After(s, s, "reload")
    BY SameAfter
  <2>. QED  BY <1>4, <2>1, <2>2, PlainCalls
<1>5. CASE /\ ~(a.ok /\ call.stage = "list" /\ s.selected # 0 /\ HasTarget(s, id, s.selected))
           /\ ~(a.ok /\ call.stage = "read" /\ a.value # None)
           /\ ~(a.ok /\ call.stage = "execute") /\ ~(a.ok /\ call.stage = "remove" /\ id # 0)
  <2>1. c.stores = s /\ c.then = NoCall
    BY <1>5 DEF Continued
  <2>2. NoCall \in Coroutine /\ NoCall.stage = "none"
    BY DEF NoCall, Coroutine
  <2>3. After(s, s, "none")
    BY SameAfter
  <2>. QED  BY <1>5, <2>1, <2>2, <2>3
<1>. QED  BY <1>1, <1>2, <1>3, <1>4, <1>5

\* What an answer leaves, part by part: what is published, cleared if the answer
\* closed the selection, and what comes next.
LEMMA ReturnParts ==
  ASSUME BlobsAssumption, BlobsInv, NEW i, CallReturns(i)
  PROVE  /\ Deliver("answer", i) /\ UNCHANGED serviceVars
         /\ wire[i].call \in BlobCall /\ wire[i].ok \in BOOLEAN /\ wire[i].closed \in BOOLEAN
         /\ calls[wire[i].call] \in Coroutine /\ calls[wire[i].call].stage # "none"
         /\ session' = IF wire[i].closed THEN [session EXCEPT !.id = 0] ELSE session
         /\ moved' = \/ moved
                     \/ /\ calls[wire[i].call].stage = "list" /\ wire[i].ok /\ ~wire[i].closed
                        /\ \E k \in BlobCall : Moves(calls[k], wire[i].value)
         /\ \E t, s, then :
              /\ Publishes(stores, t, calls[wire[i].call], wire[i])
              /\ calls[wire[i].call].stage = "lab" /\ wire[i].ok => t = EmptyStores
              /\ s = IF wire[i].closed THEN EmptyStores ELSE t
              /\ s \in Stores /\ After(s, stores', then.stage) /\ then \in Coroutine
              /\ WaitsNot(stores', calls[wire[i].call].stage)
              /\ then.stage = "read" => ~Moves(then, s.report)
              /\ calls[wire[i].call].stage = "execute" /\ wire[i].ok =>
                   stores'.phase # "ready" /\ stores'.read.phase # "ready"
              /\ calls' = [calls EXCEPT ![wire[i].call] = then]
<1>1. /\ stores \in Stores /\ calls \in [BlobCall -> Coroutine] /\ WireType
      /\ AnswerAwaited /\ AnswersTyped
  BY DEF BlobsInv, StoresType, CallsType
<1>2. PICK a : a = wire[i]
  OBVIOUS
<1>3. PICK call : call = calls[a.call]
  OBVIOUS
<1>4. Deliver("answer", i) /\ UNCHANGED serviceVars
  BY DEF CallReturns
<1>5. i \in DOMAIN wire /\ IsAnswer(i)
  BY <1>1, <1>4, Delivered DEF IsAnswer
<1>6. /\ a.call \in BlobCall /\ a.ok \in BOOLEAN /\ a.closed \in BOOLEAN
      /\ call \in Coroutine /\ call.stage # "none"
  BY <1>1, <1>2, <1>3, <1>5, MessageKinds DEF AnswerAwaited
<1>7. a.ok => AnswerType(call, a.value)
  BY <1>1, <1>2, <1>3, <1>5 DEF AnswersTyped
<1>8. PICK t : t = Returned(stores, call, a)
  OBVIOUS
<1>9. PICK s : s = IF a.closed THEN EmptyStores ELSE t
  OBVIOUS
<1>10. PICK id : id = (IF a.closed THEN [session EXCEPT !.id = 0] ELSE session).id
  OBVIOUS
<1>11. PICK c : c = Continued(call, a, s, id)
  OBVIOUS
<1>12. /\ session' = IF a.closed THEN [session EXCEPT !.id = 0] ELSE session
       /\ stores' = c.stores
       /\ calls' = [calls EXCEPT ![a.call] = c.then]
       /\ moved' = \/ moved
                   \/ /\ call.stage = "list" /\ a.ok /\ ~a.closed
                      /\ \E k \in BlobCall : Moves(calls[k], a.value)
  BY <1>2, <1>3, <1>8, <1>9, <1>10, <1>11 DEF CallReturns
<1>13. Publishes(stores, t, call, a)
  BY <1>1, <1>6, <1>7, <1>8, ReturnedPublishes
<1>14. s \in Stores /\ (~(call.stage = "execute" /\ a.ok) => WaitsNot(s, call.stage))
  <2>1. CASE a.closed
    <3>1. EmptyStores \in Stores /\ WaitsNot(EmptyStores, call.stage)
      BY EmptyAfter DEF After, WaitsNot, Loading, EmptyStores, Idle
    <3>. QED  BY <1>9, <2>1, <3>1
  <2>2. CASE ~a.closed
    BY <1>9, <1>13, <2>2 DEF Publishes
  <2>. QED  BY <2>1, <2>2
<1>15. /\ After(s, c.stores, c.then.stage) /\ c.then \in Coroutine
       /\ WaitsNot(c.stores, call.stage)
       /\ c.then.stage = "read" => ~Moves(c.then, s.report)
       /\ call.stage = "execute" /\ a.ok => c.stores.phase # "ready" /\ c.stores.read.phase # "ready"
  BY <1>6, <1>11, <1>14, ContinuedParts
<1>16. call.stage = "lab" /\ a.ok => t = EmptyStores
  BY <1>8 DEF Returned
<1>17. /\ Publishes(stores, t, call, a)
       /\ call.stage = "lab" /\ a.ok => t = EmptyStores
       /\ s = IF a.closed THEN EmptyStores ELSE t
       /\ s \in Stores /\ After(s, stores', c.then.stage) /\ c.then \in Coroutine
       /\ WaitsNot(stores', call.stage)
       /\ c.then.stage = "read" => ~Moves(c.then, s.report)
       /\ call.stage = "execute" /\ a.ok => stores'.phase # "ready" /\ stores'.read.phase # "ready"
       /\ calls' = [calls EXCEPT ![a.call] = c.then]
  BY <1>9, <1>12, <1>13, <1>14, <1>15, <1>16
<1>. QED  BY <1>2, <1>3, <1>4, <1>6, <1>12, <1>17, ZenonT(60)

\* An answer is handled.
LEMMA ReturnInv ==
  ASSUME BlobsAssumption, BlobsInv, NEW i, CallReturns(i)
  PROVE  BlobsInv'
<1>1. /\ CallsType /\ WireType /\ AnswerAwaited /\ ServiceType /\ WindowType /\ AnswersTyped
      /\ StoresType /\ RowsRight /\ Waiting(stores, calls) /\ NoneDeleted
  BY InvWaits DEF BlobsInv
<1>2. PICK a : a = wire[i]
  OBVIOUS
<1>3. PICK k : k = a.call
  OBVIOUS
<1>4. /\ Deliver("answer", i) /\ UNCHANGED serviceVars
      /\ k \in BlobCall /\ a.ok \in BOOLEAN /\ a.closed \in BOOLEAN
      /\ calls[k] \in Coroutine /\ calls[k].stage # "none"
      /\ session' = IF a.closed THEN [session EXCEPT !.id = 0] ELSE session
      /\ moved' = \/ moved
                  \/ /\ calls[k].stage = "list" /\ a.ok /\ ~a.closed
                     /\ \E j \in BlobCall : Moves(calls[j], a.value)
  BY <1>2, <1>3, ReturnParts
<1>5. PICK t, s, then :
        /\ Publishes(stores, t, calls[k], a)
        /\ s = IF a.closed THEN EmptyStores ELSE t
        /\ s \in Stores /\ After(s, stores', then.stage) /\ then \in Coroutine
        /\ WaitsNot(stores', calls[k].stage)
        /\ then.stage = "read" => ~Moves(then, s.report)
        /\ calls' = [calls EXCEPT ![k] = then]
  BY <1>2, <1>3, ReturnParts, ZenonT(60)
<1>6. /\ calls \in [BlobCall -> Coroutine] /\ calls' \in [BlobCall -> Coroutine] /\ calls'[k] = then
      /\ \A j \in BlobCall : j # k => calls'[j] = calls[j]
  BY <1>1, <1>4, <1>5 DEF CallsType
<1>7. StoresType' /\ CallsType'
  BY <1>5, <1>6 DEF After, StoresType, CallsType
<1>8. BlobsWait'
  <2>1. OnlyWaits(stores, s, "none")
    <3>1. CASE a.closed
      BY <1>5, <3>1, EmptyAfter DEF After
    <3>2. CASE ~a.closed
      BY <1>5, <3>2 DEF Publishes
    <3>. QED  BY <3>1, <3>2
  <2>2. OnlyWaits(s, stores', then.stage)
    BY <1>5 DEF After
  <2>3. OnlyWaits(stores, stores', then.stage)
    BY <2>1, <2>2 DEF OnlyWaits
  <2>4. Waiting(stores', [calls EXCEPT ![k] = then])
    BY <1>1, <1>4, <1>5, <1>6, <2>3, WaitsInstead
  <2>. QED  BY <1>5, <2>4, WaitingIsProperty
<1>9. ServiceType' /\ WindowType' /\ NoneDeleted'
  <2>1. session' \in [id : Nat, attached : BOOLEAN] /\ moved' \in BOOLEAN
    BY <1>1, <1>4 DEF WindowType
  <2>. QED  BY <1>1, <1>4, <2>1 DEF ServiceType, WindowType, NoneDeleted, serviceVars
<1>10. i \in DOMAIN wire /\ IsAnswer(i) /\ WireType'
  BY <1>1, <1>4, Delivered DEF IsAnswer
<1>11. PICK old \in [DOMAIN wire' -> DOMAIN wire \ {i}] :
         /\ \A j \in DOMAIN wire' : wire'[j] = wire[old[j]]
         /\ \A j, l \in DOMAIN wire' : old[j] = old[l] => j = l
  BY <1>1, <1>4, Delivered
<1>12. ASSUME NEW j \in DOMAIN wire', wire'[j].kind = "answer"
       PROVE  /\ wire'[j] = wire[old[j]] /\ old[j] \in DOMAIN wire /\ IsAnswer(old[j])
              /\ calls'[wire'[j].call] = calls[wire[old[j]].call]
  <2>1. wire'[j] = wire[old[j]] /\ old[j] \in DOMAIN wire /\ IsAnswer(old[j]) /\ old[j] # i
    BY <1>11, <1>12 DEF IsAnswer
  <2>2. wire[old[j]].call \in BlobCall /\ wire[old[j]].call # k
    BY <1>1, <1>2, <1>3, <1>10, <2>1, MessageKinds DEF AnswerAwaited
  <2>. QED  BY <1>6, <2>1, <2>2
<1>13. AnswerAwaited'
  <2>1. ASSUME NEW j \in DOMAIN wire', wire'[j].kind = "answer"
        PROVE  /\ calls'[wire'[j].call].stage # "none" /\ calls'[wire'[j].call].served
               /\ \A l \in DOMAIN wire' :
                    wire'[l].kind = "answer" /\ wire'[l].call = wire'[j].call => l = j
    <3>1. /\ wire'[j] = wire[old[j]] /\ old[j] \in DOMAIN wire /\ IsAnswer(old[j])
          /\ calls'[wire'[j].call] = calls[wire[old[j]].call]
      BY <1>12, <2>1
    <3>2. calls[wire[old[j]].call].stage # "none" /\ calls[wire[old[j]].call].served
      BY <1>1, <3>1 DEF AnswerAwaited
    <3>3. ASSUME NEW l \in DOMAIN wire', wire'[l].kind = "answer", wire'[l].call = wire'[j].call
          PROVE  l = j
      <4>1. wire'[l] = wire[old[l]] /\ old[l] \in DOMAIN wire /\ IsAnswer(old[l])
        BY <1>12, <3>3
      <4>2. old[l] = old[j]
        BY <1>1, <3>1, <3>3, <4>1 DEF AnswerAwaited
      <4>. QED  BY <1>11, <4>2
    <3>. QED  BY <3>1, <3>2, <3>3
  <2>. QED  BY <2>1 DEF AnswerAwaited, IsAnswer
<1>14. AnswersTyped'
  <2>1. ASSUME NEW j \in DOMAIN wire', wire'[j].kind = "answer", wire'[j].ok
        PROVE  AnswerType(calls'[wire'[j].call], wire'[j].value)
    <3>1. /\ wire'[j] = wire[old[j]] /\ old[j] \in DOMAIN wire /\ IsAnswer(old[j])
          /\ calls'[wire'[j].call] = calls[wire[old[j]].call]
      BY <1>12, <2>1
    <3>2. AnswerType(calls[wire[old[j]].call], wire[old[j]].value)
      BY <1>1, <2>1, <3>1 DEF AnswersTyped
    <3>. QED  BY <3>1, <3>2
  <2>. QED  BY <2>1 DEF AnswersTyped, IsAnswer, AnswerType
<1>15. RowsRight'
  <2>1. SUFFICES ASSUME stores'.phase = "ready", ~moved'
                 PROVE  /\ \A j \in BlobCall : ~Moves(calls'[j], stores'.report)
                        /\ stores'.read.phase = "ready" =>
                             /\ stores'.read.index \in DOMAIN stores'.report
                             /\ stores'.report[stores'.read.index] = stores'.read.credential
    BY DEF RowsRight, Moves
  <2>2. /\ s.phase = "ready" /\ stores'.report = s.report
        /\ stores'.read.phase = "ready" => stores'.read = s.read
    BY <1>5, <2>1 DEF After, KeepsShown
  <2>3. ~a.closed /\ s = t
    BY <1>4, <1>5, <2>2 DEF EmptyStores
  <2>4. ~moved /\ ~(calls[k].stage = "list" /\ a.ok /\ \E j \in BlobCall : Moves(calls[j], a.value))
    BY <1>1, <1>4, <2>1, <2>3 DEF WindowType
  <2>5. ListShown(stores, t, calls[k], a) /\ ReadShown(stores, t, calls[k], a)
    BY <1>5 DEF Publishes
  <2>6. \A j \in BlobCall : ~Moves(calls[j], t.report)
    <3>1. CASE stores.phase = "ready" /\ t.report = stores.report
      BY <1>1, <2>4, <3>1 DEF RowsRight
    <3>2. CASE calls[k].stage = "list" /\ a.ok /\ t.report = a.value
      BY <2>4, <3>2
    <3>. QED  BY <2>2, <2>3, <2>5, <3>1, <3>2 DEF ListShown
  <2>7. ASSUME NEW j \in BlobCall
        PROVE  ~Moves(calls'[j], stores'.report)
    <3>1. CASE j = k
      BY <1>5, <1>6, <2>2, <3>1 DEF Moves
    <3>2. CASE j # k
      BY <1>6, <2>2, <2>3, <2>6, <3>2
    <3>. QED  BY <3>1, <3>2
  <2>8. ASSUME stores'.read.phase = "ready"
        PROVE  t.read.index \in DOMAIN t.report /\ t.report[t.read.index] = t.read.credential
    <3>1. t.read.phase = "ready" /\ t.phase = "ready"
      BY <2>2, <2>3, <2>8
    <3>2. CASE calls[k].stage = "list"
      <4>1. t.read = Idle
        BY <2>5, <3>1, <3>2 DEF ListShown
      <4>. QED  BY <3>1, <4>1 DEF Idle
    <3>3. CASE calls[k].stage # "list" /\ t.read = stores.read
      <4>1. stores.phase = "ready" /\ t.report = stores.report
        BY <2>5, <3>1, <3>3 DEF ListShown
      <4>. QED  BY <1>1, <2>4, <3>1, <3>3, <4>1 DEF RowsRight
    <3>4. CASE /\ calls[k].stage = "read"
               /\ t.read = EntryBlob(calls[k].index, calls[k].credential, a.value)
      <4>1. t.read.index = calls[k].index /\ t.read.credential = calls[k].credential
        BY <3>4 DEF EntryBlob
      <4>2. ~Moves(calls[k], t.report)
        BY <1>4, <2>6
      <4>. QED  BY <3>4, <4>1, <4>2 DEF Moves
    <3>. QED  BY <2>5, <3>1, <3>2, <3>3, <3>4 DEF ReadShown
  <2>. QED  BY <2>2, <2>3, <2>7, <2>8
<1>. QED  BY <1>7, <1>8, <1>9, <1>10, <1>13, <1>14, <1>15 DEF BlobsInv

-----------------------------------------------------------------------------
(* What waits has a call.                                                   *)

\* The invariant holds at first.
LEMMA BlobsInitInv ==
  ASSUME BlobsAssumption, BlobsInit
  PROVE  BlobsInv
<1>1. /\ stores = EmptyStores /\ calls = [k \in BlobCall |-> NoCall] /\ wire = <<>>
      /\ session = [id |-> 0, attached |-> FALSE] /\ service = [id |-> 0, token |-> None]
      /\ made = 0 /\ moved = FALSE /\ arrays \in [Token -> Arrays]
      /\ deleted = [t \in Token |-> {}]
  BY DEF BlobsInit
<1>2. StoresType
  BY <1>1, EmptyAfter DEF StoresType, After
<1>3. NoCall \in Coroutine /\ NoCall.stage = "none"
  BY DEF NoCall, Coroutine
<1>4. CallsType
  BY <1>1, <1>3 DEF CallsType
<1>5. WireType /\ AnswerAwaited /\ AnswersTyped
  <2>1. wire \in Seq(Message) /\ DOMAIN wire = {}
    BY <1>1
  <2>. QED  BY <2>1 DEF WireType, AnswerAwaited, AnswersTyped
<1>6. ServiceType
  <2>1. Arrays \subseteq Seq(Entry)
    BY DEF BlobsAssumption, Entry, Target
  <2>2. arrays \in [Token -> Seq(Entry)]
    BY <1>1, <2>1
  <2>3. deleted \in [Token -> SUBSET Credential]
    BY <1>1
  <2>. QED  BY <1>1, <2>2, <2>3 DEF ServiceType
<1>7. WindowType /\ NoneDeleted
  BY <1>1 DEF WindowType, NoneDeleted, Clear
<1>8. RowsRight
  BY <1>1 DEF RowsRight, EmptyStores
<1>9. BlobsWait
  BY <1>1 DEF BlobsWait, EmptyStores, Idle, Loading
<1>. QED  BY <1>2, <1>4, <1>5, <1>6, <1>7, <1>8, <1>9 DEF BlobsInv

\* And after each step.
LEMMA BlobsNextInv ==
  ASSUME BlobsAssumption, BlobsInv, BlobsNext
  PROVE  BlobsInv'
<1>1. CASE PublishSelection
  BY <1>1, PublishInv
<1>2. CASE \E i : HandleDiscoveryChanged(i)
  BY <1>2, HandleInv
<1>3. CASE \E i : CallReturns(i)
  BY <1>3, ReturnInv
<1>4. CASE \E k \in BlobCall : Serve(k)
  BY <1>4, ServeInv
<1>5. CASE UserNext
  BY <1>5, UserStep, WindowInv
<1>. QED  BY <1>1, <1>2, <1>3, <1>4, <1>5 DEF BlobsNext, UserNext

\* And if nothing happens.
LEMMA BlobsStutter ==
  ASSUME BlobsInv, UNCHANGED blobVars
  PROVE  BlobsInv'
<1>1. /\ stores' = stores /\ calls' = calls /\ session' = session /\ wire' = wire /\ moved' = moved
      /\ service' = service /\ made' = made /\ arrays' = arrays /\ deleted' = deleted
  BY DEF blobVars, serviceVars, history
<1>2. StoresType' /\ CallsType' /\ WireType' /\ ServiceType' /\ WindowType'
  BY <1>1 DEF BlobsInv, StoresType, CallsType, WireType, ServiceType, WindowType
<1>3. AnswerAwaited' /\ AnswersTyped'
  BY <1>1 DEF BlobsInv, AnswerAwaited, AnswersTyped, AnswerType, IsAnswer
<1>4. RowsRight' /\ BlobsWait' /\ NoneDeleted'
  BY <1>1, WaitingIsProperty DEF BlobsInv, RowsRight, Moves, NoneDeleted
<1>. QED  BY <1>2, <1>3, <1>4 DEF BlobsInv

\* The invariant of every behaviour.
LEMMA BlobsInvariant == BlobsSpec => []BlobsInv
<1> USE BlobsAssumption
<1>1. BlobsInit => BlobsInv
  BY BlobsInitInv
<1>2. BlobsInv /\ [BlobsNext]_blobVars => BlobsInv'
  BY BlobsNextInv, BlobsStutter
<1>. QED  BY <1>1, <1>2, PTL DEF BlobsSpec

\* Nothing on the screens of the large blobs and of the passkeys shows as loading,
\* previewing or executing without a call that will end it, in whatever order the
\* answers come and whatever was selected, cleared or begun meanwhile.
THEOREM BlobsAreAwaited == BlobsSpec => []BlobsWait
<1>1. BlobsInv => BlobsWait
  BY DEF BlobsInv
<1>. QED  BY <1>1, BlobsInvariant, PTL

-----------------------------------------------------------------------------
(* A message at a time.                                                     *)

\* What is sent is alone on the wire.
LEMMA SentAlone ==
  ASSUME WireType, NEW m \in Message, Send(m), Len(wire') <= 1
  PROVE  DOMAIN wire = {} /\ DOMAIN wire' = {1} /\ wire'[1] = m
<1>1. /\ WireType' /\ DOMAIN wire' = DOMAIN wire \cup {Len(wire) + 1}
      /\ wire'[Len(wire) + 1] = m /\ Len(wire) \in Nat
  BY Sent
<1>2. Len(wire') = Len(wire) + 1
  BY DEF WireType, Send
<1>3. Len(wire) = 0
  BY <1>1, <1>2
<1>4. DOMAIN wire = {}
  BY <1>3 DEF WireType
<1>. QED  BY <1>1, <1>3, <1>4

\* What is taken was alone on the wire.
LEMMA TakenAlone ==
  ASSUME WireType, Len(wire) <= 1, NEW kind, NEW i, Deliver(kind, i)
  PROVE  i = 1 /\ DOMAIN wire = {1} /\ wire[i].kind = kind /\ DOMAIN wire' = {}
<1>1. i \in DOMAIN wire /\ wire[i].kind = kind /\ DOMAIN wire' = 1..Len(wire) - 1
  BY Delivered
<1>2. Len(wire) \in Nat /\ DOMAIN wire = 1..Len(wire)
  BY DEF WireType
<1>3. Len(wire) = 1 /\ i = 1
  BY <1>1, <1>2
<1>. QED  BY <1>1, <1>2, <1>3

\* A step of the user keeps what is right.
LEMMA WindowTurn ==
  ASSUME BlobsInv, TurnInv, WindowStep
  PROVE  TurnInv'
<1>1. /\ Does(stores) /\ session' = session /\ service' = service /\ arrays' = arrays
      /\ deleted' = deleted /\ wire' = wire
  BY DEF WindowStep, serviceVars
<1>2. CallsType /\ WireType /\ AnswerAwaited
  BY DEF BlobsInv
<1>3. KeepsShown(stores, stores')
  BY <1>1 DEF Does
<1>4. Stored' = Stored /\ Gone' = Gone
  BY <1>1 DEF Stored, Gone
<1>5. /\ ListRight => ListRight'
      /\ ReadRight => ReadRight'
      /\ PasskeyRight => PasskeyRight'
  BY <1>1, <1>3, <1>4 DEF KeepsShown, ListRight, ReadRight, PasskeyRight
<1>6. ASSUME NEW i \in DOMAIN wire, IsAnswer(i)
      PROVE  calls'[wire[i].call] = calls[wire[i].call]
  BY <1>1, <1>2, <1>6, AnswersKept
<1>7. ASSUME NEW i \in DOMAIN wire
      PROVE  /\ Ends(i)' <=> Ends(i)
             /\ Writes(i)' <=> Writes(i)
             /\ Writes(i) => (CleansUp(i)' <=> CleansUp(i))
             /\ IsAnswer(i)' <=> IsAnswer(i)
  BY <1>1, <1>6 DEF Ends, Writes, CleansUp, IsAnswer
<1>8. (\A i \in DOMAIN wire' : ~Ends(i)') => session'.id = service'.id
  BY <1>1, <1>7 DEF TurnInv
<1>9. (\A i \in DOMAIN wire' : ~Ends(i)' /\ ~Writes(i)') => ListRight' /\ ReadRight'
  BY <1>1, <1>5, <1>7 DEF TurnInv
<1>10. (\A i \in DOMAIN wire' : ~Ends(i)' /\ (Writes(i)' => CleansUp(i)')) => PasskeyRight'
  BY <1>1, <1>5, <1>7 DEF TurnInv
<1>11. ASSUME NEW i \in DOMAIN wire'
       PROVE  /\ IsAnswer(i)' /\ wire'[i].ok => AnswerRight(calls[wire[i].call], wire[i].value)'
              /\ wire'[i].kind = "snapshot" => wire'[i].id = service'.id /\ wire'[i].id # session'.id
              /\ IsAnswer(i)' /\ wire'[i].closed => service'.id = 0
  <2>1. i \in DOMAIN wire /\ wire'[i] = wire[i]
    BY <1>1
  <2>2. ASSUME IsAnswer(i)', wire'[i].ok
        PROVE  AnswerRight(calls[wire[i].call], wire[i].value)'
    <3>1. IsAnswer(i) /\ wire[i].ok
      BY <1>7, <2>1, <2>2
    <3>2. AnswerRight(calls[wire[i].call], wire[i].value)
      BY <2>1, <3>1 DEF TurnInv
    <3>3. calls'[wire'[i].call] = calls[wire[i].call]
      BY <1>6, <2>1, <3>1
    <3>. QED  BY <1>1, <1>4, <2>1, <3>2, <3>3 DEF AnswerRight
  <2>. QED  BY <1>1, <1>7, <2>1, <2>2 DEF TurnInv
<1>. QED  BY <1>8, <1>9, <1>10, <1>11 DEF TurnInv

\* A selection is published when nothing else is on its way.
LEMMA PublishTurn ==
  ASSUME BlobsInv, TurnInv, PublishSelection, Len(wire') <= 1
  PROVE  TurnInv'
<1>1. WireType /\ ServiceType /\ WindowType
  BY DEF BlobsInv
<1>2. session' = session
  BY DEF PublishSelection
<1>3. made \in Nat /\ service.id \in 0..made
  BY <1>1 DEF ServiceType
<1>4. \E m \in Message : /\ Send(m) /\ m.kind = "snapshot" /\ m.id = service'.id
                         /\ m.id # service.id
  <2>1. ASSUME NEW m, NEW id \in Nat, NEW att \in BOOLEAN,
               m = [kind |-> "snapshot", id |-> id, attached |-> att]
        PROVE  m \in Message /\ m.kind = "snapshot" /\ m.id = id
    BY <2>1 DEF Message
  <2>2. CASE /\ service'.id = made + 1
             /\ Send([kind |-> "snapshot", id |-> made + 1, attached |-> TRUE])
    <3>1. made + 1 \in Nat /\ made + 1 # service.id
      BY <1>3
    <3>. QED  BY <2>1, <2>2, <3>1
  <2>3. CASE /\ service.id # 0 /\ service'.id = 0
             /\ \E att \in BOOLEAN : Send([kind |-> "snapshot", id |-> 0, attached |-> att])
    <3>1. 0 \in Nat
      OBVIOUS
    <3>. QED  BY <2>1, <2>3, <3>1
  <2>4. \/ /\ \E t \in Token : service' = [id |-> made + 1, token |-> t]
           /\ Send([kind |-> "snapshot", id |-> made + 1, attached |-> TRUE])
        \/ /\ service.id # 0 /\ service' = [id |-> 0, token |-> None]
           /\ \E att \in BOOLEAN : Send([kind |-> "snapshot", id |-> 0, attached |-> att])
    BY DEF PublishSelection
  <2>5. /\ \A t : service' = [id |-> made + 1, token |-> t] => service'.id = made + 1
        /\ service' = [id |-> 0, token |-> None] => service'.id = 0
    OBVIOUS
  <2>. QED  BY <2>2, <2>3, <2>4, <2>5
<1>5. PICK m \in Message : /\ Send(m) /\ m.kind = "snapshot" /\ m.id = service'.id
                           /\ m.id # service.id
  BY <1>4
<1>6. DOMAIN wire = {} /\ DOMAIN wire' = {1} /\ wire'[1] = m
  BY <1>1, <1>5, SentAlone
<1>7. session.id = service.id
  BY <1>6 DEF TurnInv
<1>8. Ends(1)' /\ ~IsAnswer(1)'
  BY <1>5, <1>6 DEF Ends, IsAnswer
<1>9. 1 \in DOMAIN wire' /\ \A i \in DOMAIN wire' : i = 1
  BY <1>6
<1>. QED  BY <1>2, <1>5, <1>6, <1>7, <1>8, <1>9 DEF TurnInv

\* What the service answers is right of the array it answers from, before and after.
LEMMA ServedRight ==
  ASSUME BlobsAssumption, NEW call \in Coroutine, NEW array \in Seq(Entry), NEW value,
         value = Answer(call, array)
  PROVE  /\ call.stage = "list" => value = Targets(array)
         /\ call.stage \in {"read", "check"} => Holds(array, call.credential, value)
         /\ call.stage = "preview" /\ call.request.kind = "delete" /\ value =>
              Holds(array, call.request.credential, None)
<1>1. CASE call.stage = "list"
  BY <1>1 DEF Answer
<1>2. CASE call.stage \in {"read", "check"}
  <2>1. value = BlobOf(array, call.credential)
    BY <1>2 DEF Answer
  <2>. QED  BY <1>2, <2>1, BlobHeld
<1>3. CASE call.stage = "preview"
  <2>1. value = (Written(array, call.request) = array)
    BY <1>3 DEF Answer
  <2>2. call.request \in RequestType
    BY <1>3 DEF Coroutine, NoCall
  <2>3. CASE call.request.kind = "delete" /\ value
    <3>1. Written(array, call.request) = array
      BY <2>1, <2>3
    <3>. QED  BY <1>3, <2>2, <2>3, <3>1, WrittenHolds
  <2>. QED  BY <1>3, <2>3
<1>4. CASE call.stage \notin {"list", "read", "check", "preview"}
  BY <1>4
<1>. QED  BY <1>1, <1>2, <1>3, <1>4

\* A call is served when nothing else is on its way.
LEMMA ServeTurn ==
  ASSUME BlobsAssumption, BlobsInv, TurnInv, NEW k \in BlobCall, Serve(k), OneAtATime'
  PROVE  TurnInv'
<1>1. /\ CallsType /\ WireType /\ ServiceType /\ StoresType /\ NoneDeleted
  BY DEF BlobsInv
<1>2. /\ calls[k].stage # "none" /\ calls[k] \in Coroutine
      /\ calls' = [calls EXCEPT ![k] = [calls[k] EXCEPT !.served = TRUE]]
      /\ session' = session /\ stores' = stores
  BY ServeParts
<1>3. PICK m \in Message :
        /\ Send(m) /\ m.kind = "answer" /\ m.call = k /\ m.ok \in BOOLEAN /\ m.closed \in BOOLEAN
        /\ calls[k].stage = "decode" => ~m.closed
        /\ calls[k].stage # "decode" /\ service.id = 0 => ~m.ok /\ m.closed
        /\ service' = IF m.closed THEN [id |-> 0, token |-> None] ELSE service
        /\ m.ok => m.value = Answer(calls[k], Stored)
        /\ arrays' = IF m.ok /\ calls[k].stage \in {"execute", "lab"}
                     THEN [arrays EXCEPT ![service.token] = Written(Stored, calls[k].request)]
                     ELSE IF m.ok /\ calls[k].stage = "remove"
                     THEN [arrays EXCEPT ![service.token] = Orphaned(Stored, calls[k].credential)]
                     ELSE arrays
        /\ deleted' = IF m.ok /\ calls[k].stage = "remove"
                      THEN [deleted EXCEPT ![service.token] = Gone \cup {calls[k].credential}]
                      ELSE deleted
        /\ m.ok => PasskeyOf(calls[k]) \notin Gone
  BY ServeParts
<1>4. PICK d : d = [calls[k] EXCEPT !.served = TRUE]
  OBVIOUS
<1>5. /\ d \in Coroutine /\ d.stage = calls[k].stage
      /\ d.stage \in {"read", "check"} => d.credential = calls[k].credential
      /\ d.stage \in {"preview", "execute", "lab"} =>
           d.request = calls[k].request /\ d.request \in RequestType
      /\ d.stage = "remove" => calls[k].credential \in Credential
  BY <1>2, <1>4, ServedCall
<1>6. calls'[k] = d
  BY <1>1, <1>2, <1>4 DEF CallsType
<1>7. DOMAIN wire = {} /\ DOMAIN wire' = {1} /\ wire'[1] = m
  BY <1>1, <1>3, SentAlone DEF OneAtATime
<1>8. session.id = service.id /\ ListRight /\ ReadRight /\ PasskeyRight
  BY <1>7 DEF TurnInv
<1>9. ~(m.ok /\ m.closed)
  BY <1>3, <1>7 DEF OneAtATime, IsAnswer
<1>10. /\ IsAnswer(1)' /\ wire'[1].call = k /\ wire'[1].kind # "snapshot"
       /\ Ends(1)' <=> m.closed
       /\ Writes(1)' <=> m.ok /\ d.stage \in {"execute", "lab"}
       /\ CleansUp(1)' <=> d.stage = "execute" /\ d.request.kind = "cleanup"
  BY <1>3, <1>6, <1>7 DEF IsAnswer, Ends, Writes, CleansUp
<1>11. 1 \in DOMAIN wire' /\ \A i \in DOMAIN wire' : i = 1
  BY <1>7
<1>12. CASE m.closed
  <2>1. service'.id = 0
    BY <1>3, <1>12
  <2>. QED  BY <1>7, <1>9, <1>10, <1>11, <1>12, <2>1 DEF TurnInv
<1>13. CASE ~m.closed
  <2>1. service' = service
    BY <1>3, <1>13
  <2>2. PICK A, B, G, H : /\ A = Stored /\ B = Stored' /\ A \in Seq(Entry)
                          /\ G = Gone /\ H = Gone'
    BY <1>1, StoredType
  <2>3. stores.passkey.phase = "ready" =>
          stores.passkey.credential \in Credential /\ stores.passkey.content \in Blob
    <3>1. stores.passkey \in PasskeyState
      BY <1>1, StoresParts DEF StoresType
    <3>2. Idle.phase = "idle"
      BY DEF Idle
    <3>. QED  BY <3>1, <3>2 DEF PasskeyState
  <2>4. stores.read.phase = "ready" => stores.read.credential \in Credential
    <3>1. stores.read \in ReadState
      BY <1>1, StoresParts DEF StoresType
    <3>2. Idle.phase = "idle"
      BY DEF Idle
    <3>. QED  BY <3>1, <3>2 DEF ReadState
  <2>5. session'.id = service'.id
    BY <1>2, <1>8, <2>1
  <2>6. wire'[1].ok = m.ok /\ wire'[1].closed = m.closed
    BY <1>7
  <2>7. CASE m.ok /\ d.stage \in {"execute", "lab"}
    <3>1. service.id # 0 /\ service.token \in Token /\ d.request \in RequestType
      BY <1>1, <1>3, <1>5, <2>7 DEF ServiceType
    <3>2. arrays' = [arrays EXCEPT ![service.token] = Written(A, d.request)] /\ deleted' = deleted
      BY <1>3, <1>5, <2>2, <2>7
    <3>3. B = Written(A, d.request)
      BY <1>1, <2>1, <2>2, <3>1, <3>2 DEF Stored, ServiceType
    <3>4. H = G
      BY <2>1, <2>2, <3>2 DEF Gone
    <3>5. /\ d.request.kind # "cleanup" => Holds(B, d.request.credential, d.request.content)
          /\ d.request.kind = "cleanup" => \A c \in Credential, content \in Blob :
               Holds(A, c, content) => Holds(B, c, content)
      BY <2>2, <3>1, <3>3, WrittenHolds
    <3>6. AnswerRight(calls[wire[1].call], wire[1].value)'
      BY <1>6, <1>10, <2>1, <2>2, <2>7, <3>1, <3>5 DEF AnswerRight, Kept
    <3>7. d.stage = "execute" /\ d.request.kind = "cleanup" => PasskeyRight'
      <4>1. SUFFICES ASSUME d.request.kind = "cleanup", stores.passkey.phase = "ready"
                     PROVE  Kept(B, H, stores.passkey.credential, stores.passkey.content)
        BY <1>2, <2>1, <2>2, <3>1 DEF PasskeyRight
      <4>2. Kept(A, G, stores.passkey.credential, stores.passkey.content)
        BY <1>8, <2>2, <4>1 DEF PasskeyRight
      <4>. QED  BY <2>3, <3>4, <3>5, <4>1, <4>2 DEF Kept
    <3>. QED  BY <1>10, <1>11, <1>13, <2>5, <2>6, <2>7, <3>6, <3>7 DEF TurnInv
  <2>8. CASE m.ok /\ d.stage = "remove"
    <3>1. service.id # 0 /\ service.token \in Token /\ calls[k].credential \in Credential
      BY <1>1, <1>3, <1>5, <2>8 DEF ServiceType
    <3>2. PICK c \in Credential : c = calls[k].credential
      BY <3>1
    <3>3. /\ arrays' = [arrays EXCEPT ![service.token] = Orphaned(A, c)]
          /\ deleted' = [deleted EXCEPT ![service.token] = G \cup {c}]
      BY <1>3, <1>5, <2>2, <2>8, <3>2
    <3>4. B = Orphaned(A, c) /\ H = G \cup {c}
      BY <1>1, <2>1, <2>2, <3>1, <3>3 DEF Stored, Gone, ServiceType
    <3>5. /\ \A e \in Credential : \A content : Kept(A, G, e, content) => Kept(B, H, e, content)
          /\ \A report : Alive(report, G) = Targets(A) => Alive(report, H) = Targets(B)
      <4>1. A \in Seq(Entry)
        BY <2>2
      <4>2. /\ \A e \in Credential : \A content :
                 Kept(A, G, e, content) => Kept(Orphaned(A, c), G \cup {c}, e, content)
            /\ \A report : Alive(report, G) = Targets(A) =>
                 Alive(report, G \cup {c}) = Targets(Orphaned(A, c))
        BY <4>1, OrphanedHolds
      <4>. QED  BY <3>4, <4>2
    <3>6. ListRight'
      BY <1>2, <1>8, <2>1, <2>2, <3>1, <3>5 DEF ListRight
    <3>7. ReadRight'
      BY <1>2, <1>8, <2>2, <2>4, <3>5 DEF ReadRight
    <3>8. PasskeyRight'
      BY <1>2, <1>8, <2>1, <2>2, <2>3, <3>1, <3>5 DEF PasskeyRight
    <3>9. AnswerRight(calls[wire[1].call], wire[1].value)'
      BY <1>6, <1>10, <2>1, <2>8, <3>1 DEF AnswerRight
    <3>. QED  BY <1>10, <1>11, <1>13, <2>5, <2>6, <2>8, <3>6, <3>7, <3>8, <3>9 DEF TurnInv
  <2>9. CASE ~(m.ok /\ d.stage \in {"execute", "lab", "remove"})
    <3>1. arrays' = arrays /\ deleted' = deleted
      BY <1>3, <1>5, <2>9
    <3>2. B = A /\ H = G
      BY <2>1, <2>2, <3>1 DEF Stored, Gone
    <3>3. ListRight' /\ ReadRight' /\ PasskeyRight'
      BY <1>2, <1>8, <2>1, <2>2, <3>2 DEF ListRight, ReadRight, PasskeyRight
    <3>4. m.ok => AnswerRight(calls[wire[1].call], wire[1].value)'
      <4>1. SUFFICES ASSUME m.ok
                     PROVE  AnswerRight(calls[wire[1].call], wire[1].value)'
        OBVIOUS
      <4>2. m.value = Answer(calls[k], A)
        BY <1>3, <2>2, <4>1
      <4>3. /\ d.stage = "list" => m.value = Targets(A)
            /\ d.stage \in {"read", "check"} => Holds(A, d.credential, m.value)
            /\ d.stage = "preview" /\ d.request.kind = "delete" /\ m.value =>
                 Holds(A, d.request.credential, None)
        BY <1>2, <1>5, <2>2, <4>2, ServedRight
      <4>4. d.stage # "decode" => service.id # 0
        BY <1>3, <1>5, <4>1
      <4>5. d.stage # "execute"
        BY <2>9, <4>1
      <4>6. d.stage = "list" => Alive(m.value, G) = Targets(A)
        <5>1. SUFFICES ASSUME d.stage = "list"
                       PROVE  Alive(Targets(A), G) = Targets(A)
          BY <4>3
        <5>2. Clear(A, G)
          BY <1>1, <2>2, <4>4, <5>1 DEF NoneDeleted, Stored, Gone, ServiceType
        <5>. QED  BY <5>2, TargetsAlive
      <4>. QED  BY <1>6, <1>7, <1>10, <2>1, <2>2, <3>2, <4>3, <4>4, <4>5, <4>6 DEF AnswerRight, Kept
    <3>. QED  BY <1>10, <1>11, <1>13, <2>5, <2>6, <2>9, <3>3, <3>4 DEF TurnInv
  <2>. QED  BY <2>7, <2>8, <2>9
<1>. QED  BY <1>12, <1>13

\* A snapshot arrives alone: it is of another selection, and nothing is shown.
LEMMA HandleTurn ==
  ASSUME BlobsInv, TurnInv, OneAtATime, NEW i, HandleDiscoveryChanged(i)
  PROVE  TurnInv'
<1>1. WireType
  BY DEF BlobsInv
<1>2. /\ Deliver("snapshot", i) /\ UNCHANGED serviceVars
      /\ session' = [id |-> wire[i].id, attached |-> wire[i].attached]
      /\ Does(IF session' = session THEN stores ELSE EmptyStores)
  BY HandleParts
<1>3. i = 1 /\ DOMAIN wire = {1} /\ wire[i].kind = "snapshot" /\ DOMAIN wire' = {}
  BY <1>1, <1>2, TakenAlone DEF OneAtATime
<1>4. wire[i].id = service.id /\ wire[i].id # session.id
  BY <1>3 DEF TurnInv
<1>5. session'.id = service'.id /\ session' # session
  BY <1>2, <1>4 DEF serviceVars
<1>6. KeepsShown(EmptyStores, stores')
  BY <1>2, <1>5 DEF Does
<1>7. stores'.phase # "ready" /\ stores'.read.phase # "ready" /\ stores'.passkey.phase # "ready"
  BY <1>6 DEF KeepsShown, EmptyStores, Idle
<1>8. ListRight' /\ ReadRight' /\ PasskeyRight'
  BY <1>7 DEF ListRight, ReadRight, PasskeyRight
<1>. QED  BY <1>3, <1>5, <1>8 DEF TurnInv

\* An answer arrives alone, and what it leaves is right.
LEMMA ReturnTurn ==
  ASSUME BlobsAssumption, BlobsInv, TurnInv, OneAtATime, NEW i, CallReturns(i)
  PROVE  TurnInv'
<1>1. WireType /\ stores \in Stores
  BY DEF BlobsInv, StoresType
<1>2. PICK a : a = wire[i]
  OBVIOUS
<1>3. PICK call : call = calls[a.call]
  OBVIOUS
<1>4. /\ Deliver("answer", i) /\ service' = service /\ arrays' = arrays /\ deleted' = deleted
      /\ a.ok \in BOOLEAN /\ a.closed \in BOOLEAN /\ call.stage # "none"
      /\ session' = IF a.closed THEN [session EXCEPT !.id = 0] ELSE session
  BY <1>2, <1>3, ReturnParts DEF serviceVars
<1>5. PICK t, s, then :
        /\ Publishes(stores, t, call, a)
        /\ call.stage = "lab" /\ a.ok => t = EmptyStores
        /\ s = IF a.closed THEN EmptyStores ELSE t
        /\ After(s, stores', then.stage)
        /\ call.stage = "execute" /\ a.ok => stores'.phase # "ready" /\ stores'.read.phase # "ready"
  BY <1>2, <1>3, ReturnParts
<1>6. i = 1 /\ DOMAIN wire = {1} /\ a.kind = "answer" /\ DOMAIN wire' = {}
  BY <1>1, <1>2, <1>4, TakenAlone DEF OneAtATime
<1>7. KeepsShown(s, stores')
  BY <1>5 DEF After
<1>8. CASE a.closed
  <2>1. service.id = 0 /\ session'.id = 0
    <3>1. session \in [id : Nat, attached : BOOLEAN]
      BY DEF BlobsInv, WindowType
    <3>. QED  BY <1>2, <1>4, <1>6, <1>8, <3>1 DEF TurnInv, IsAnswer
  <2>2. stores'.phase # "ready" /\ stores'.read.phase # "ready" /\ stores'.passkey.phase # "ready"
    BY <1>5, <1>7, <1>8 DEF KeepsShown, EmptyStores, Idle
  <2>3. ListRight' /\ ReadRight' /\ PasskeyRight'
    BY <2>2 DEF ListRight, ReadRight, PasskeyRight
  <2>. QED  BY <1>4, <1>6, <2>1, <2>3 DEF TurnInv
<1>9. CASE ~a.closed
  <2>1. session' = session /\ s = t
    BY <1>4, <1>5, <1>9
  <2>2. PICK A, G : A = Stored /\ G = Gone
    OBVIOUS
  <2>3. Stored' = A /\ Gone' = G
    BY <1>4, <2>2 DEF Stored, Gone
  <2>4. /\ Ends(1) <=> FALSE
        /\ Writes(1) <=> a.ok /\ call.stage \in {"execute", "lab"}
        /\ CleansUp(1) <=> call.stage = "execute" /\ call.request.kind = "cleanup"
        /\ IsAnswer(1) /\ wire[1] = a
    BY <1>2, <1>3, <1>6, <1>9 DEF Ends, Writes, CleansUp, IsAnswer
  <2>5. /\ session.id = service.id
        /\ ~(a.ok /\ call.stage \in {"execute", "lab"}) => ListRight /\ ReadRight
        /\ (a.ok /\ call.stage \in {"execute", "lab"} =>
              call.stage = "execute" /\ call.request.kind = "cleanup") => PasskeyRight
    BY <1>6, <2>4 DEF TurnInv
  <2>6. a.ok => AnswerRight(call, a.value)
    BY <1>3, <1>6, <2>4 DEF TurnInv
  <2>7. /\ a.ok /\ call.stage # "decode" => service.id # 0
        /\ a.ok /\ call.stage = "list" => Alive(a.value, G) = Targets(A)
        /\ a.ok /\ call.stage \in {"read", "check"} => Kept(A, G, call.credential, a.value)
        /\ a.ok /\ call.stage = "preview" /\ call.request.kind = "delete" /\ a.value =>
             Kept(A, G, call.request.credential, None)
        /\ a.ok /\ call.stage = "execute" /\ call.request.kind # "cleanup" =>
             Kept(A, G, call.request.credential, call.request.content)
    BY <2>2, <2>6 DEF AnswerRight
  <2>8. ListShown(stores, t, call, a) /\ ReadShown(stores, t, call, a) /\ PasskeyShown(stores, t, call, a)
    BY <1>5 DEF Publishes
  <2>9. call.stage = "lab" /\ a.ok =>
          stores'.phase # "ready" /\ stores'.read.phase # "ready" /\ stores'.passkey.phase # "ready"
    BY <1>5, <1>7, <2>1 DEF KeepsShown, EmptyStores, Idle
  <2>10. ASSUME stores'.phase = "ready"
         PROVE  service.id # 0 /\ Alive(stores'.report, G) = Targets(A)
    <3>1. t.phase = "ready" /\ stores'.report = t.report
      BY <1>7, <2>1, <2>10 DEF KeepsShown
    <3>2. ListRight
      BY <1>5, <2>5, <2>9, <2>10
    <3>3. CASE stores.phase = "ready" /\ t.report = stores.report
      BY <2>2, <3>1, <3>2, <3>3 DEF ListRight
    <3>4. CASE call.stage = "list" /\ a.ok /\ t.report = a.value
      BY <2>7, <3>1, <3>4
    <3>. QED  BY <2>8, <3>1, <3>3, <3>4 DEF ListShown
  <2>11. ASSUME stores'.read.phase = "ready"
         PROVE  Kept(A, G, stores'.read.credential, stores'.read.content)
    <3>1. t.read.phase = "ready" /\ stores'.read = t.read
      BY <1>7, <2>1, <2>11 DEF KeepsShown
    <3>2. ReadRight
      BY <1>5, <2>5, <2>9, <2>11
    <3>3. CASE t.read = stores.read
      BY <2>2, <3>1, <3>2, <3>3 DEF ReadRight
    <3>4. CASE /\ call.stage = "read" /\ a.ok
               /\ t.read = EntryBlob(call.index, call.credential, a.value)
      <4>1. t.read.credential = call.credential /\ t.read.content = a.value
        BY <3>4 DEF EntryBlob
      <4>. QED  BY <2>7, <3>1, <3>4, <4>1
    <3>. QED  BY <2>8, <3>1, <3>3, <3>4 DEF ReadShown
  <2>12. ASSUME stores'.passkey.phase = "ready"
         PROVE  service.id # 0 /\ Kept(A, G, stores'.passkey.credential, stores'.passkey.content)
    <3>1. t.passkey.phase = "ready" /\ stores'.passkey = t.passkey
      BY <1>7, <2>1, <2>12 DEF KeepsShown
    <3>2. ~(call.stage = "lab" /\ a.ok)
      BY <2>9, <2>12
    <3>3. CASE t.passkey = stores.passkey /\ (call.stage = "execute" /\ a.ok => call.request.kind = "cleanup")
      <4>1. PasskeyRight
        BY <2>5, <3>2, <3>3
      <4>. QED  BY <2>2, <3>1, <3>3, <4>1 DEF PasskeyRight
    <3>4. ASSUME NEW c, NEW content, t.passkey = PasskeyBlob(c, content), service.id # 0,
                 Kept(A, G, c, content)
          PROVE  service.id # 0 /\ Kept(A, G, stores'.passkey.credential, stores'.passkey.content)
      <4>1. t.passkey.credential = c /\ t.passkey.content = content
        BY <3>4 DEF PasskeyBlob
      <4>. QED  BY <3>1, <3>4, <4>1
    <3>5. CASE call.stage = "check" /\ a.ok /\ t.passkey = PasskeyBlob(call.credential, a.value)
      BY <2>7, <3>4, <3>5
    <3>6. CASE /\ call.stage = "preview" /\ a.ok /\ call.request.kind = "delete" /\ a.value
               /\ t.passkey = PasskeyBlob(call.request.credential, None)
      BY <2>7, <3>4, <3>6
    <3>7. CASE /\ call.stage = "execute" /\ a.ok /\ call.request.kind # "cleanup"
               /\ t.passkey = PasskeyBlob(call.request.credential, call.request.content)
      BY <2>7, <3>4, <3>7
    <3>. QED  BY <2>8, <3>1, <3>3, <3>5, <3>6, <3>7 DEF PasskeyShown
  <2>13. ListRight' /\ ReadRight' /\ PasskeyRight'
    BY <1>4, <2>3, <2>10, <2>11, <2>12 DEF ListRight, ReadRight, PasskeyRight
  <2>14. session'.id = service'.id
    BY <1>4, <2>1, <2>5
  <2>. QED  BY <1>6, <2>13, <2>14 DEF TurnInv
<1>. QED  BY <1>4, <1>8, <1>9

\* What is right is so at first, and with nothing under way it is what is asserted.
LEMMA TurnAtFirst ==
  ASSUME BlobsInit
  PROVE  OneAtATime /\ TurnInv
<1>1. /\ stores = EmptyStores /\ wire = <<>> /\ session.id = 0 /\ service.id = 0
  BY DEF BlobsInit
<1>2. DOMAIN wire = {} /\ Len(wire) = 0
  BY <1>1
<1>3. ListRight /\ ReadRight /\ PasskeyRight
  BY <1>1 DEF ListRight, ReadRight, PasskeyRight, EmptyStores, Idle
<1>. QED  BY <1>1, <1>2, <1>3 DEF OneAtATime, TurnInv

\* A step of the second shape.
LEMMA TurnStep ==
  ASSUME BlobsAssumption, BlobsInv, TurnInv, OneAtATime, BlobsNext, OneAtATime'
  PROVE  TurnInv'
<1>1. CASE PublishSelection
  BY <1>1, PublishTurn DEF OneAtATime
<1>2. CASE \E i : HandleDiscoveryChanged(i)
  BY <1>2, HandleTurn
<1>3. CASE \E i : CallReturns(i)
  BY <1>3, ReturnTurn
<1>4. CASE \E k \in BlobCall : Serve(k)
  BY <1>4, ServeTurn
<1>5. CASE UserNext
  BY <1>5, UserStep, WindowTurn
<1>. QED  BY <1>1, <1>2, <1>3, <1>4, <1>5 DEF BlobsNext, UserNext

\* The screens are settled when nothing is under way.
LEMMA TurnSettles ==
  ASSUME BlobsAssumption, BlobsInv, TurnInv
  PROVE  BlobsSettled
<1>1. Alive(stores.report, Gone) = Living(stores.report)
  BY DEF Alive, Living
<1>2. SUFFICES ASSUME wire = <<>>
               PROVE  /\ stores.phase = "ready" =>
                           /\ service.id # 0 /\ Living(stores.report) = Targets(Stored)
                           /\ Shown # None /\ stores.read.credential \notin Gone =>
                                /\ Holds(Stored, stores.read.credential, Shown)
                                /\ \/ moved
                                   \/ /\ stores.read.index \in DOMAIN Stored
                                      /\ Stored[stores.read.index].target = stores.read.credential
                      /\ stores.passkey.phase = "ready" =>
                           /\ service.id # 0
                           /\ \/ stores.passkey.credential \in Gone
                              \/ Holds(Stored, stores.passkey.credential, stores.passkey.content)
  BY DEF BlobsSettled, Stored
<1>3. DOMAIN wire = {}
  BY <1>2
<1>4. ListRight /\ ReadRight /\ PasskeyRight
  BY <1>3 DEF TurnInv
<1>5. ASSUME stores.phase = "ready", Shown # None, stores.read.credential \notin Gone
      PROVE  /\ Holds(Stored, stores.read.credential, Shown)
             /\ \/ moved
                \/ /\ stores.read.index \in DOMAIN Stored
                   /\ Stored[stores.read.index].target = stores.read.credential
  <2>1. stores.read.phase = "ready" /\ Shown = stores.read.content
    BY <1>5 DEF Shown
  <2>2. PICK A, G, report : A = Stored /\ G = Gone /\ report = stores.report
    OBVIOUS
  <2>3. Alive(report, G) = Targets(A)
    BY <1>4, <1>5, <2>2 DEF ListRight
  <2>4. \/ moved
        \/ /\ stores.read.index \in DOMAIN report
           /\ report[stores.read.index] = stores.read.credential
    BY <1>5, <2>1, <2>2 DEF BlobsInv, RowsRight
  <2>5. \A j \in DOMAIN report : report[j] \notin G => Alive(report, G)[j] = report[j]
    BY DEF Alive
  <2>6. DOMAIN Alive(report, G) = DOMAIN report /\ DOMAIN Targets(A) = DOMAIN A
    BY DEF Alive, Targets
  <2>7. \A j \in DOMAIN A : Targets(A)[j] = A[j].target
    BY DEF Targets
  <2>8. Holds(Stored, stores.read.credential, Shown)
    BY <1>4, <1>5, <2>1 DEF ReadRight, Kept
  <2>. QED  BY <1>5, <2>2, <2>3, <2>4, <2>5, <2>6, <2>7, <2>8
<1>. QED  BY <1>1, <1>4, <1>5 DEF ListRight, PasskeyRight, Kept

\* The invariant of the second shape.
LEMMA ShapedInvariant == ShapedSpec => [](BlobsInv /\ AgainInv)
<1> USE BlobsAssumption
<1>1. ShapedInit => BlobsInv /\ AgainInv
  BY BlobsInitInv, TurnAtFirst DEF ShapedInit, AgainInv
<1>2. ASSUME BlobsInv, AgainInv, [ShapedNext]_<<blobVars, shape>>
      PROVE  (BlobsInv /\ AgainInv)'
  <2>1. CASE ShapedNext
    <3>1. BlobsNext /\ shape' = shape /\ Within'
      BY <2>1 DEF ShapedNext
    <3>2. BlobsInv'
      BY <1>2, <3>1, BlobsNextInv
    <3>3. shape = "again" => OneAtATime'
      BY <3>1 DEF Within, OneAtATime, IsAnswer
    <3>4. shape = "again" => TurnInv'
      BY <1>2, <3>1, <3>3, TurnStep DEF AgainInv
    <3>. QED  BY <3>1, <3>2, <3>3, <3>4 DEF AgainInv
  <2>2. CASE UNCHANGED <<blobVars, shape>>
    <3>1. BlobsInv'
      BY <1>2, <2>2, BlobsStutter
    <3>2. /\ stores' = stores /\ calls' = calls /\ session' = session /\ wire' = wire
          /\ service' = service /\ arrays' = arrays /\ deleted' = deleted /\ shape' = shape
      BY <2>2 DEF blobVars, serviceVars
    <3>3. Stored' = Stored /\ Gone' = Gone
      BY <3>2 DEF Stored, Gone
    <3>4. (OneAtATime <=> OneAtATime') /\ (TurnInv <=> TurnInv')
      BY <3>2, <3>3 DEF OneAtATime, TurnInv, IsAnswer, Ends, Writes, CleansUp, AnswerRight,
                        ListRight, ReadRight, PasskeyRight
    <3>. QED  BY <1>2, <3>1, <3>2, <3>4 DEF AgainInv
  <2>. QED  BY <1>2, <2>1, <2>2
<1>. QED  BY <1>1, <1>2, PTL DEF ShapedSpec

\* With a message at a time, and an authenticator that is lost failing the call, the
\* screens of the large blobs and of the passkeys show what the authenticator holds
\* whenever nothing is under way, whichever of them, or the Lab, wrote last, but for
\* the passkeys that were deleted; what was read is that of its row unless a list
\* moved the row while it was being read.
THEOREM BlobsEndRight == ShapedSpec => []SettledInOrder
<1> USE BlobsAssumption
<1>1. BlobsInv /\ AgainInv => SettledInOrder
  BY TurnSettles DEF AgainInv, SettledInOrder
<1>. QED  BY <1>1, ShapedInvariant, PTL

=============================================================================
