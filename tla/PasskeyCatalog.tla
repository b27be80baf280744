--------------------------- MODULE PasskeyCatalog ---------------------------
(***************************************************************************)
(* The data set of the passkey directory (passkeydirectory/service.go):    *)
(* parseCatalog indexes its entries by every domain they claim, and a      *)
(* lookup finds the closest claimed domain at or above a relying party,    *)
(* within its registrable domain.  The entries are a Go map: they are      *)
(* indexed in any order, one at a time, each order a behaviour.            *)
(*                                                                         *)
(* A domain is the sequence of its labels.  Names as they are written      *)
(* (case, spaces, a final dot) are model values with their normal form.    *)
(***************************************************************************)
EXTENDS Naturals, Sequences, FiniteSets, SequencesExt

CONSTANTS
  Label,        \* labels of domains
  Domain,       \* domains, closed under removing the first label of two or more
  Written,      \* names as they are written
  Normal,       \* normalizeDomain, normalizedRPID: Written -> Domain \cup {<<>>}
  Registrable,  \* publicsuffix.EffectiveTLDPlusOne; <<>> is an error or an IP address
  Entry,        \* entries: key, additional domains, whether their modes are valid
  MaxEntries,   \* bound: entries of a payload
  Unclaimed

ASSUME CatalogAssumption ==
  /\ \A d \in Domain : d \in Seq(Label) /\ d # <<>> /\ (Len(d) > 1 => Tail(d) \in Domain)
  /\ Normal \in [Written -> Domain \cup {<<>>}]
  /\ Registrable \in [Domain -> Domain \cup {<<>>}]
  /\ \A d \in Domain : Registrable[d] # <<>> => IsSuffix(Registrable[d], d)
  /\ Entry \subseteq [key : Written, additional : SUBSET Written, valid : BOOLEAN]
  /\ Unclaimed \notin Entry
  /\ MaxEntries \in Nat

VARIABLES
  payload,  \* the entries, with distinct keys
  left,     \* those still to be indexed
  index,    \* catalog: the entry of each domain, or Unclaimed
  outcome   \* "parsing", "ok" or "error"

catalogVars == <<payload, left, index, outcome>>

Payloads ==
  {p \in SUBSET Entry : Cardinality(p) <= MaxEntries /\ \A d, e \in p : d.key = e.key => d = e}

\* An empty data set is an error.
CatalogInit ==
  /\ payload \in Payloads /\ left = payload
  /\ index = [d \in Domain |-> Unclaimed]
  /\ outcome = IF payload = {} THEN "error" ELSE "parsing"

Canonical(e) == Normal[e.key]
Claims(e) == {Canonical(e)} \cup {Normal[w] : w \in e.additional}

\* An empty name, an unknown mode, or a domain of an entry of another name.
Refused(e) ==
  \/ <<>> \in Claims(e) \/ ~e.valid
  \/ \E d \in Claims(e) : index[d] # Unclaimed /\ Canonical(index[d]) # Canonical(e)

IndexEntry(e) ==
  /\ outcome = "parsing" /\ e \in left
  /\ left' = left \ {e}
  /\ IF Refused(e) THEN outcome' = "error" /\ UNCHANGED index
     ELSE /\ index' = [d \in Domain |-> IF d \in Claims(e) THEN e ELSE index[d]]
          /\ outcome' = IF left' = {} THEN "ok" ELSE "parsing"
  /\ UNCHANGED payload

CatalogNext == \E e \in Entry : IndexEntry(e)

CatalogSpec == CatalogInit /\ [][CatalogNext]_catalogVars

-----------------------------------------------------------------------------
(* lookupCatalogEntry, lookupResult and the map the window makes of them.   *)

\* The loop over the parents of d, from d up to its registrable domain.
LookupParents(d) ==
  LET parents == {s \in Domain : IsSuffix(s, d) /\ IsSuffix(Registrable[d], s)}
      Above[p \in parents] ==
        IF p = Registrable[d] THEN Unclaimed
        ELSE IF index[Tail(p)] # Unclaimed THEN index[Tail(p)] ELSE Above[Tail(p)]
  IN Above[d]

\* Mutant of LookupCatalogEntry: only the registrable domain is looked up.
LooksAtRegistrable(d) ==
  IF index[d] # Unclaimed THEN index[d]
  ELSE IF Registrable[d] \in {<<>>, d} THEN Unclaimed ELSE index[Registrable[d]]

LookupCatalogEntry(d) ==
  IF index[d] # Unclaimed THEN index[d]
  ELSE IF Registrable[d] \in {<<>>, d} THEN Unclaimed ELSE LookupParents(d)

\* The matches for a list of relying parties: one for each normal form, with the
\* name by which it was asked for first.
LookupResult(rpIDs) ==
  LET found(w) == LookupCatalogEntry(Normal[w])
      Matches[n \in DOMAIN rpIDs] ==
        LET before == IF n = 1 THEN <<>> ELSE Matches[n - 1]
            w == rpIDs[n]
        IN IF \/ Normal[w] = <<>> \/ \E m \in ToSet(before) : Normal[m.rpID] = Normal[w]
              \/ found(w) = Unclaimed
           THEN before ELSE Append(before, [rpID |-> w, entry |-> found(w)])
  IN IF rpIDs = <<>> THEN <<>> ELSE Matches[Len(rpIDs)]

\* completePasskeyDirectoryLookup: what the window finds for a group of the
\* inventory, by the normal form of its relying party.
MatchOf(rpIDs, w) ==
  {m.entry : m \in {n \in ToSet(LookupResult(rpIDs)) : Normal[n.rpID] = Normal[w]}}

-----------------------------------------------------------------------------
(* Properties.                                                              *)

\* What the data set says of a domain, without an index or an order.
Claimants(d) == {e \in payload : d \in Claims(e)}
Within(d) == {d} \cup (IF Registrable[d] = <<>> THEN {}
                       ELSE {s \in Domain : IsSuffix(s, d) /\ IsSuffix(Registrable[d], s)})
Closest(d) ==
  LET claimed == {s \in Within(d) : Claimants(s) # {}}
  IN IF claimed = {} THEN {}
     ELSE Claimants(CHOOSE s \in claimed : \A t \in claimed : Len(t) <= Len(s))

\* A data set is refused exactly if it has no entry, an entry that is not valid,
\* or two names that claim one domain.
Unusable ==
  \/ payload = {} \/ \E e \in payload : <<>> \in Claims(e) \/ ~e.valid
  \/ \E d, e \in payload : Canonical(d) # Canonical(e) /\ Claims(d) \cap Claims(e) # {}

\* Whatever the order of the entries, the same data sets are refused, and in one
\* that is not every group of the inventory gets the closest entry that claims
\* its relying party, also if groups differ by case only (parseCatalog,
\* lookupCatalogEntry; service_test.go:79,
\* TestLookupFallsBackToDeclaredParentsWithinRegistrableDomain).  Of two entries
\* whose keys have one normal form either may be that entry: the map's order.
CatalogAnswers ==
  /\ outcome = "error" => Unusable
  /\ outcome = "ok" =>
       /\ ~Unusable
       /\ \A v, w \in Written :
            LET found == MatchOf(<<v, w>>, w)
            IN IF Normal[w] = <<>> \/ Closest(Normal[w]) = {} THEN found = {}
               ELSE Cardinality(found) = 1 /\ found \subseteq Closest(Normal[w])

=============================================================================
