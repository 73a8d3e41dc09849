-------------------------------- MODULE Sugestoes --------------------------------
(***************************************************************************)
(* Suggestions: pkg/services/sugestoes_service.go over the statements of    *)
(* pkg/repository/sugestoes_repository.go, with the cache of the newest     *)
(* ones (sugestoes:all, 30 seconds), which every write evicts by name.      *)
(*                                                                         *)
(* Reads, evictions and failures are the steps of CacheAside.               *)
(***************************************************************************)
EXTENDS Naturals, FiniteSets

CONSTANTS MaxRows,     \* bound on the suggestions ever created
          MaxPage,     \* LIMIT of the list; 200 in the code
          Texts,
          All,         \* the key sugestoes:all
          Procs, None

VARIABLES sugestoes,   \* table sugestoes
          created,     \* AUTO_INCREMENT of its id
          cache, req

vars == <<sugestoes, created, cache, req>>

Row == [id : 1 .. MaxRows, text : Texts]

-----------------------------------------------------------------------------
(* The page that is cached, and the writes that change it *)

\* What Listar returns now: ORDER BY id DESC LIMIT 200.
Newest == {r \in sugestoes : Cardinality({q \in sugestoes : q.id > r.id}) < MaxPage}

Keys == {All}
Pages == [k \in Keys |-> Newest]
PageValues == SUBSET Row
Writes == 1 .. MaxRows
Touched == [id \in Writes |-> Keys]
Named == [id \in Writes |-> Keys]
Matched == [id \in Writes |-> {}]

Aside == INSTANCE CacheAside WITH
    db <- Pages, Values <- PageValues, Touches <- Touched, Dels <- Named, Scans <- Matched,
    Outside <- {}

Init == sugestoes = {} /\ created = 0 /\ Aside!Init

-----------------------------------------------------------------------------
(* Writes.  The INSERT of Criar is followed by two reads, and an error of      *)
(* either ends the handler without an eviction (Aside!Miss).                   *)

Criar(p, text) ==
    /\ created < MaxRows /\ created' = created + 1
    /\ sugestoes' = sugestoes \cup {[id |-> created', text |-> text]}
    /\ Aside!OwesEvictions(p, created')

\* Mutated form: the list is left as it is.
DeletarOnly(p, id) ==
    /\ sugestoes' = {r \in sugestoes : r.id # id}
    /\ UNCHANGED <<created, cache, req>>

\* An id that is not there is no error, and evicts as well.
Deletar(p, id) ==
    /\ sugestoes' = {r \in sugestoes : r.id # id}
    /\ Aside!OwesEvictions(p, id)
    /\ UNCHANGED created

\* Mutated form: a row that is not there is inserted.
AtualizarOrCriar(p, id, text) ==
    /\ sugestoes' = {r \in sugestoes : r.id # id} \cup {[id |-> id, text |-> text]}
    /\ Aside!OwesEvictions(p, id)
    /\ UNCHANGED created

Atualizar(p, id, text) ==
    /\ sugestoes' = {IF r.id = id THEN [r EXCEPT !.text = text] ELSE r : r \in sugestoes}
    /\ Aside!OwesEvictions(p, id)
    /\ UNCHANGED created

-----------------------------------------------------------------------------
(* Listar, evictions and the TTL *)

\* Listar skips a row that it cannot read, and does not look at rows.Err.
SelectSome(p) ==
    /\ req[p].pc = "select"
    /\ \E v \in SUBSET Newest : v # Newest /\ Aside!SelectPart(p, v)

CacheStep ==
    /\ UNCHANGED <<sugestoes, created>>
    /\ \/ \E p \in Procs : Aside!Read(p) \/ SelectSome(p) \/ Aside!Evict(p)
       \/ \E k \in Keys : Aside!Expire(k)

Next ==
    \/ \E p \in Procs :
          \/ \E x \in Texts : Criar(p, x)
          \/ \E id \in 1 .. MaxRows : Deletar(p, id) \/ \E x \in Texts : Atualizar(p, id, x)
    \/ CacheStep

Spec == Init /\ [][Next]_vars

-----------------------------------------------------------------------------
(* Properties *)

\* The table holds rows that were created, and the cache and the requests what
\* CacheAside says of them.
TypeOK ==
    /\ created \in 0 .. MaxRows
    /\ sugestoes \subseteq Row /\ \A r \in sugestoes : r.id <= created
    /\ Aside!TypeOK

\* The list is stale only while a request is about to evict it, or if its eviction was
\* lost, or its read was overtaken or did not get all rows (Criar, Deletar, Atualizar): a
\* deletion brings back an older row that the list did not show, and a row that it did
\* not show may go without changing it.
SuggestionsHaveCause == \A k \in Keys : Aside!HasCause(k)
=============================================================================
