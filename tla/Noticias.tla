-------------------------------- MODULE Noticias --------------------------------
(***************************************************************************)
(* News: pkg/services/noticias_service.go over the statements of            *)
(* pkg/repository/noticias_repository.go, with the cache of the lists       *)
(* (noticias:list:{category}:{limit}:{offset}, 30 seconds), of the          *)
(* highlights (noticias:destaques, 30 seconds) and of each item             *)
(* (noticias:item:{id}, one minute).  Every write evicts noticias:*.        *)
(*                                                                         *)
(* Of the lists there is one, for all categories, that holds every row; the *)
(* fields of a row are its highlight and its text.  Reads, evictions and    *)
(* failures are the steps of CacheAside.                                    *)
(***************************************************************************)
EXTENDS Naturals

CONSTANTS MaxNews,     \* bound on the news ever created
          Texts,
          List,        \* the key of the list; that of an item is its id
          Highlights,  \* the key noticias:destaques
          Procs, None

VARIABLES news,     \* table noticias
          created,  \* AUTO_INCREMENT of its id
          cache, req

vars == <<news, created, cache, req>>

Row == [id : 1 .. MaxNews, destaque : BOOLEAN, text : Texts]

-----------------------------------------------------------------------------
(* The pages that are cached, and the writes that change them *)

Items == 1 .. MaxNews
Keys == Items \cup {List, Highlights}

Pages == [k \in Keys |-> CASE k = List -> news
                           [] k = Highlights -> {r \in news : r.destaque}
                           [] OTHER -> {r \in news : r.id = k}]

PageValues == SUBSET Row

\* A write is named for the item it is about.
Touched == [id \in Items |-> {List, Highlights, id}]
Named == [id \in Items |-> {}]

\* Mutated form: the pattern is that of the lists and of the items.
MatchedButHighlights == [id \in Items |-> Keys \ {Highlights}]

Matched == [id \in Items |-> Keys]

Aside == INSTANCE CacheAside WITH
    db <- Pages, Values <- PageValues, Writes <- Items,
    Touches <- Touched, Dels <- Named, Scans <- Matched, Outside <- {}

Init == news = {} /\ created = 0 /\ Aside!Init

-----------------------------------------------------------------------------
(* Writes.  The evictions come after the last statement, and not at all if it  *)
(* fails: Aside!Miss is also that of an error after the row has changed, such  *)
(* as that of the SELECT which ends Atualizar.                                 *)

Criar(p, destaque, text) ==
    /\ created < MaxNews /\ created' = created + 1
    /\ news' = news \cup {[id |-> created', destaque |-> destaque, text |-> text]}
    /\ Aside!OwesEvictions(p, created')

\* r becomes q, which may say the same: the statement sets updated_at as well.  An id
\* that is not there is answered 404 and evicts nothing.
Atualizar(p, r, q) ==
    /\ r.id = q.id
    /\ news' = (news \ {r}) \cup {q}
    /\ Aside!OwesEvictions(p, r.id)
    /\ UNCHANGED created

Deletar(p, r) ==
    /\ news' = news \ {r}
    /\ Aside!OwesEvictions(p, r.id)
    /\ UNCHANGED created

-----------------------------------------------------------------------------
(* Listar, Destaques, BuscarPorID; evictions; TTLs *)

\* The SELECT of an item that is not there is an error, and stores nothing.
Found(p) == req[p].pc = "select" /\ req[p].key \in Items => Pages[req[p].key] # {}

\* scanNoticias skips a row that it cannot read, and nobody looks at rows.Err: a list
\* without some of its rows is stored.
SelectSome(p) ==
    /\ req[p].pc = "select" /\ req[p].key \notin Items
    /\ \E v \in SUBSET Pages[req[p].key] : v # Pages[req[p].key] /\ Aside!SelectPart(p, v)

CacheStep ==
    /\ UNCHANGED <<news, created>>
    /\ \/ \E p \in Procs : \/ Found(p) /\ Aside!Select(p)
                           \/ SelectSome(p)
                           \/ (\E k \in Keys : Aside!Get(p, k)) \/ Aside!Set(p) \/ Aside!GiveUp(p)
                           \/ Aside!Evict(p)
       \/ \E k \in Keys : Aside!Expire(k)

Next ==
    \/ \E p \in Procs :
          \/ \E d \in BOOLEAN, x \in Texts : Criar(p, d, x)
          \/ \E r \in news : Deletar(p, r) \/ \E q \in Row : Atualizar(p, r, q)
    \/ CacheStep

Spec == Init /\ [][Next]_vars

-----------------------------------------------------------------------------
(* Properties *)

\* The table holds rows that were created, and the cache and the requests what
\* CacheAside says of them.
TypeOK ==
    /\ created \in 0 .. MaxNews
    /\ news \subseteq Row /\ \A r \in news : r.id <= created
    /\ Aside!TypeOK

\* A list, the highlights or an item is stale only while a request is about to evict
\* it, or if an eviction was lost, or a read was overtaken or did not get all rows
\* (Criar, Atualizar, Deletar; scanNoticias).
NewsHaveCause == \A k \in Keys : Aside!HasCause(k)
=============================================================================
