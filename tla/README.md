# Verification of the portal

TLA+ models of the backend in this repository (`cmd/server` and `pkg/`), the TLC
configurations that check them on small instances, and TLAPS proofs of the
results that hold for every value of the constants.

Paths below are relative to the root of the repository.

## 1. The system

One Go process (`cmd/server/main.go`) serves HTTP with Fiber and a WebSocket hub.
Each HTTP request is a goroutine that goes *handler → service → repository*;
every repository method is one SQL statement (two of them open a transaction or
run several statements), and several services keep a Redis cache beside the
tables. Nothing else coordinates two requests: there is no lock around a service
and, with the exception of the creation of a bus trip, no transaction. What can go
wrong is therefore what happens **between two statements of a request**, between a
statement and the cache operation that follows it, and after a statement that
fails and whose error is ignored.

A note on the SQL dialect. The statements of the auth, social, bus, galeria and
notification repositories are written for PostgreSQL (`RETURNING`, `ON CONFLICT`,
`generate_series`), as the documents say; `pkg/database/postgres.go` opens the
`mysql` driver and the noticias and sugestoes repositories use its dialect. The
schema is not in the repository. Each statement is modelled by what its text says
in the dialect it is written in, as one atomic step that may also fail.

### Inventory

| Component | State | Operations | What is hard about it | What makes it correct |
|---|---|---|---|---|
| **Sessions** `pkg/services/auth_service.go`, `pkg/repository/auth_repository.go`, `cleanExpiredSessions` in `main.go` | tables `sessions`, `password_reset_tokens`, the password of an account | Login, GoogleCallback, Refresh, Session, Logout, LogoutAll, ForgotPassword, ResetPassword, the half-hourly cleaner | handlers of 2–4 statements without a transaction; ignored errors; refresh against logout; reset against login; restart | a closed session stays closed, tokens are not shared, sessions per account are bounded, a reset revokes what was open, expired rows go |
| **Accounts** same files | tables `users`, `email_verification_tokens` | Register, VerifyEmail, GetOrCreateGoogleUser, UpdateProfile | three-statement upsert of a Google user; a user without a token; verification expiry | one account per Google identity; a registered user can be verified |
| **Posts** `pkg/services/social_service.go`, `pkg/repository/social_repository.go`, `pkg/repository/notification_repository.go` | tables `posts`, `post_likes`, `notifications` | CreatePost, CreateReply, Like, Unlike, Delete, processMentions | counters kept beside the rows they count and updated by a later statement whose error is ignored; `GREATEST(likes - 1, 0)`; cascade of deletions | counters account for rows; every reply is reachable; whoever must be notified is |
| **Cache-aside** `pkg/cache/cache.go` and every service | Redis keys with a TTL | Get, Set, Del, DelPattern | a value read before a change and stored after its eviction; a page of which a part could not be read; SCAN is not atomic; a statement that took effect and failed; eviction of the wrong key, or, by another service, of none | a stale entry has a cause, and it ends |
| **Bus** `pkg/services/bus_service.go`, `pkg/repository/bus_repository.go` | tables `bus_trips`, `bus_seats`, `bus_profiles`; keys `bus:trips:all`, `bus:{trip}:seats` | CreateTrip, UpdateTrip, DeleteTrip, ListTrips, GetSeats, Reserve, Cancel, MyReservations, contacts | two users and one seat; reservation against completion or deletion of the trip; the cached seat map | a seat has one holder; only its holder or the deletion of the trip frees it; a trip has all its seats |
| **Notifications** `pkg/handlers/notification.go` | `is_read` | GetNotifications, MarkAsRead | the page is read and *all* rows are marked in a goroutine | no unseen notification is marked as read |
| **User cache** `auth_service.go:482-523` | in-process maps by id and by UUID, behind a mutex | Me, GetUserByUUID, deleteUserCache | the cached value comes from several sources | a cached profile is what the row was |
| **Hub** `pkg/hub/hub.go` | `clients`, `byUser`, `connMap` | HandleClientConn, Reply, ReplyError, Broadcast, cleanupConnMap | three maps under two mutexes, a slice used after its lock was released, client-chosen request ids | a reply goes to the socket that asked; counts agree |
| **Noticias**, **Sugestoes** | tables and their cached lists | list, get, create, update, delete | create or update that fails after its write skips the eviction | as cache-aside |
| **Galeria** | table `galeria`, images at Cloudinary | Upload, List, Delete | two stores without a transaction | a row has its image, an image has its row |
| **Auth handlers and middleware** `pkg/handlers/auth.go`, `pkg/middleware/auth.go` | the cookies `refresh_token` and `oauth_state` | Login, GoogleLogin, GoogleCallback, Refresh, Session, Logout, LogoutAll | one cookie for all tabs; a cookie is rotated by an answer that may be lost or overtaken | the cookie opens a session; who logged out has none; an attempt spoils no later one |
| other handlers, e-mail, database, server, envelope, models, generated protobuf | none of their own, or external | – | – | – |


The inventory above is the whole repository. `PROJECT.json` gives the status of each
part under "components" and, under "hazards", the places in the code where something
can go wrong that a test would hardly reach, each with the properties that watch it.

## 2. The modules

| Module | What it is |
|---|---|
| `SessionRegistry` | what a table of sessions promises: sessions open once, are reached by one token at a time, and once closed stay closed |
| `Sessions` | the handlers of `auth_service.go` that touch sessions and reset tokens, statement by statement; refines `SessionRegistry` |
| `Accounts` | Register, VerifyEmail and the three statements of a Google login, statement by statement |
| `Posts` | the handlers of `social_service.go` over posts, likes and notifications, statement by statement |
| `CacheAside` | the cache protocol of `pkg/cache/cache.go` and of every service that uses it, for any keys and writes |
| `SocialCache` | the keys of the social service as an instance of `CacheAside` |
| `Bus` | trips and seats, with the two cached pages; refines `CacheAside` |
| `Hub` | connections, the read-write lock, counts and broadcasts of `pkg/hub/hub.go` |
| `HubReplies` | requests over WebSocket, `connMap`, replies and their fallback |
| `Browser` | the cookie `refresh_token`, between the tabs of a browser and `pkg/handlers/auth.go` |
| `OAuthState` | the cookie `oauth_state` of a login with Google |
| `Noticias`, `Sugestoes` | a table and its cached pages each, as instances of `CacheAside` |
| `Galeria` | the table `galeria` and the images at Cloudinary |
| `Notifications` | pages of notifications and their marking |
| `UserCache` | the in-process cache of accounts in `auth_service.go` |
| `Services` | the last eight, one at a time, on one set of variables |
| `MC*` | instances and symmetry for TLC |
| `*Proofs` | theorems, and their proofs, about the module of that name |

### Conventions

- A request is a process `p \in Procs`. `req[p]` is the local state of its goroutine:
  `pc` names the statement that runs **next**. `Idle` is a goroutine that is not
  there; the first action of a handler moves it away from `Idle` and the last returns
  it. Reads whose result is only answered to the client have no state.
- One SQL statement, or one Redis command, is one atomic action. Two statements of a
  handler are two actions, and anything may run between them.
- A statement that may fail has a `Fault` branch, which does what the code does on an
  error: return, or ignore it and go on. A failure *after* the statement took effect
  is, for the tables, success followed by a request that was given up, which `Restart`
  covers. `MaxFaults` bounds both.
- `Restart` loses every request in flight and keeps the tables.
- Variables marked *history* are not in the program; they record what a property needs
  of the past and guard nothing.
- Operators preceded by "Mutated form" belong to no specification. Each is the form
  that a definition would take under a plausible mistake; a property that such a form
  does not break would say nothing about the code. `PROJECT.json` pairs them.

### Sessions

| State | Code |
|---|---|
| `sessions` | table `sessions`; the serial id of a row is the number of the token it was inserted with |
| `resets` | table `password_reset_tokens`, one per account (`ON CONFLICT (user_id)`) |
| `cleaner` | which of its two deletes `cleanExpiredSessions` runs next |
| `issued` | how many random tokens were drawn |
| `changedAt` | of the password of each account, when it was last set: how many tokens there were |
| `faults` | history: failures so far |

| Actions | Code |
|---|---|
| `Login`, `GoogleCallback`, then `LimitSessions`, `InsertSession` | `createSessionAndRespond`: `EnforceSessionLimit` with its error ignored, then `CreateSession` |
| `Refresh`, `Session`, then `RotateToken` or `DropExpired` | the row is read by token, and updated or deleted later by its id |
| `Logout`, `LogoutAll`, `ForgotPassword` | one statement each |
| `ResetPassword`, then `DropReset`, or `ChangePassword`, `ConsumeReset`, `RevokeSessions` | four statements, of which the last two ignore errors |
| `CleanSessions`, `CleanResets` | the half-hourly ticker of `main.go` |
| `SessionExpires`, `ResetExpires` | time passes |

Time is a flag on the row, because the code only compares an expiry with now. The
comparison of `ResetPassword` is modelled by what `ConstantTimeCompare` returns for
the two strings that the line builds, not by the intention its comment states.

### Accounts

| State | Code |
|---|---|
| `users` | table `users`: the serial id, name, address, Google identity, `is_verified` |
| `tokens` | table `email_verification_tokens`, one per account, named by it |
| `faults`, `refused` | history: failures so far; accounts whose token was used in time and turned away |

| Actions | Code |
|---|---|
| `Register`, `CreateEmailVerificationToken` | the two inserts; a failure of the second leaves the account |
| `VerifyEmail`, then `DropToken`, or `SetVerified`, `ConsumeToken` | the token is read; then one or two statements |
| `GoogleCallback`, `Find`, `Link`, `Create`, `CreateSessionAndRespond` | `GetOrCreateGoogleUser`: each statement is tried after any error of the one before |
| `TokenExpires` | time passes |

What Google says of a login is a member of `Profiles`: an identity may come back with
another address, and an address may pass to another identity. A name that got a random
suffix is `Renamed`, and nobody asks for it.

### Posts

| State | Code |
|---|---|
| `posts` | table `posts`: author, parent, `likes`, `reply_count`, and of the text only who it mentions |
| `likers` | table `post_likes` |
| `told` | table `notifications` |
| `made` | the serial of `posts` |
| `faults`, `clamped` | history: failures so far; posts whose count `GREATEST` kept from −1 |

| Actions | Code |
|---|---|
| `Like`, `CountLike`, `ReadAuthor`, `TellAuthor` | `toggleLike`: the row (`ON CONFLICT DO NOTHING`), `IncLikeCount`, the author of the post, the notification |
| `Unlike`, `UncountLike` | the row, then `GREATEST(likes - 1, 0)` |
| `GetLikeCount` | a like that is there already, or an unlike of none |
| `CreatePost`, `TellMentioned` | the insert, then `processMentions` |
| `CreateReply`, `CountReply`, `ReadAuthor`, `TellAuthor`, `TellMentioned` | the insert, `IncrementReplyCount`, the notifications |
| `DeletePost` | the row, and by cascade its replies, likes and notifications |

### CacheAside, SocialCache and the pages of Bus

`CacheAside` has `db[k]`, what the SELECTs of key `k` would return now, `cache[k]`, and
the requests. A read goes `Get` (a miss), `Select`, `Set`; a page made of several
SELECTs may come out as a mixture (`SelectMore`). `SelectPart` is the page without what
the code could not read and does not miss: it ignores the errors of all SELECTs of a page
but one (`social_service.go:62`, 98, 136, 147, 155), and `rows.Err` of every list. A write goes `Write`, perhaps
`WriteMore`, and then its evictions: `Del` by name, in any order, and `Scan` with
`Exec` for `DelPattern`, which walks the keys one by one and deletes what it found in
a pipeline. `Miss` loses one eviction: the command failed, or the handler returned
early (as `toggleLike` does when its counter statement fails, line 321), or the server
stopped. `WriteElsewhere` is a statement of another service, which changes what some keys
show (`Outside`) and evicts none. `Expire` is the TTL. Each entry carries, as history,
whether one of these has made it stale.

`SocialCache` names the keys as the code formats them: what `Feed`, `Thread` and
`Profile` store ends in the viewer's id, and `Del` is given keys without it, which no
read fills; `DelPattern` matches them all. The tables behind its pages have one more
writer, the login with Google, which fills in names and avatars and may rename an account
(`auth_repository.go:195`, 213): `TouchedByGoogleLogin` is its `Outside`. For `Bus`,
`Noticias` and `Sugestoes`, whose tables nobody else writes to, `Outside` is empty.

`Bus` has its tables (`trips`, `seats`, and `opened`, the rows of a transaction that
has not committed) and runs the cache actions on the pages that the tables yield
(`Aside!...`); `FirstRows` are the pages that a broken connection leaves. `CommitTrip` inserts the seats and commits, `RollbackTrip` is any
failure before. `Reserve` and `Cancel` are the conditional UPDATEs; one that matches no
row changes nothing and evicts nothing. A request remembers whose it is (`Mutation`), so
that `HolderKeepsSeat` can tell the holder's cancellation from another's.

### Hub

| State | Code |
|---|---|
| `clients` | `h.clients`; `byUser` changes with it and is in `HubReplies` |
| `pending`, `readers` | `h.mu`, a `sync.RWMutex`: the writer that waits or is in, and who reads |
| `left` | the sockets a broadcast has still to write to |
| `conn` | the goroutine of each connection: the statement it runs next, and what `ClientCount` returned |
| `sock` | frames written and not read, and whether the connection is alive |
| `told` | history: the last `userCount` written to each client, and whether it was late |

| Actions | Code |
|---|---|
| `Connect`, `Announce`, `Register`, `Count` | `parseWSToken`, then `HandleClientConn` to line 72 |
| `Fail`, `Announce`, `Unregister`, `Count` | the read fails, and the deferred function |
| `StartBroadcast`, `Broadcast`, `EndBroadcast` | `Broadcast`, under the read lock, socket by socket |
| `Answer` | pings, and messages that are not JSON |
| `Drain`, `Break` | the client reads; the connection is lost |

A writer that has called `Lock` keeps new readers out until it has been in, as Go
documents for `RWMutex`; `Write` waits for room without a deadline, because the code
sets none.

### HubReplies

`byUser`, `connMap` and the goroutines of connections and handlers. `Request` stores the
connection under the client's id, whatever was there, and starts a handler; `Lookup`,
`SendReply`, `Forget` are `Reply` and `ReplyError` for an id that is known, `Fallback`,
`Spread` and `EndSpread` for one that is not: the slice is read under the lock and walked
without it. `Leave` removes a connection from `byUser` in place (`Without`, `Exit`): a walk
that still has the same array (`shares`) sees the rest moved to the left, and has been
`moved`. A connection that arrives is appended (`Enter`): in the same array, in which it may
take the slot that another one left and so come before a walk, or in a copy, which no walk
has; Go does not say which. A walk keeps the length that its slice had. `CleanConnMap` is the
ticker. `On` has no caller in the repository, so which actions exist is not known: a
handler is taken to answer once.

### Browser and OAuthState

`Browser` puts the tabs of one browser in front of the handlers. `Send` copies the cookie
as it is; `Receive` applies what the answer sets. In between are the statements of
the handler: `GetSessionByToken` and `Rotate` for Refresh and Session, one for the
others. `rows` are the open sessions of the account; whatever else closes them
(the limit, other devices, thirty days) is `CloseElsewhere`. `Sessions` has the whole
life of a row, here reduced to its token. Both logouts are behind `AuthMiddleware`
(`main.go:140`): `Authenticated` is the guard, and a request without a valid access token
is answered 401, deletes nothing and leaves the cookie. `causes` (history) records what has parted
cookie and session since a login that nothing disturbed.

`OAuthState` has the one cookie and, for each tab, how far its attempt is.

### Noticias, Sugestoes, Galeria, Notifications, UserCache

- `Noticias` and `Sugestoes` have their table and the serial of its ids, and run the
  steps of `CacheAside` on the pages that the table yields, as `Bus` does. `Criar`,
  `Atualizar` and `Deletar` change the table and owe the evictions of the service:
  `DelPattern("noticias:*")`, `Del("sugestoes:all")`. The SELECT that ends
  `noticiasRepository.Atualizar` and `sugestoesRepository.Criar` may fail after the row has
  changed, and then nothing is evicted: `Aside!Miss`. The list of news is one page with
  every row, so that pages, categories and `LIMIT 10` of the highlights are left out; that
  of suggestions has its `LIMIT`. Either list may be stored without some of its rows
  (`SelectSome`): a row that cannot be read is skipped, and `rows.Err` is not looked at.
- `Galeria`: `Post` and `Create` are Upload, `GetByID`, `Destroy` and `Delete` are Delete.
  Cloudinary stores or destroys at one point of the call, and the caller may not hear of
  it. `causes` records how an upload or a deletion ended early.
- `Notifications`: `GetNotifications` answers a page and starts a goroutine, whose one
  statement is `Mark`; `PutRead` is the other way to mark.
- `UserCache`: `Me`, `GetUserByUUID`, `Login`, `GetSessionByToken` (Refresh and Session),
  `Register` and `GoogleUser` with `UpsertSocialProfile` read an account, each with the
  columns that its query has, and `Store` puts it in both maps later. `GoogleUser` links or
  creates, and so verifies, or returns an account as it is: the one that is linked, or the
  one that `ON CONFLICT (username)` renames, which may not be verified. Usernames are left
  out of the entries: nothing tells the maps of a renaming. `Drop` and `Logout`
  are `deleteUserCache`. `UpdateProfile` tells the maps nothing. `late` and `drift`
  (history) are the changes that a reader, or an entry, has not seen.

`Services` runs one of these and `HubReplies`, `Browser`, `OAuthState`, chosen in its
initial state. They share no variable of the program, so nothing is lost by not
interleaving them, and their state spaces add up instead of multiplying.

## 3. What the runs check

`tlc -workers 2 -config X.cfg M` in this directory repeats a run. The instances are
the smallest in which the interesting cases meet; the paragraph below says why they
are enough.

| Run | Module, configuration | Shows |
|---|---|---|
| `sessions` | `MCSessions`, `MCSessions.cfg` | `TypeOK`; `SessionsBounded`: the rows of an account exceed the limit only by overlapping requests and by failures; `ResetRevokes`: a session older than the last password change is about to be revoked; `ImplementsRegistry`, and with it `NeverReopened`: no closed session works again, and `NeverReissued`: no replaced token does; `ExpiredPurged`: every expired row is purged or renewed |
| `accounts` | `MCAccounts`, `MCAccounts.cfg` | `TypeOK`; `UnverifiedCanVerify`: what may keep an account from being verified; `LinkFollowsAddress`: a link to Google is never removed, and moves only to an identity that came with the account's address; `SignsInToLinkedOrRenamed`: whose account a Google login gets |
| `posts` | `MCPosts`, `MCPosts.cfg` | `TypeOK`; `LikesAccounted` and `RepliesCounted`: how far the counters may be from the rows; `ClampOnlyInARace`: `GREATEST` hides a decrement only in a race; `EveryoneIsTold`: no interleaving loses a notification |
| `cache_aside` | `MCCacheAside`, `MCCacheAside.cfg` | `TypeOK`; `StaleHasCause`: a stale entry is about to be evicted, lost its eviction, was stored by a read that was overtaken or incomplete, or another service changed the tables; `StaleEnds`: it does not last |
| `feeds` | `MCSocialCache`, `MCFeeds.cfg` | `FeedsHaveCause`: all five mutations evict every feed, so a stale one has another cause, of which the Google login is one |
| `bus` | `MCBus`, `MCBus.cfg` | `TypeOK`; `SeatsComplete`: a trip has each seat once; `HolderKeepsSeat`: a seat is freed by its holder's own cancellation or with its trip, and taken, when free, by who asked for it; `TripPagesHaveCause`; `ImplementsCacheAside` |
| `hub` | `MCHub`, `MCHub.cfg` | `TypeOK`; `CountsSettle`: at rest every client knows how many are connected, unless someone came or left between a count and its broadcast; `LockIsHeldForAWhile`: who connects or leaves gets the lock, as long as clients read |
| `services` | `MCServices`, `MCServices.cfg` | `TypeOK`, and for each part what follows |
| | `HubReplies` | `RepliesGoHome`: an answer goes to the socket that asked, unless its id was sent again or `connMap` was cleaned; `AskerIsAnswered`: who asked is answered, with the exceptions that the code leaves |
| | `Browser` | `CookieHasSession` (`CookieOpensSession` and `NoCookieNoSession`): what may part the cookie from the session; `CookieBySigningIn`: how a cookie comes back |
| | `OAuthState` | `RefusedHasCause`: only an attempt that another one crossed, or that took ten minutes, is refused |
| | `Noticias`, `Sugestoes` | `ListsHaveCause` (`NewsHaveCause` and `SuggestionsHaveCause`): a stale page has one of the causes of `CacheAside` |
| | `Galeria` | `ImagesMatchRows` (`RowHasImage` and `OrphanHasCause`): what may part a row from its image |
| | `Notifications` | `ShownIsRead`; `MarksOwnPage`: which rows the goroutine may mark that were not on the page |
| | `UserCache` | `MapsAgree`: both maps tell the same; `EntriesHaveCause` (`VerifiedHasCause` and `ProfileHasCause`): what may part an entry from its row |
| `reset_expiry` | `MCSessions`, `MCResetExpiry.cfg` | **violated**: `ResetHonoursExpiry` |
| `reset_once` | `MCSessions`, `MCResetConsume.cfg` | **violated**: `ResetTokenUsedOnce` |
| `google_account` | `MCAccounts`, `MCGoogle.cfg` | **violated**: `SignsInToLinked` |
| `pages` | `MCSocialCache`, `MCPages.cfg` | **violated**: `PagesHaveCause` |

### Findings

The four violated properties state what a comment, a document or a mail of the
repository says, and the counterexamples show that the code does otherwise.

- *Reset tokens and their expiry* (`auth_service.go:258`). The comparison is inverted: a
  token in time is deleted and refused, one past its time is accepted until the
  cleaner removes it. `VerifyEmail` has the same comparison (`auth_service.go:296`), and
  nothing purges its tokens; the refused user is told to register again, which the unique
  name and address forbid. `UnverifiedCanVerify` therefore has the exception `refused`.
- *Reset tokens and their use* (`auth_service.go:277`). The token is deleted after the
  password was changed and the result of the delete is not looked at. Two requests
  that both read it change the password twice.
- *A Google login whose name is taken* (`auth_repository.go:195`). `ON CONFLICT (username)`
  renames whoever has the name and returns that row: no account is created, and the login
  gets one that belongs to another identity or to none. `SignsInToLinkedOrRenamed` says
  that this is the only way.
- *Threads and profiles* (`social_service.go:208` and the lines listed with the
  finding). The keys passed to `Del` lack the suffix of the keys that are stored.
  A cached thread or profile is served unchanged until its 30 seconds have passed.

What the exceptions in the passing properties say of the code is as much worth
knowing:

- A login that compared the old password before a reset opens its session after the reset
  revoked all of them, and keeps it (`ResetRevokes` is about older sessions).
- Every exception of `CookieOpensSession` happens: two tabs that refresh at once, or one
  lost answer, leave a cookie that opens nothing; Refresh leaves it there, Session clears it.
- The UPDATE that links an account to Google by its address does not ask whether the
  account is linked already (`auth_repository.go:175`), and nothing asks whether the address
  is verified at Google (`oauth_google.go`): when an address passes to another identity, so
  does the account (`LinkFollowsAddress` allows this and nothing else).
- A feed, thread or profile of which a later SELECT failed is stored without that part, and
  so is a list whose connection broke; a Google login that changes a name or an avatar
  evicts no page. These pages are served until their TTL has passed (`FeedsHaveCause`,
  `TripPagesHaveCause`, `ListsHaveCause`, `StaleEnds`).
- A write of news or suggestions whose last SELECT fails evicts nothing (`ListsHaveCause`).
- Who logs out when the access token has expired gets 401: the session stays open and the
  cookie stays (`Browser`, `Authenticated`).
- A restored session puts its account into the cache as not verified, because
  `GetSessionByToken` does not read `is_verified`; a login with a password puts it there
  without display name and avatar. Either stays for up to fifteen minutes
  (`VerifiedHasCause`, `ProfileHasCause`).
- `Delete` of the gallery destroys the image before it knows whose it is (`RowHasImage`).
- After `connMap` was cleaned, a walk of `byUser` may skip a socket whose left neighbour
  has gone (`AskerIsAnswered`).

A property with a cause as its exception does not watch that cause. `UnverifiedCanVerify`
allows the failed insert of a token and the refused link, `CountsSettle` the count that
arrives late, `TripPagesHaveCause` and `ListsHaveCause` the overtaken read and the lost
eviction, `MarksOwnPage` the rows that the page did not show; `LockIsHeldForAWhile` assumes
that clients read. The code does these things, and each property says that nothing else
leads there. `PROJECT.json` repeats this as a note of the hazard.

### Bounds, and why they are enough

- Two processes. Every race in these handlers is between two requests of which one
  runs between two statements of the other; no handler waits for a third. The theorems
  hold for any number. `pages` needs only one, because the counterexample needs no
  overlap.
- `sessions`: one account, since no statement touches the rows of two; `MaxSessions` 2
  (the code has 10) is the least value with which the limit keeps a session and
  deletes another; three tokens give one session more than the limit; one fault, which
  may strike at any statement.
- `accounts`: two identities that ask for the same name, one of which comes back with the
  address of the other, and with one of its own that the other never has, so that a link may
  move and may not; a third address is left for an account that registers only; two
  accounts, one to be linked and one to be renamed; one failure or restart.
  An insert beyond `MaxAccounts` fails, so a request never waits for the bound.
- `posts`: two accounts, author and other; two posts, so a reply and its parent; a text
  that mentions both, so that mentions outlive the first of them and meet the author;
  one fault. `likes` is not bounded by the model: it is bounded by the accounts.
- `cache_aside`: two keys, of which a write evicts one by name, one scans both and one
  forgets; two values, enough for a stale one; one key that another service changes, so
  that the other shows what evictions alone do.
- `feeds`: one account, one viewer, one post: the key kinds are what matters.
- `bus`: one trip of at most two seats, so a seat may be free beside a taken one, and
  two passengers, so that each may try for the seat of the other. Two trips share no row; their only common page is the list, which
  any write evicts.
- `hub`: two connections, so one may come or leave while the other is told; one goroutine
  that broadcasts for a handler; sockets with room for one frame, so a second write waits.
- `services`: two tabs, requests or accounts (`Actors`). `HubReplies`: three connections,
  so that a walk can be shifted under a socket it has not reached, one id, which two
  requests may share, and `MaxTracked` 0, so that any entry may be dropped; four arrivals
  of connections and requests. `Browser`: three refresh tokens, a login and two
  rotations, or two logins and a rotation. `Noticias`: one item, in the list and in or out
  of the highlights. `Sugestoes`: three rows on pages of two, so a deletion brings one
  back. `Galeria`: two images. `Notifications`: three rows and pages of one or two, so a
  page may be short, have an offset, or miss a later row. `UserCache`: one account, since
  no step touches the entries of two. Requests, tabs and accounts are exchanged together
  by the symmetry: no step compares a request with an account.

Deadlock is checked in every run but `services`, whose parts come to an end when all
connections are gone and the bounds on arrivals are used up.

### Fairness

Three properties are about what must happen. `ExpiredPurged` assumes weak fairness
of the cleaner, a goroutine on an endless ticker, and of each request in flight, which
the Go scheduler runs on. Nothing is assumed of clients, clocks or failures, of which
there are finitely many. `StaleEnds` assumes that Redis expires its keys: `Set` always
gives a TTL, and nothing the services do removes it. No request is assumed to finish.
`LockIsHeldForAWhile` assumes that the goroutines of the hub run on, that a write that can
go on does (strong fairness: the mutex of a socket is handed to whoever waits for it), and
that a connected client reads. The last is not the code's to give: there is no write
deadline, and without it one client that does not read keeps all others from
connecting and leaving.

## 4. What is proved

TLAPS checks the theorems below for all values of the constants that satisfy the
`ASSUME`s of the modules: finitely many processes in `Sessions` and `Posts`, finitely many
accounts in `Posts` and connections and broadcasters in `Hub`, any number of them elsewhere;
natural bounds, limits that are positive, and names for "nothing" that are nothing else
(`None`, `NoUser`, `Anonymous`: `NoneIsNothing`, `NamesAssumption`, `HubNames`). Of Google
nothing is assumed but that its profiles have an identity, an address and a name. `MaxTokens`,
`MaxPosts`, `MaxFaults` and the bounds of `Services` may be any number. Every invariant and
every action property of the passing runs is the statement of one of them.

| Theorem | Statement | Argument |
|---|---|---|
| `SessionsProofs!TypeCorrect` | `Spec => []TypeOK` | inductive |
| `SessionsProofs!SessionsAreBounded` | `Spec => []SessionsBounded` | with `TypeOK` and finiteness of the table. A request in `insert` counts as if its row were there already: `InsertSession` trades one for the other, and `LimitSessions` either makes the room or spends a fault |
| `SessionsProofs!RegistryImplemented` | `Spec => ImplementsRegistry` | every step is of one of five shapes (closes, spends, ages, opens, rotates), each a step or stutter of the registry; needs that rows share no id and no token, and were drawn (`RowsDistinct`) |
| `SessionsProofs!ResetRevokesSessions` | `Spec => []ResetRevokes` | inductive with `TypeOK` and the order of ids |
| `SessionsProofs!ClosedStayClosed`, `SpentTokensStaySpent` | `Spec => NeverReopened`, `Spec => NeverReissued` | what the abstract registry forgets it does not give out again, carried over by `RegistryImplemented` |
| `AccountsProofs!TypeCorrect`, `LinksFollowAddresses` | `Spec => []TypeOK`, `Spec => LinkFollowsAddress` | every step leaves the table, inserts a row or updates one; with `LinkedByEmail` (a linked account has an address that Google gave to its identity) the UPDATE by address gives the link only to an identity that Google gave the same address |
| `AccountsProofs!SignInsAreLinkedOrRenamed` | `Spec => SignsInToLinkedOrRenamed` | from typing, by the statement that ends the lookup |
| `AccountsProofs!UnverifiedCan` | `Spec => []UnverifiedCanVerify` | `IInv` of `Accounts`: ids are those of the serial (`Serial`), so no request holds the id of a later account, and what `ConsumeToken` deletes is the token of a verified account (`ConsumesVerified`) |
| `PostsProofs!TypeCorrect` | `Spec => []TypeOK` | inductive; a counter is never negative |
| `PostsProofs!LikesAreAccounted`, `RepliesAreCounted` | `Spec => []LikesAccounted`, `Spec => []RepliesCounted` | one invariant: `TypeOK`, posts are numbered serially (`Serial`), a reply has its parent (`Parents`), and the accounts. Serial numbers are needed so that a late increment of a deleted post meets no new one |
| `PostsProofs!ClampsAreRaces` | `Spec => ClampOnlyInARace` | from the same invariant: with no failure and no increment ahead, the rows and the pending decrement keep the count above zero |
| `CacheAsideProofs!TypeCorrect` | `Spec => []TypeOK` | inductive |
| `CacheAsideProofs!StalenessHasCause` | `Spec => []StaleHasCause` | with `Owing`: a request that has changed a table and may do so again still owes every eviction of its write, so `WriteMore` makes nothing stale that is not pending; what is stored incomplete, or changed by another service, is marked in the same step |
| `SocialCacheProofs!FeedStalenessHasCause` | `Spec => []FeedsHaveCause` | the previous theorem, instantiated; the keys of the social service meet its assumptions and every one of its writes scans the feeds |
| `PostsProofs!EveryoneTold` | `Spec => []EveryoneIsTold` | with the invariant of the counters and `Addressed`: who is about to be told is the author of the post that the request is about, and one that takes a like back mentions nobody. Each of the three parts is kept row by row: a row that a step adds comes with the request that will tell of it, and a request that goes on has told |
| `BusProofs!TypeCorrect`, `SeatsAreComplete` | `Spec => []TypeOK`, `Spec => []SeatsComplete` | `TablesInv`: a trip that is being created is new and opened once (`Opening`), so its commit adds seats that nobody has |
| `BusProofs!HoldersKeepSeats` | `Spec => HolderKeepsSeat` | from `TablesInv`: each statement, with the trip, the seat and the holder that its `WHERE` names |
| `BusProofs!CacheAsideIsImplemented` | `Spec => ImplementsCacheAside` | every step of a handler is a step of `CacheAside` or a stutter; that a statement changes only the pages that the handler is taken to touch needs `TablesInv` |
| `BusProofs!TripPagesCause` | `Spec => []TripPagesHaveCause` | the theorem of `CacheAside` through that refinement, for the list; for the seats of a trip, which `CreateTrip` does not evict, `SeatsCaused`: what was stored before the trip was there is the empty map |
| `HubProofs!TypeCorrect` | `Spec => []TypeOK` | inductive: who has announced itself is a goroutine that wants to write, who reads is one that tells |
| `HubProofs!CountsDoSettle` | `Spec => []CountsSettle` | with `CountsKnown` (who is about to broadcast has the number, or is late) and `EveryoneInformed`: a client that does not know the number has before it a goroutine that will count or tell it |
| `ServicesProofs!TypeCorrect` | `Spec => []TypeOK` | the typing of each part, from the invariants below |
| `ServicesProofs!RepliesDoGoHome`, `AskersAreAnswered` | `Spec => []RepliesGoHome`, `Spec => []AskerIsAnswered` | `HubInv`: an open connection is in the slice of its account (`Registered`), requests that overlap with one id have reused it (`Apart`), and for each stage of an answer what the entry of its id can be (`AskIsFair`). A walk that shares the array and was not shifted is a beginning of the slice, and the asker lies before it (`WalkIsFair`) |
| `ServicesProofs!CookiesHaveSessions`, `CookiesComeBySigningIn` | `Spec => []CookieHasSession`, `Spec => CookieBySigningIn` | `WebInv`: numbers are drawn once (`Drawn`); the session of a login that is not received is known to nobody else (`Private`), so that `Anew` may forget the past; without overlap one tab at a time has the cookie (`Alone`), the session given last is the one it opens (`MineIsOpened`), and, when nothing else happened, it opens one (`CookieWorks`), each said for every stage of a request |
| `ServicesProofs!RefusalsHaveCause` | `Spec => []RefusedHasCause` | with `StateKept`: an attempt at Google's page has its state in the cookie, or is spoiled |
| `ServicesProofs!MapsDoAgree`, `EntriesDoHaveCause` | `Spec => []MapsAgree`, `Spec => []EntriesHaveCause` | `UsersInv`: what a request is about to store is wrong only for the causes that would excuse the entry (`RequestIsFair`), and so is every entry (`EntryIsFair`) |
| `ServicesProofs!ImagesDoMatchRows` | `Spec => []ImagesMatchRows` | with `Claims`: an upload that is to insert its row has the image to itself, and a deletion that is to delete the row has destroyed it or was kept from that |
| `ServicesProofs!ShownGetsRead`, `PagesMarkTheirOwn` | `Spec => []ShownIsRead`, `Spec => MarksOwnPage` | with `PageCovers`: the rows of an account are on the page, newer than it, or were left out |
| `ServicesProofs!ListsDoHaveCause` | `Spec => []ListsHaveCause` | the theorem of `CacheAside`: every step of news and suggestions is one of it, because a write about one row changes no page but those that it evicts |

Only model-checked is liveness: `ExpiredPurged`, `StaleEnds` and `LockIsHeldForAWhile`, which
rest on fairness and on `ENABLED`, where this version of TLAPS has no proof rules. The four
violated properties are counterexamples and need no proof.

## 5. What is not modelled

- `CreateRepost`, which nothing can call: the route of its handler is not registered in
  `cmd/server/main.go` (`README.md:705` says so).
- `UpdateProfile` as a table, and the contacts of the bus: single statements that nothing
  else in the models reads.
- The answers given to clients (so not the 409 of a reservation that is retried after its
  answer was lost, although the seat is the caller's), wording, validation, formats, and, but for suggestions
  and notifications, limits and offsets. The handlers of posts, bus, news and suggestions
  parse a request, call the service and broadcast an event, which `Hub` has.
- The frontend: a tab of `Browser` is any that has one request in flight.
- `OptionalAuthMiddleware`, `AdminMiddleware` and CORS: each decides about one request and
  keeps nothing.
- E-mail (`email_service.go`): it formats a message and sends it, in a goroutine whose
  error is logged; that a mail may be lost is in `Sessions` and `Accounts`, where a token
  need never be used.
- Configuration (`main.go`, `pkg/server`, `pkg/database`), error types, data types, and the
  generated protobuf code, which has no caller.

## 6. Plan

Every safety property of the runs is proved. What would add most next:

- a refinement of an abstract hub by `HubReplies` (each request answered at most once to each
  socket), and of an abstract counter by `Posts`;
- that two answers never reach one socket for one request, and what a walk that shares its
  array may send to a connection that came after the request;
- the safety half of the liveness properties: that the lock of `Hub` is never held by a
  goroutine that waits for it, as an invariant with a proof.
