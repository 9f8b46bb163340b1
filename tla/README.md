# NetAuth: models, checks and proofs

NetAuth keeps entities (people and services, with a secret, a number and
metadata) and groups, and answers one question above all: is this entity who it
says it is, and which groups is it a member of? This directory models that in TLA+,
from the key/value store up to the commands that users type, checks the models with
TLC and proves the most important facts about the entity tree, the group tree, the resolver
of memberships, the service and the clients with TLAPS.

- [The system](#the-system)
- [Modules](#modules)
- [Runs](#runs)
- [Bounds, environment and fairness](#bounds-environment-and-fairness)
- [What is proved](#what-is-proved)
- [Disagreements between the code and its text](#disagreements-between-the-code-and-its-text)
- [What is not modelled](#what-is-not-modelled)
- [Plan](#plan)

## The system

A user runs a command; the command finds a token, opens a connection to a server and
makes one remote call, or a few. The server runs every request in a goroutine of its
own. The request goes down through these parts.

| Part | State | Operations | Correct when |
|---|---|---|---|
| command line (`internal/ctl`) | the configuration, the token it carries | one command each: find or renew a token, call the library, exit | it carries its user's own token, and always ends |
| token cache (`pkg/token/cache`) | a file for each owner, shared by the processes of a host | `PutToken`, `GetToken`, `DelToken` | a reader gets a token of that owner, or none |
| client library (`pkg/netauth`) | the connection, and whether it is to the master | one method for each remote call; `makeWritable` before a change | every change reaches a server that takes it |
| rpc service (`internal/rpc2`) | read-only flag | checks token, capability or managing group; calls the tree | nobody changes what they have no authority over; every request is answered |
| tokens (`pkg/token`) | keys on disk | `Generate`, `Validate` | claims are those of the entity when it asked |
| entity tree (`internal/tree`) | the chains, fixed after start | `CreateEntity`, `ValidateSecret`, `LockEntity`, ... each builds a data entity and runs a chain | a request takes effect at one instant, or not at all |
| group tree (`tree/group.go`, `tree/membership.go`) | the chains, fixed after start | create, destroy, edit, `MODIFY_EXPANSIONS` | rules name known groups and have no cycle; numbers are unique |
| hooks (`internal/tree/hooks`) | none | load, check, edit the draft, save | each finds the draft it relies on |
| data store (`internal/db`) and back ends | key/value pairs | get, put, delete, list; fires an event after a write | an ID names the entity filed under it |
| callbacks (`db/callback.go`) | the registered functions | `FireEvent`, `EventUpdateAll` | every write reaches every copy |
| search index (`db/search.go`) | a copy of every entity and group, in memory | index, delete, search | agrees with storage |
| membership resolver (`internal/mresolver`) | direct groups, group rules, resolved expressions, links | `SyncDirectGroups`, `SyncGroup`, `Resolve`, `RemoveGroup`, look-ups | agrees with the stored groups and rules |
| plugins (`internal/plugin`, `plugins`) | a process for each plugin | hooks at fixed places of the chains | (never called, see [below](#what-is-not-modelled)) |
| crypto engines, key providers, start-up, health, `nsutil` | | | |

How they interact, and what is hard about it:

- A chain is a list of hooks run in order of priority over a draft. **Nothing is
  locked from the hook that loads to the hook that saves**: every interleaving of
  hooks of different requests is possible, for one entity too.
- The back end unlocks before it fires the event of a write, and the callbacks run
  in the goroutine that wrote, in the order of a Go map. A callback **loads the
  entity again** and only then updates its copy, so that two callbacks can cross.
- The resolver takes its mutex for single look-ups and updates. `SyncGroup`,
  `resolveChanges` and `Resolve` call each other recursively with the mutex free
  in between, and the walk over the cascade is outside it altogether.
- A crash loses the copies in memory and the requests in flight, and nothing else:
  the back ends write a value atomically. At a start, `EventUpdateAll` fills the
  copies from storage, entities first, before the server listens.
- Any call of the back end can fail, at any hook.
- A handler is several calls of the tree with one check before them. The claims of a
  token are put together from three reads, and the token outlives what it claims. The
  members of a group come from the resolver's copy and are then loaded one by one.
- Processes of one host share the files of the token cache without a lock, and a file
  is truncated before it is written. A token can expire, and a server die, between any
  two requests of a command.

The hazards that follow are listed one by one, with source lines and the properties
that watch them, in `PROJECT.json`.

## Modules

| Module | Models | Corresponds to |
|---|---|---|
| `EntityData` | entities, metadata, the edits of one field | protocol messages, `tree/util/util.go`, `crypto/bcrypt` |
| `EntityHooks` | the entity chains, the requests that `tree.Manager` builds, the hooks without storage | `tree/defaults.go`, `tree/entity.go`, `tree/hooks/*.go` |
| `EntityCalls` | what a whole chain makes of a directory, and which error it ends with | the same chains, end to end |
| `EntityTree` | goroutines running chains over storage, callbacks, searches, crashes | `tree/entity-chains.go`, `db/*.go`, back ends, `cmd/netauthd/main.go` |
| `EntityAcks` | `EntityTree` with a history of what clients were told | |
| `EntitySearches` | `EntityTree` with a history of the IDs in change while a search runs | `db/search.go`, `db/db.go` |
| `Directory` | the abstract promise: one directory, each request takes effect at once | |
| `GroupRules` | the rules of groups, the checks before a change, what rules mean | `tree/hooks/check-*.go`, `patch-group-expansions.go` |
| `GroupHooks`, `GroupCalls` | as `EntityHooks` and `EntityCalls`, for groups | `tree/defaults.go`, `tree/group.go`, `tree/membership.go`, `tree/hooks/*group*.go` |
| `GroupTree` | goroutines running group chains over storage, hook by hook | `tree/group-chains.go`, `db/db.go` |
| `GroupDirectory` | the abstract promise of the group tree | |
| `MResolver` | the resolver, one step for each critical section, with the call stack of each thread | `mresolver/memberships.go` |
| `Membership` | group rules in storage, the group callback and the resolver; crashes | `tree/group.go`, `tree/membership.go`, `db/callback.go` |
| `Handlers` | every method of the v2 service as data: who may call it, its calls, its answers | `rpc2/entity.go`, `group.go`, `auth.go`, `system.go` |
| `Service` | servers that run handlers over entities and groups, with tokens and a clock | `rpc2/util.go`, `tree/membership.go`, `pkg/token` |
| `Library` | every method of the client library: the requests it makes, the server it turns to | `pkg/netauth/*.go` |
| `Commands` | every command, as the steps it takes | `ctl/*.go` |
| `Client` | `Service` with processes that run commands and share a token cache | `ctl/helpers.go`, `pkg/netauth/netauth.go`, `token/cache/fs` |
| `HookProofs` | types of the hooks of entities and groups, used by all the other proofs | |
| `EntityTreeProofs`, `EntityExclusiveProofs` | theorems about `EntityTree`: for any requests, about the copies in memory, and about searches; for conflicting requests apart, with `EntityAcks` and the refinement of `Directory` | |
| `GroupTreeProofs`, `GroupExclusiveProofs` | theorems about `GroupTree` | |
| `MembershipProofs` | theorems about `Membership` and the resolver | |
| `ServiceProofs`, `ClientProofs` | theorems about `Service` and `Client` | |
| `MCEntityTree`, `MCEntityAcks`, `MCEntitySearches`, `MCMembership`, `MCGroupTree`, `MCService`, `MCClient` | the values TLC works with | |

How they compose: `EntityTree` and `GroupTree` run a chain hook by hook and are checked
to implement `Directory` and `GroupDirectory`, in which a chain is one step. `Service`
builds on these: there a call of the tree is one step over both directories together,
followed by the callbacks in a step of their own. `Client` extends `Service`; a process
of it is the client of one worker. `Membership` rests on `GroupDirectory` likewise and
refines what `Service` says of the resolver's copy in a single definition.

**Entity tree.** A worker is a goroutine; `pc`, `req`, `at` and `e` are its place in
`RunEntityChain`, its data entity, the index of the hook and the draft. One action
is one hook, except that `set-entity-number` with -1 reads storage once for each ID
(`SetEntityNumber`, `ScanNumber`, `AssignNumber`) and that a write is followed by
one `CallbackLoad` and one `CallbackApply` (or a `CallbackRemove`) for each
registered callback. `store` is the keyspace `/entities/`, `dm` the resolver's direct
groups, `index` the search index. `bootTodo` holds the calls `EventUpdateAll` has
still to make; the server serves when there are none. A failing call is an extra
disjunct of the hook that makes it, enabled by the constant `Faults`. `StrictDelete`
chooses between back ends that refuse to delete a missing key (filesystem) and those
that do not (memory, bitcask). `seen` and `raced` are history only, and so is `touched` of
`EntitySearches`: the IDs that had callbacks to come, or crossed ones, at some instant of a search.

**Group tree.** `pc`, `req`, `at` and `draft` are as in the entity tree. `todo` and
`largest` are the variables of `NextGroupNumber`: the names still to be loaded, and the
largest number so far. `walk` is the recursion of `check-expansion-cycles`, one set for
each level with the groups of that level still to be looked at; `Visit` loads one of
them and `Ascend` leaves a level. `gone` is history: the groups that were destroyed.

**Data.** Slices whose order nothing depends on are sets. Secrets, keys and
values are model values; that one key contains another and that `{n}` annotations of
metadata keys are stripped are the constants `Contained` and `BaseKey`; `NameIn` says
which group names contain which. Each request carries one key, pair or group, as every
method of `tree.Manager` does. Merging metadata is `proto.Merge`: scalars overwrite,
repeated fields append.

**Directories.** The refinement in `EntityTree` maps `store` to the directory and a
request to "called" until its chain writes, or until its last hook returns if it
writes nothing; that in `GroupTree` is of the same kind. The abstract modules know
nothing of drafts, hooks or callbacks.

**Resolver.** A frame of `stack` is an active call of `SyncGroup`, `resolveChanges`
or `Resolve`, with the critical section it enters next. An expression is the set of
those sets of direct groups that satisfy it, so that OR is union and AND NOT is
difference; `Meaning` defines, without any cache, the expression that rules stand
for. `gr` and `gs` are written with `gt` in one critical section and hold the same.
`resolveChanges` walks a map that other threads write: in the model a group that is
added or removed meanwhile may or may not be visited. The Go runtime may also
detect such a walk and end the process, which is `Crash`.

**Service.** `job[w]` is the request of worker w: its handler, the token it came with,
the calls left to make, the claims that the handler holds (those that
`mutablePrequisitesMet` throws away are not held), the error kept for later by handlers
that let managers in (`pre`), and the lists that `ListMembers` and
`getCapabilitiesForEntity` go through. `view[s]` is what server s has in memory of
direct groups and rules: `Notify` brings it up to date after a write, with whatever is
stored by then. `issued` holds every token ever signed; a token is valid if it was issued
and has not expired at `now`. `past` is history: the directories that storage went
through while the request ran.

**Client.** A process has one command under way. `left` holds its remaining steps,
`token` what it attaches to requests, `server` where it is connected: to `CoreServer` until
the first change, then to `CoreMaster`. `cache` is the directory of token files;
`TokenRenewed` truncates one and `WriteToken` writes it, unless the file was removed in between:
what is written then is in no directory. A request is put straight into
`job`; a request whose server died is answered "unavailable", as gRPC does.

**Variants.** Operators whose comment starts with "Variant" are deliberate
mistakes in the definition below them, one for each checked property. No
specification uses them; `PROJECT.json` says which property each must violate.

## Runs

| Run | Instance | Shows |
|---|---|---|
| `EntityAuth` | 2 goroutines, 1 ID, 2 secrets, 1 crash; authenticate, set secret, lock, destroy, create, search, none kept apart from another; writes and the crypto engine may fail | `AuthSound`: "ok" means storage held the entity unlocked with that secret at some instant of the request. `CreateOnlyIfAbsent`: a creation stores an entity only if its ID was free at some instant of it. `UntouchedAreFound`: a search fails only on an ID that somebody was changing at some instant of it. `CopiesCoherent`: without callbacks under way the copies agree with storage, unless callbacks raced |
| `EntityFaults` | 2 fair goroutines; create with a number to assign, authenticate, search; reads, writes and the crypto engine may fail; 1 crash | `NoErrorAfterWrite`: a failed request wrote nothing. `EventuallyAnswered`: every request is answered. Types |
| `EntityEdits` | 1 goroutine, every chain, overlapping keys and metadata keys | `NoNilDereference`, `KVKeysUnique`, and each chain refines its single-step description |
| `EntityNumbers` | 2 goroutines, 2 IDs, conflicting requests apart, 1 crash | `NumbersUnique`, `CopiesCoherent`; `BarredCannotAuthenticate`: after LOCK or DESTROY is answered nobody authenticates; and the refinement of `Directory` under concurrency |
| `ResolveSerial` | 3 groups, one change at a time, 1 crash; rules are dropped, stated again and turned round, and the group on top is destroyed and created again | `ResolvesOnce`: a resolution never calls for its own group, although the links that dropped rules leave send cascades round. `Resolved`: at rest, the resolver holds `Meaning` of the stored rules, whatever order they came in. The server gets to serve again |
| `ResolveThreads` | 2 groups that come and go with a rule of one about the other, 2 threads | `LinksLostByRemovalOnly`: what takes away the link of a rule is the removal of its target, and nothing else in any interleaving. No call waits for one of its own kind and group, and callbacks end |
| `GroupTree` | 2 fair goroutines, 4 groups; rules that could close a cycle of two or of three, groups that come and go, every edit of a group apart; writes may fail | `RulesAcyclic`, `RuleTargetsKnown`, `GroupNumbersUnique`, every request is answered, and the refinement of `GroupDirectory` |
| `Service` | 2 goroutines, 1 server, 2 entities, 2 groups, a clock; any of 39 requests, with at least one to each handler, next to two that remove a membership, remove an entity or issue a token | `ChangesAuthorised`: whatever changes in storage, the token has the capabilities for exactly that. `ClaimsTraceable`: no token claims what its entity could not have had. `MembersFailOnlyIfGone`: a list of members fails only if one of them was removed meanwhile. `RequestsAnswered` |
| `Client` | 2 processes, a master and a replica, 1 crash, a clock; any of 31 commands, at least one of nearly every kind, next to one that renews or destroys the cached token | `WritesReachMaster`, `CarriesOwnToken`; `RefusedOnlyByTime`: neither an old token file nor a half-written one gets a command refused. `CommandsEnd`: whatever happens to the servers, the clock and the cache |

Runs that TLC must find violated show a disagreement between the code and its text:

| Run | What happens |
|---|---|
| `DestroyUndone` | VALIDATE-IDENTITY ends by saving what it loaded, so one that overlaps DESTROY stores the entity again, and it authenticates after DESTROY was answered (`tree/entity.go:33-35` says otherwise) |
| `DelegationRefused` | `mutablePrequisitesMet` puts the claims into a context of its own and returns only the error, so that `GroupUpdate` asks `manageByMembership` about the empty entity: members of the managing group are always refused (`rpc2/util.go:162-165` says they are let in) |
| `EndlessCascade` | links of dropped rules stay: once a rule was dropped and turned round, one change at a time, two groups affect each other, and `resolveChanges` calls itself without end (`mresolver/memberships.go:70`: "Recursively propagate resolutions all the way down"; `type.go:28`: "groups that are affected by the key group") |

The largest runs are `EntityAuth` with 1.7 million distinct states, `ResolveThreads` with 0.6 million,
`Client` with 0.4 million and `Service` with 0.2 million. `ResolveThreads` and `Client`, which check
liveness, take about three minutes with two workers, the others less.

## Bounds, environment and fairness

- **Numbers of things.** Two goroutines exhibit every pairwise interleaving; the
  hazards here involve a reader and a writer, or two writers. Two IDs are needed for
  numbers, one suffices elsewhere because chains touch only the ID they name. Three
  groups give nesting of rules, two directions of a cascade and an operand that is
  not cached yet; the fourth of `GroupTree` is edited while rules change.
- `MaxAutoNumber` bounds the numbers assigned, in the guard `InBounds`; `MaxInt32` is
  small, and no run gets to it. `MaxCrashes` bounds crashes, `MaxTime` the clock,
  `MaxRequests` and `MaxCommands` what clients ask. `NestedAtMost` is a constraint of
  `ResolveSerial` alone, whose cascades may go round for ever: calls that nest deeper than seven are
  not followed. That is a `SyncGroup` with cascades to three groups and their resolutions inside
  one another. One request is watched against two others, one
  command against one other; more of them would repeat the same pairs. The clock moves
  once, which is enough to expire a token at any point, as `Lifetime` is 1.
- `Exclusive` describes clients that do not send two conflicting requests at once: in
  `EntityTree` two for one ID, two creations, or a search next to a change; in `GroupTree`
  two for one group, or two of creation, removal and change of rules. It is an assumption
  about the environment, which the server does nothing to enforce. It is made in `EntityNumbers`
  and `GroupTree`, whose properties are false without it, and these runs say nothing about the hazards
  that it excludes: two creations, two changes of one ID, two changes of rules.
  `DestroyUndone` is what happens to locks and removals without it, and the rest is
  [below](#disagreements-between-the-code-and-its-text). `EntityAuth` and `EntityFaults` do without it.
  Under it the edits of `GroupTree` still run next to scans, walks and saves; two changes
  of structure never do.
  `Service` takes calls of the tree to be atomic and makes the same assumption.
- In `GroupTree` no rule names its own group, and a group that a rule names is
  destroyed by one request only (so that what its removal leaves behind is met). The
  requests are shaped as this client library sends them: a merge carries display name and
  managing group.
- `CopiesCoherent` excludes IDs last written while another goroutine was in
  callbacks for the same ID (`raced`): an old and a new load can cross.
- In `EntityAuth` loads succeed. `CreateOnlyIfAbsent` does not say that the ID is free at the save: two
  creations of one ID that overlap are both answered "ok", and the second replaces the first.
- Metadata merges, key changes and untyped metadata always carry metadata, as the
  methods of `tree.Manager` that send them do. `KVKeysUnique` is checked for merges that
  carry no key/value pairs.
- In `ResolveThreads` rules point one way only, as `NoReentry` is false otherwise (`EndlessCascade`). In
  `ResolveSerial` they may turn round, but what they name stays: when a target is destroyed and created
  again, `Resolved` is [false](#disagreements-between-the-code-and-its-text).
- In `Service`, searches succeed and the crypto engine does not fail (the entity
  tree has runs for both). One server shows the interleavings of its goroutines; `Client`
  has two, and its processes make the requests. A server's copies are filled from storage
  at its start and by its own writes: what another server writes does not reach them.
- In `Client`, what is typed is accepted by the command's argument checks, and the cache
  can be written. `past` stays empty there, as no property of that module looks at it.
- **Fairness.** `FairSpec` is weakly fair to each goroutine and to start-up: the Go
  scheduler runs a runnable goroutine, every call of the back end returns, and no
  step of a chain or a handler waits for another request. `FairClientSpec` is weakly fair
  to each process together with the goroutine that serves it. Clients are not assumed to
  ask, and nobody has to start a command; servers need not die, and the clock need not move.
- Deadlock is checked where clients can always ask again. `Service`, `Client` and the two
  runs about them that must fail use up their requests, commands and clock, and stop.

## What is proved

For any number of goroutines, servers, processes, IDs, groups, secrets and requests, any crashes
and, where no hypothesis excludes them, any faults:

| Module | Theorem | Says |
|---|---|---|
| `EntityTreeProofs` | `TypeCorrect` | `Spec => []TypeOK` |
| | `FiledUnderOwnID` | what is stored under a key carries that key as its ID |
| | `MetadataPresent` | `Spec => []NoNilDereference` |
| | `WritesAreAnswered` | `Spec => NoErrorAfterWrite` |
| | `AuthenticationSound` | `Spec => []AuthSound` |
| | `KeysStayUnique` | `PairsAssigned` implies `Spec => []KVKeysUnique` |
| | `CopiesAgree` | `LoadsSucceed` implies `Spec => []CopiesCoherent` |
| | `CreationsOverwriteNothing` | `LoadsSucceed` implies `Spec => CreateOnlyIfAbsent` |
| | `SearchesFindUntouched` | `LoadsSucceed` implies `SearchSpec => []UntouchedAreFound` |
| `EntityExclusiveProofs` | `EntityNumbersStayUnique` | `NumbersAssigned` implies `Spec => []NumbersUnique` |
| | `AcknowledgedLocksHold` | `Exclusive` implies `AckSpec => []BarredCannotAuthenticate` |
| | `DirectoryImplemented` | `Exclusive`, `NoFaults` and `NumbersInRange` imply `Spec => ImplementsDirectory` |
| `GroupTreeProofs` | `GroupTypeCorrect` | `Spec => []TypeOK` |
| | `TargetsKnown` | `RulesProposedOnly` implies `Spec => []RuleTargetsKnown` |
| `GroupExclusiveProofs` | `NumbersStayUnique` | `NumbersAssigned` implies `Spec => []GroupNumbersUnique` |
| | `RulesStayAcyclic` | `RulesChecked` implies `Spec => []RulesAcyclic` |
| | `GroupDirectoryImplemented` | `ChangesApart` implies `Spec => ImplementsGroups` |
| `MembershipProofs` | `MembershipTypeCorrect` | `Spec => []TypeOK` |
| | `LinksLostOnlyByRemoval` | `Spec => LinksLostByRemovalOnly` |
| | `ResolutionsNeverReenter` | `OneThread` and `NoRuleOnItself` imply `Spec => []ResolvesOnce` |
| | `ResolverFollowsRules` | `RulesLeadDown`, `TargetsStay` and `OneThread` imply `Spec => []Resolved` |
| `ServiceProofs` | `ServiceTypeCorrect` | `MethodsOffered` implies `Spec => []TypeOK` |
| | `ChangesAreAuthorised` | `MethodsOffered` and `UpdatesKeepLocks` imply `Spec => ChangesAuthorised` |
| | `MembersThereOnce` | `MethodsOffered` and `OneServer` imply `Spec => []MembersFailOnlyIfGone` |
| | `TokensTraceable` | `MethodsOffered` and `OneServer` imply `Spec /\ []RulesApart => []ClaimsTraceable` |
| `ClientProofs` | `OwnTokens` | `ClientSpec => []CarriesOwnToken` |
| | `ClientTypeCorrect` | `LibraryCalled` implies `ClientSpec => []ClientTypeOK` |
| | `ChangesReachMaster` | `LibraryCalled` implies `ClientSpec => []WritesReachMaster` |
| | `RefusedOnlyLate` | `CommandsOffered` implies `ClientSpec => []RefusedOnlyByTime` |

The hypotheses say what the environment must do, and each is needed:

| Hypothesis | Means | Because |
|---|---|---|
| `Exclusive` | clients keep conflicting requests apart | [nothing is locked](#bounds-environment-and-fairness) |
| `PairsAssigned` | metadata that is merged has no key/value pairs, what is stored at first has one value for each key, and no request carries infinitely many | `entity update` has no flag for pairs (`ctl/entity-update.go`), and a merge appends |
| `LoadsSucceed` | the back end loads what it has ("get" is not in `Faults`) | a callback whose load fails leaves its copy as it is; a failing load passes for a missing entity |
| `NumbersInRange`, `NumbersAssigned` | no number gets past the largest int32; moreover `Exclusive`, the tree chooses the numbers, and those at first are unique | the next one wraps, and numbers that clients choose are not compared |
| `NoFaults` | no call of the back end or the crypto fails | the directory knows no such errors |
| `RulesProposedOnly` | a merge of group metadata carries no rules | `GroupUpdate` would pass them on past the checks |
| `RulesChecked` | `Exclusive` and `RulesProposedOnly`; no request proposes a group to itself; the rules at first lead down | two changes at once close a cycle; the check lets a group include itself |
| `ChangesApart` | `Exclusive` and `RulesProposedOnly`; no number gets past the largest int32 | a merge that carries rules is no conflict, and may change them below a walk; the next number wraps |
| `RulesLeadDown` | groups have ranks, and clients ask only for rules about groups of a lower rank; the rules of the moment then have no cycle | links of dropped rules stay: with rules that turn round, two groups affect each other |
| `TargetsStay` | groups that are targets of rules are not destroyed | a removal forgets the links of rules that still name the group |
| `NoRuleOnItself` | no group is made to include or exclude itself | the check for cycles accepts that, and the resolution then calls for the group itself |
| `OneThread` | one change is handled at a time | two changes at once close a cycle, on which a resolution calls for itself; two resolutions of a group can be written in the other order than they were read |
| `MethodsOffered` | a request is for one of the methods of the service, with any arguments | others are not routed |
| `UpdatesKeepLocks` | an update of metadata does not set the lock | `entity update` has no flag for it; the service would merge it for `MODIFY_ENTITY_META` alone |
| `OneServer` | the installation is one server | a copy follows only the writes of its own server; that of a replica is as old as its start |
| `RulesApart` | requests that change rules (creations, removals and rule changes of groups) do not overlap each other; all else may overlap anything | [the copy can mix rules of two instants](#disagreements-between-the-code-and-its-text) |
| `LibraryCalled` | a command has a user, and every call of it is of a method of the library, with any arguments | that is how `internal/ctl` is written |
| `CommandsOffered` | a user runs commands of `Commands`, as an entity, with any arguments that the command accepts (`entity-keys.go:54`, `entity-membership.go:43`, `system-capabilities.go:82`, `helpers.go:80`, `group-expansions.go:74`) | a command that asked for another token after the first, or sent a request that no token serves, could be refused at once |

**Entity tree.** None of the first five theorems is about an inductive invariant. Even the types need more: a hook that
edits metadata yields an entity only if its draft has metadata, which depends on the place
in the chain. The inductive invariant is

    IInv == TypeOK /\ StoredUnderOwnKey /\ \A w : Placed(w) /\ \A w : Drafted(w)

`Placed` says at which positions of its chain a request can be in each state of its
goroutine: only a hook that saves or destroys has callbacks, and an answer other than
an error means the chain is past its end. `Drafted` says what the draft is sure to
hold there: the ID of the request from the second hook on (the third when it is
created), and metadata behind `ensure-entity-meta`. Both rest on the lemma
`ChainFacts`, which states where in every chain each kind of hook is. Each action
has a lemma of its own; `AdvancePreserves` and `FailPreserves` carry the two ways in
which a hook ends. `NoNilDereference` follows at once, and `NoErrorAfterWrite` because
hooks that write come last.

`AuthSound` needs the history of one request: `Vouched` says that by hook i of
VALIDATE-IDENTITY the draft is an entity that storage held since the request began
(`seen`), and passed the hooks before i. `OwnVouched` shows that a step of the request
keeps this, `OthersVouched` that steps of others can only add to `seen`.

`KVKeysUnique` is inductive together with the same statement about drafts
(`DraftKeysUnique`): between a load and a save the draft is what counts.

`CreateOnlyIfAbsent` is about what storage held under the ID while the request ran (`seen`), whoever put
it there. `Watched` says that a creation knows of an instant without an entity once it is past its
first hook, and that `seen` has what is stored now. No request is kept away from any other.

**Copies in memory.** Callbacks run after the write and load the entity again, so that a copy
may be behind. What is invariant is that somebody will tell it (`CInv`): a copy of an ID that no
two writers raced for agrees with storage, or its callback is still to be run by the
start-up or by the goroutine that wrote, which has in hand what is stored (`Told`, `Backed`).
A crash throws the copies away together with those who would tell them; the start-up then has
all to tell, and the server does not serve until it has.

*Searches* build on this. An ID is `Unsettled` while a writer of it has callbacks to come or they crossed. A
search that begins finds the index right about every other ID, as `CopiesCoherent` says. From then on, what it has
still to load and finds gone was removed, and the removal had a callback to come when it
happened: it was touched (`WritesTouch`, `TouchInv`). That callbacks may run late, in any order and next to the
search is what `touched` accounts for.

**Entity tree with conflicting requests apart.** The three theorems rest on `Apart`: two
requests under way do not conflict. None of them follows from it alone:

- *Numbers* (`NumInv`) as for groups, below: a creation alone looks for numbers, and whatever runs
  next to it saves the number that it loaded.
- *Locks and removals* (`AckInv`): what was locked or removed with an "ok" is locked or gone in
  storage; a chain that opens it again is not under way; and a request for it that loaded it holds
  it locked, so that VALIDATE-IDENTITY does not get past its second hook. That the chain of
  the lock itself has this effect goes by where it is (`Effected`).
- *The directory* (`DirectoryImplemented`). A request takes effect when its chain writes, or, if it
  writes nothing, when its last hook returns. What must be shown is that this is the effect
  that `Directory` gives it at that instant, although the draft was loaded earlier and
  changed hook by hook. `DraftInv` says so: at every hook, the draft is what the hooks so far
  make of what is stored *now* (`Revised`, `RevisedTo`); a creation has its draft from the request alone
  (`Built`). It is kept because no other request writes to that ID. `NumInv` gives a
  creation a number that no entity has, `AllFresh` (what a creation found missing is missing until its
  save) and `Revised` the error at the hook that refuses, and `SearchInv` (nothing is written next to a search,
  so that what the index named stays stored) the answer of a search. Each action is then shown
  to be one of `Directory` or a stutter; a crash is its `Restart`.

**Group tree.** The types are inductive together with `Placed`: a goroutine looks for a
number only at the fifth hook of CREATE, and walks over rules only at the third of
MODIFY_EXPANSIONS, with at least one level left (`TInv`). That rules are about known
groups is inductive together with `DraftsKnown` (`KInv`): what a draft's rules name is or
was stored, and behind `check-expansion-targets` (the fourth hook) so is the proposed
target, which `patch-group-expansions` (the fifth) adds. What makes it work without a lock
is that the set of groups that are stored or were destroyed only grows: a target that was
there when it was checked may be gone when the rule is saved, but was there. The theorem
does not assume `Exclusive`. It does assume `RulesProposedOnly`: a merge of metadata
carries no rules. `GroupUpdate` passes on what it gets, so that a client other than
this library could put a rule past the checks; that this is needed is part of what the
proof shows.

**Numbers of groups.** `NextGroupNumber` reads the groups one after the other while others
are edited, and every edit saves all of what it loaded earlier, its number too. That this is
safe rests on `NInv`: the requests under way do not conflict (`Apart`); each group is stored
under its own name; as long as a creation has not stored its group, what it has scanned is
not above the largest number it knows, and its draft's number is above all that are stored
(`Creating`); and any other request, until its last hook is done, holds a draft with the name and the
number of what is stored (`Editing`), so that its save changes neither. The theorem assumes
`NumbersAssigned`: conflicting requests are kept apart (`Exclusive`), no client picks a number,
the first directory has unique ones, and `MaxAutoNumber` is at most `MaxInt32`, so
that no number wraps. Without either of the first two it is false,
[see below](#disagreements-between-the-code-and-its-text).

**Rules of groups.** That rules close no cycle is about paths of any length, in a directory that two
requests change while a third walks over it. The proof speaks of sets of groups that no rule leads out
of (`Closed`) in place of paths. Rules are free of cycles if each group has such a set around the targets
of its rules, without itself (`NoWayBack`), and a rule about t may be added to n if one holds t but
not n (`Clean`): joining the two sets gives every group one again after the save. What
`check-expansion-cycles` does is found to be this by the invariant of its walk (`Walked`): if all that is
left to visit is clean, so is all below the target. So when nothing is left, the
target is clean, and it stays so until the save, as other requests under way save rules that they
loaded and that are stored still (`AInv`). `RulesAcyclic` follows as `Reach` stays inside any closed set.
`Reach` is recursive over depths; the library's induction over numbers takes an operator, but
that every set which holds 0 and successors holds all (`SetInduction`) can be
derived from its facts about well-founded relations.

**The directory of groups.** `GroupDirectoryImplemented` says that a chain of hooks, run next to others, is one
step of `GroupDirectory`: the write, or the refusal. The inductive invariant (`DInv`) says of each
request what its hooks found, and that it is so *now*. A creation's draft is built from its request
under a name that is free (`Builds`), with a number above all that are stored or about to be
(`Counts`). Any other draft is what is stored, edited once the chain's one hook for it has
run (`Revises`). A rule that is about to be added has passed the checks so far (`Inspects`). All of this
is kept because no request that conflicts runs next to it (`Apart`). Each step is then
a `Call`, `Create`, `Destroy`, `Edit`, `Refuse` or `Forget` of the directory, or a stutter.

The hard part is the check for cycles: the directory makes it at once (`CycleFrom`), the tree group by group. Both are
compared with a third: a rule about t may be added to n if t is in a set of stored groups that
no rule leads out of, and n is not (`Sound`). `CycleFromSound` proves that `CycleFrom`, which stops at as
many levels as there are groups, says the same: its levels grow, and cannot grow more often than that
(by induction with `SetInduction`, and cardinalities). The walk keeps this: all that is left to visit is
sound if and only if all below the target is. Unlike `RulesStayAcyclic`, this does not need the rules to
be free of cycles, nor requests that spare a group itself: the directory has the same verdict on those.

**Resolver.** The first two theorems hold for any number of threads in the resolver. What is stored, known
to it, linked, or in a frame of a call is among the rules that clients may ask for (`GInv`), and
nothing else of these maps is used. That a link gets lost by a removal of its target only is
`StepBinds`: for any two groups, a step of any thread keeps the rule unknown, linked, or in a `SyncGroup` that has
still to link it (`Bound`), unless it removes the target. `RemoveGroup` of the other group takes rule and link
away together; storing rules adds a `SyncGroup` that will link them.

`ResolutionsNeverReenter` is about the check for cycles and the recursion at once. Clients may drop rules, turn them
round and destroy what they name, so that the order of groups changes all the time. `DInv` says that at
every moment *some* rank is lowered by all stored rules (`Lowers`), and that of two resolutions in one stack the
inner one is for a group of lower rank (`Descends`). A rule that MODIFY-EXPANSIONS accepts can be added
without closing a cycle: the groups that its walk over the target's rules does not find are closed under rules, and
are put below all others (`AcceptedLowers`). That the walk, which is as many levels deep as there are groups, has
found all by then is `WalkCloses` (by `SetInduction`, and cardinalities). The rank may be another one after each change:
no call is under way then, as there is one thread. Links play no part, so that those left behind do no harm
to resolutions. Cascades do follow them, and are not covered: `EndlessCascade` shows why.

`ResolverFollowsRules` needs more of its environment. Its invariant has, of two frames of one stack, the inner
`resolveChanges` for a group of higher rank, too (`AllNested`), for which the rank must be the same at all times
(`RulesLeadDown`), and that every known rule is linked (`LInv`), for which the targets must not be
destroyed (`TargetsStay`). Both are false without them. That the first hypothesis can be weakened is what
`ResolveSerial` suggests, which checks `Resolved` with rules that turn round.

`Resolved` compares what is left when all calls have returned with `Meaning`, which knows of no calls.
On the way there the cache is wrong in many places at once, and what is invariant is that the calls under way are going
to put it right. A group is `Settled` if what it holds is what its rules make of what their targets
hold, provided that all of these are resolved. Take any set of groups that has all those above those that
it has (`Upward`), and all that the frames of the stack are about to resolve, link by link (`Covers`): outside of it, every group is
settled (`AllSettled`). With an empty stack the empty set is such a set, and all is settled; a
step of a call may unsettle only what every such set has. Quantifying over the sets takes
the place of talk about paths. For this to be inductive, the frames must say what they have built
so far and of what (`Works`): the part of a group's rules that a `Resolve` has dealt with is resolved, and has
not changed since, because the groups it calls for are below and nobody else writes. `Follows` ties the resolver's rules to
those in storage: they differ for the group whose callback has not stored them yet, and, at a start, for
those that are still to be announced.

At rest, then, every known group is resolved and settled: at a start, because a group of least rank that is not
resolved would have targets that are (`AllResolved`). That this is `Meaning` is `SettledMeans`: `Meaning` is
computed in as many levels as there are groups, and each level agrees with the resolver on at least one more group
for good, the one of least rank among those that did not (by `SetInduction` and cardinalities).

**Service.** That types are kept is about what handlers are made of: all calls of all methods
are requests that the trees accept (`WellMade`; one lemma for each group of methods), and what is
left of a handler is some of its calls (`WellPlaced`).

`ChangesAuthorised` compares two directories with a token, across handler, chain and
merge. The proof takes it apart as the code does. `Dutiful`: whatever call of a handler is not a look-up,
its handler asks for the capability that this chain needs (`EntityRight`, `GroupRight`), and the exceptions
are about the subject itself. One lemma for each chain (`...Keeps`) shows that it changes no more than this
capability is good for. `Trusted` joins the two in time: a handler that is at its calls with prerequisites
met had a token that was good when it was looked at; one whose prerequisites were not met holds
no claims, so that no managing group lets it in; and one that changes its own secret has, by its
second call, proved the old one against a directory of its `past`. The inductive invariant is `AInv`.
That nobody gets in by a managing group is what `DelegationRefused` complains of.

`MembersFailOnlyIfGone` and `ClaimsTraceable` compare what a request finds in the resolver's copy with what was
stored while it ran (`past`). The copy may be behind storage for as long as it takes until callbacks run, so that it may know
what was overwritten before the request arrived. Two facts make up for that. A copy that differs from
storage has somebody under way who is about to tell it (`EntityCopyOK`, `RuleCopyOK`); and what that request has
seen counts as seen by one that arrives meanwhile, as the two overlap. So a request has
seen all that the copy knows (`Remembered`, `RulesRemembered`): it holds on arrival,
for what the copy has from storage because that is what is stored, and for the rest because the requests that are to tell
it remember it; and a callback only puts what is stored in the place of what was.
From there on, for lists: who is listed was there (`Listing`), so that
a load that fails means that somebody left; and no other step of such a handler answers
"internal". For tokens: the groups that are still to be looked up, and the capabilities collected so far,
could be the entity's by a membership and rules that were stored, not necessarily at the same
instant (`Claiming`, `MayBeIn`); the sets only grow as more is seen. The inductive invariants are `CInv` and `TInv`.

For memberships that works entity by entity, whatever overlaps. For rules it does not: `Meaning` goes by those of
all groups at once, and the copy must be one that storage held as a whole. With two changes of rules under way, it
need not be. `RulesApart` excludes this and nothing else: rules may change while tokens are issued.
The run `Service` has one request that changes rules at a time.

**Clients.** What a process attaches to a request comes out of a file that other
processes truncate, write and remove at any moment, and what it writes there comes from an
answer to a request that a server may have died on. That it carries nobody else's token is
inductive only together with what the files, the processes and the requests under way hold
(`OwnInv`): every file holds the token of the owner it is named after, or none; what a
process has read, and what its request carries, is its user's; a request to issue a token
is about the user who made it; and a process that waits for nothing has no request under way. The
theorem is for any commands, users, servers, crashes and clock. It assumes that a command is a
sequence of requests and of looks at the cache, none of which asks the server to sign
(`CommandsAssumption`): only a renewal does, and that is a step of `Client`.

`WritesReachMaster` is about two lists that must agree: the methods of the library that call
`makeWritable`, and the handlers that ask for authority, which `mutablePrequisitesMet` refuses on a
replica. `CallsProper` proves that they do, for all methods and arguments (for an action that the server
does not know, too). `CommandInv` carries this through time: a process is connected to the master
from its first change on, so that what is left of its call is either harmless or at a
server that takes writes (`InStep`), and a request under way likewise (`AtMaster`).

All of this is about the steps that `Commands` lists for each file of `internal/ctl`; all commands that change something
attach a token. `RefusedOnlyByTime` is about a moment that is long past when it matters: `token()` has put a
token to the server, perhaps one that another process wrote, and several requests later a handler on another
server looks at it. `TokenInv` says what a process knows meanwhile, provided that the clock
stands still and no server has died (`InTime`): the token that it carries was issued and is not expired, as long as it
waits for the verdict on a token the request is just that (`Vouching`), a new one is signed for
as long as a token lives (`Signing`), and a request that carries it is not refused (`Carrying`). The
last rests on what handlers answer: with a valid token, no method that a command calls says
"malformed" or "unauthenticated" by itself (`Served`), except the one that has an old secret checked. That
the commands are like this, and ask for a token before and not after what needs it (`Accepted`), is shown for
each of them.

The other assumptions are those named in `EntityData`, `EntityTree`, `GroupRules`, `GroupHooks`,
`GroupTree`, `MResolver` and `Membership`: zero values are distinct from the values that clients name, containment is
reflexive, stripping an annotation is idempotent, requests and the initial directory are well
formed, group names are finitely many, and for `Membership` there is at least one.

**Only model-checked:**

- liveness (`RequestsAnswered`, `ServesAgain`, `CallbacksEnd`, `CommandsEnd` and the like), as fairness and ENABLED
  are out of the prover's reach;
- `NoReentry`, as an invariant of `ResolveThreads`: the proof of `ResolverFollowsRules` has it as
  `AllNested`, for any number of threads and any depth of rules, if these lead down.

All other properties of the runs that pass are theorems. What the runs that must fail show is checked by TLC only.

## Disagreements between the code and its text

The runs that must find a violation, [above](#runs), are the ones that a line of the repository contradicts. The models show
more, for which no run is kept:

- `fail-on-existing-entity` lets any error of the load pass for a missing entity, and the creation then
  replaces what is stored (lines 19-21 there say that such errors are returned): with "get" in `Faults`,
  `EntityAuth` finds `CreateOnlyIfAbsent` violated.
- Two callbacks for one entity can load in one order and update the resolver in the other; the older list
  of groups stays (`mresolver/memberships.go:7-8`: "whatever the list actually is now"): `CopiesCoherent` without
  its exception for `raced`.
- A metadata merge with key/value pairs appends a second pair of one key.
- Two resolutions of one group can be written in the other order than they were read, and the resolver rests
  with the older (`memberships.go:28-31`: "strictly overwrites other information"): `Resolved` in `ResolveThreads`.
- A group that is destroyed takes its links with it though rules name it still; created again, its changes do not
  reach the groups above (`memberships.go:48-50`: "all groups that if changed need to re-resolve this one"):
  `Resolved` in `ResolveSerial`, with B in `Removable`.
- Callbacks of two changes of rules can run in the other order than their writes. With g2 included in g1, one request
  drops that and another includes g3 in g2. If the second one's callbacks are first, the copy has both inclusions,
  which storage never had together, and a token issued then carries the capabilities of g1 for a member of g3:
  `ClaimsTraceable` fails with these three requests, and `RulesApart` is what it takes.
- With `Exclusive = FALSE`, two creations at once are assigned one number
  (`hooks/set-entity-number.go:22-24` promises "uniqueness"). The number after
  the largest int32 wraps, and comes up twice. `ErrDuplicateNumber` is handled but never returned: a number that
  the client names is not compared with those in use.
- With `Exclusive = FALSE`, two opposite rules are both checked before one is saved, and close a cycle.
- `check-expansion-cycles` lets a group include itself, although `ctl/group-expansions.go:27-29` says that
  "cycles are not introduced": with `ModifyGroupExpansions(g1, g1, "INCLUDE")` among the requests, `RulesAcyclic` fails.
- Two creations of one ID at once are both answered "ok", and so may be two removals of a group.
- `AddKey` drops a key that a stored one contains.
- GROUP MERGE-METADATA sets the managing group without the check that `set-managing-group` makes.
- Direct memberships outlive `DestroyGroup`, and entities may join a group that does not
  exist. `GroupAddMember` with an empty list answers "ok" whoever asks.
- A missing key is answered "missing" for an entity and "internal" for a group.
- `get-token` always asks the server, although its text says that a valid token is kept.
- The text of `system capability` shows `add` in lower case, which the library refuses: only this
  method does not put the action in upper case.
- `token()` may return without a token although `ctl/helpers.go:30-33` says it never does: if the second
  look at the cached token finds it expired.

## What is not modelled

- **Plugins, and fail2lock with them.** `ProcessEntity` and `ProcessGroup` of
  `plugin/tree/common/rpc.go` take three arguments, and `net/rpc` registers only methods with
  two: every call of a plugin fails at the transport. A model would be of `net/rpc`.
- **Chains that a configuration file changes**; they are the defaults here.
- **The query language** of searches, and the search index of groups, which works as that of
  entities.
- **Reads of the resolver that overlap a write of the same Go map**: the runtime may end the
  process, which `Crash` covers, and what it reads otherwise is not defined.
- **Prompts, flags and output** of commands, the parsing of key/value answers in the library, and the token cache
  in memory, which one process has to itself.
- **Keys, key files, `nsutil`, health checks, configuration, logging**: input and output only, or no state
  that a property here depends on.

## Plan

1. **Entity tree** (done): data, hooks, tree, acknowledgements, abstract directory.
2. **Membership** (done): rules, resolver, their composition.
3. **Group tree** (done): chains hook by hook, numbers, the walk for cycles, abstract directory.
4. **Service** (done): handlers, claims, memberships and lists of members, a clock.
5. **Client** (done): library, commands, the token cache, the choice of server.
6. **Theorems** (done for all safety properties and refinements that the runs check).
7. Left to model: events of entities and groups in one resolver, hook by hook; the index of
   groups; the query language.
