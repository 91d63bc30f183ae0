# A TLA+ model of etsimec

etsimec is a C++ implementation of the Mx2 interface of ETSI MEC: a *UE
application LCM proxy*, which tells the device applications of clients which
edge router to use, and the client-side manager that asks it. This directory
holds TLA+ modules translated from `src/`, the configurations with which TLC
checks them, and theorems about them checked by TLAPS.

## The system

| Part | State | Operations | Talks to |
| --- | --- | --- | --- |
| `UeAppLcmProxy` (base class) | `theApplications`: mangled key -> application, under its own mutex | `addApp`, `delApp`, `exists`; REST: `app_list`, create / update / delete `app_contexts` | clients over HTTP; calls the virtual `createContext`, `updateContext`, `deleteContext` |
| `StaticUeAppLcmProxy` | `theTable` (client address and application name -> edge router), `theApplicationsByContextId`, `theApplicationsByUeAppId`, under a second mutex | `associateAddress`, `removeAddress`, the three context operations, `notifyClients`, `purge`, getters | posts notifications to the callback references of clients |
| `StaticFileUeAppLcmProxy` | none of its own | reads the table from a file in its constructor | its base class |
| `TrivialUeAppLcmProxy` | a fixed address | accepts everything | - |
| `GrpcUeAppLcmProxy`, `GrpcUeAppLcmProxyClient` | none | forward `associateAddress`, `removeAddress`, `addLambda`, `delLambda` and the getters | the proxy; several worker threads |
| `AppContextManager` | `theContexts`: UE application id -> edge router and context id | `contextCreate`, `referenceUri`, `handleNotification`, the destructor deletes all | the proxy over HTTP, both as client and as server |
| `AppContext`, `AppInfo`, `AppCharcs`, `ApplicationList`, `NotificationEvent` | immutable JSON objects | construction, kind, conversion request -> response | used by all of the above |
| `AppListClient`, `EtsiMecOptions`, `utils` | - | a GET, command-line options, strings | - |
| `OpenWhisk/` | - | list actions, invoke an action | an OpenWhisk gateway |
| `Executables/` | - | `etsimeccli` (with a Mattermost proxy), `ueapplcmproxy`, `ueapplcmproxyclient` | wire the parts together |
| `rest/` (HTTP, gRPC wrapper, support) | git submodule, absent | HTTP client and server, UUIDs | modelled only by its use |

What makes the parts correct:

- registry: an application answers only for itself;
- static proxy: the edge router of a context is always the most specific entry
  of the table; the two maps of contexts and their iterators agree; an owner is
  told every change of edge router, once, with the right value; a context ends
  only on request or refusal; a call that changes the table returns;
- manager, with the proxy: what the manager tells its application is eventually
  what the proxy records; manager and proxy agree on which contexts exist;
- messages: no message of one kind is taken for another;
- gRPC: a call that is acknowledged took effect.

What makes them hard: notifications are posted after the mutex has been
released, so they interleave with every other operation and with each other;
answers can refuse (which removes the context) or never come; some legal call
sequences lead to states other operations assert away; and debug and release
builds behave differently, because release is built with `-DNDEBUG`
(`CMakeLists.txt`). `PROJECT.json` lists the hazards line by line.

## The modules

| Module | What it is |
| --- | --- |
| `Common` | the empty string and the build, which all parts share |
| `UeAppLcmProxy` | the registry of applications, with the mangling of the key |
| `StaticUeAppLcmProxy` | the static proxy, in both builds; extends the registry; holds the refinement mapping to `ContextDirectory` |
| `ContextDirectory` | abstract: what the class documentation of the proxy promises |
| `Mx2Messages` | the JSON objects: what constructors make and accept, kinds, conversions (no state) |
| `Mx2Flow` | a message on its way: published in the list, read there, made a request, answered; other programs may have written any of these |
| `Mx2Server` | the REST handlers on top of the static proxy, over the bodies of `Mx2Messages` |
| `AppContextManager` | the client-side manager, one end only |
| `Mx2System` | the static proxy and one manager over HTTP, with losses, delays and crashes |
| `GrpcUeAppLcmProxy` | the gRPC calls of the administrator, both ends, on top of the static proxy |
| `Console` | `ueapplcmproxyclient`: the loop over its input; extends the gRPC module |
| `StaticFileUeAppLcmProxy` | the constructor that fills the table from a file |
| `Locking` | the three mutexes, and every operation as what it locks and waits for |
| `EtsiMecCli` | the chat front-end of `etsimeccli` |
| `OpenWhisk` | keys of actions, `sameKeys`, the lister |
| `..._proofs` | the theorems about the module so named and their proofs; `StaticUeAppLcmProxy_proofs` also has the registry and the refinement of `ContextDirectory`, and `Clients_proofs` is about `OpenWhisk` and `EtsiMecCli` |
| `MC...` | instances for TLC. `MCParts` puts four parts that run alone in one instance, of which a behaviour runs one |

Operators named `action_Something` placed right before an operator are either
the failing branch of the action (`associateAddress_Unrouted`) or, when nothing
refers to them, faulty variants (`find_WildcardFirst`) that are put in the place of the
operator to see that a property notices.

### How the state corresponds to the code

The three maps keep their names. A map is a function with `Nil` for an absent
key. `Empty` is the empty string: the client address that matches any client,
an edge router that is not there, a callback reference not given. An iterator
in `theApplicationsByUeAppId` is the context id it points at (an insertion that
rehashes formally invalidates it, but the hash tables in use do not move their
elements, so it goes on pointing at the same one). A name is a
sequence of tokens, so that the separator of the mangled key can occur in one.
`toNotify[t]` and `posting[t]` are the local state of `notifyClients` in thread
`t`: what it has not posted yet, and the POST it is waiting for. `failure` is
`"none"` until an assertion fails or an `end()` iterator is dereferenced, which
ends the process (in the standard libraries in use an `end()` iterator of a
hash table holds a null pointer, so the release build stops there too).

### Atomicity

`associateAddress` and `removeAddress` hold `theMutex` to the `unlock` before
`notifyClients`; the other operations hold it for their whole body. So each is
one step, and only the notifications are steps of their own: take one off the
list, get the answer (`answerAccepted`), or none (`postFailed`). An answer other
than 204 removes the context under the mutex (`purge`), which is one step with
the answer because nothing is read in between. `exists` takes the base class's
mutex inside `createContext`; the base class never takes the other one, so the
order of locks is always the same and `addApp` either precedes the whole
creation or not at all. A POST is made with no lock held: an owner may call the
proxy back while it is being notified, and `TableCallReturns` needs no
assumption about the owners.

The order in which notifications of one list are posted is that of a hash
table, so it is left open. Steps that change nothing (a refused creation, a
repeated association, an unknown id, a rejected argument, the getters) are
stuttering steps.

Context ids are UUIDs. The model picks any id that no context and no
notification mentions (`fresh`): such an id cannot be told from a new one, and
the number of contexts ever created stays unbounded although `ContextId` is
finite.

### Both builds

With `Assertions = TRUE` a second context for an indexed UE application id, or
a notification without a callback reference, ends the process. With `FALSE` the
first leaves the context without an index entry, and the second is dropped, like any
callback reference that is not a URI: either `web::uri::validate` rejects it or
the HTTP client throws on it, and an exception is only logged. With `TRUE`, a
change of the table may also end the process because another call has locked
`theMutex` since (`notifyClients_Locked`): `notifyClients` asserts first that it
is not locked.

### The proxy and the manager

`Mx2System` gives every step that the code takes with no lock held a step of
its own: `contextCreate` before its POST and after the answer, the handler of
the proxy in between, each notification posted, handled and answered. What is
under way is in `exchange` (creations) and in `posting` and `reply`
(notifications). A behaviour has a set of `faults`, fixed at its start:

- `"loss"`: an exchange may end without an answer at any point. `rest::Client`
  throws; the request is lost or is served later nonetheless (a notification
  on which its sender has given up goes to `late`);
- `"crash"`: the manager's process may end at any time without running the
  destructor. Calls in progress vanish, requests sent are still served, and a
  new manager starts at the same URI with nothing in its map.

The proxy does not persist anything and is not restarted; when it dies
(`failure`), nothing more happens to it. The manager is the only client. UE
application ids are random UUIDs, so a new one is one that nothing mentions.

A handler is one step. The mutex of the manager is taken by
`contextCreate` only to enter the context, by `handleNotification` for its
whole body, and never by the destructor; `Locking` justifies this and the
atomic steps of the proxy: it has every operation as a sequence of lock,
unlock and wait, with the handler at the other end of a POST as part of it.

### Messages

A JSON object is a record in which a key may be `Absent`, or `Other` than of
the type it should have; a string is empty, too long for its field, or neither.
That is all the code distinguishes. The tests on fields (`notEmpty`,
`setIfNotEmpty`, ...) belong to the absent library and are modelled from their
use. A function that throws returns `Thrown`. In `Mx2Server` an exception that
leaves a handler is answered with an internal error; so is one that leaves the
handler of the chat front-end while it reads the body (`throw`).

### The consoles

A gRPC call waits until its notifications are answered: the thread that serves
a console is the `Thread` of the static proxy. The input is a sequence of
lines, a line a sequence of tokens, and `std::cin` is good, at the end or
failed as `std::getline` leaves it. Each console is served by one thread;
clients create, update and delete contexts meanwhile, and answer notifications
as they like.

## What is checked

| Run | Bounds | Properties |
| --- | --- | --- |
| `proxy_release` | no assertions; 2 clients and the wildcard, 2 routers, 2 UE ids, 2 contexts, callback given or not, 2 threads | `TypeOK`, `RoutesCurrent`, `IteratorsValid`, `MovedMeansNotified`, `ImplementsDirectory` |
| `proxy_debug` | assertions; 1 client and the wildcard, 2 application names, one in 2 versions; valid, invalid and absent callbacks; 1 thread | `EveryContextIndexed`, `PendingIsCurrent`, `ExistsMeansListed`, `MovedMeansNotified`, `ImplementsDirectory` |
| `console` | assertions; 2 consoles: one with any two lines after an application and a route are set up and the other with empty input, or both with a change of the route; 2 clients, 1 UE id, 1 context; fairness | `ConsoleTypeOK`, `ServerAssertionsHold`, `OneAnswerEach`, `OKMeansDone`, `EverySessionEnds`, `TableCallReturns` |
| `mx2_system` | assertions; every set of faults; the manager's address and another, 2 UE ids, 2 contexts, 2 routers, 1 thread | `SystemTypeOK`, `InformedOrPending`, `ContextsMatch`, `ManagerIsHarmless`, `NoOrphans` |
| `mx2_live` | the same without assertions, crashes only; fairness | `StaleIsTransient`, `OrphanEnds` |
| `rest_server` | no assertions; 24 bodies: requests, responses and neither, with and without callback, context id and name; 1 UE id, 2 contexts, 1 router | `ServerTypeOK`, `AnswersTellChanges`, `ListedIsGrantedOrForbidden` |
| `locks` | 3 threads, one call each, at most 2 notifications per call; fairness | `LockOrder`, `NothingHeldWhileWaiting`, `NoDeadlock`, `EveryCallReturns` |
| `parts` | every object with the values of interest in each field; files of at most 3 associations; texts of at most 5 words; lists of at most 2 actions | `ListedBecomesRequest`, `ResponseKeepsRequest`, `LastAssociationHolds`, `LastValueCounts`, `SameKeysMeansSame` |

Why the bounds suffice for what is asked: two clients and the wildcard give
every combination of a specific, a default and an unrelated entry; two routers
tell a changed entry from an unchanged one; two contexts can share a UE
application id, share a client or differ, and one can be gone while a
notification for it is under way; two threads give every overlap of two calls.
A manager with two ids has one call fail, be served late, or wait while the
other goes through, and a context from before a crash beside one from after it.
Three threads are enough for a cycle through all three mutexes. In a file,
three associations can have one key twice with another between; in a text, five
words can have each keyword with a value and a keyword as a value. The theorems
below hold for all sizes. Contexts, routers, threads and UE ids are symmetric,
and the safety runs use that; the runs with liveness do not.

`CHECK_DEADLOCK FALSE` is set where the system may stop: a dead process, a
session at its end, a constructor that has returned, threads that have made
their bounded number of calls (`NoDeadlock` and `EveryCallReturns` are what
would fail if they were stuck before).

The static proxy:

- `RoutesCurrent`: the code does not recompute the edge routers but patches
  those that seem to have changed, and `associateAddress` writes its own
  argument to all of them. That is right only by an invariant over all
  histories of specific and default entries.
- `IteratorsValid`, `EveryContextIndexed`: the two maps. The first holds even
  in the release build, where several contexts can share a UE application id;
  the second only where the assertion in `createContext` is compiled in.
- `MovedMeansNotified`, `PendingIsCurrent`: the notifications. The second fails
  with two threads: one changes the table while the other's notifications of
  the previous change are still to be posted.
- `ImplementsDirectory`: the proxy implements `ContextDirectory`, in which
  nothing is cached, contexts are granted only to registered applications with
  a route, and routes and contexts change independently.
- `ExistsMeansListed`: an application answers only for itself, in names without
  the separator of the key.

The proxy with others:

- `InformedOrPending`: what the manager tells its application is what the proxy
  records, or a notification with it is on its way; in particular when the
  router changes while the answer to the creation is under way. Needs one
  thread that changes the table and no losses; crashes do no harm.
- `ContextsMatch`, `ManagerIsHarmless`: under every fault, a retry never meets
  the context of an attempt before it, so that nothing that becomes of a manager
  makes the proxy fail its assertions on the index (in `createContext`,
  `deleteContext` and `purge`) or on the callback reference (in
  `notifyClients`). The assertion that the mutex is not locked is not among
  these: any request can make that one fail.
- `NoOrphans`: without faults no context is left in a proxy that runs, though
  the destructor runs among notifications that purge what it is deleting. A
  proxy that has died of a failed assertion can no longer be asked to delete.
- `StaleIsTransient`, `OrphanEnds`: a stale edge router and a context left by
  a crash do not last, once a notification is under way.
- `AnswersTellChanges`: what an answer says of the contexts, whatever the body.
  200, 403 and 500: nothing has changed. 201 to a request: the context in the
  answer has been entered, as asked. 201 that repeats a body which is a
  response: the creation was refused and nothing has changed. 204 to an update:
  the callback of one context of the UE application id in the body, whatever
  the URL says. 204 to a deletion: the context in the URL has ended. The
  exceptions of `makeResponse` come from within `createContext`. That 201 means
  authorized, and that an updated context is the one in the URL, are claims that
  the code does not keep (see below).
- `ListedIsGrantedOrForbidden`: list, conversion, parsing and creation fit
  together, among clients that send anything.
- `OKMeansDone`: the server answers OK whatever happens; for what the client
  lets through (names that are not too long) and the only console in use, OK
  does mean that the table or the registry is as commanded, that every context
  that has a route records it, and that the call has no notification left to
  post and waits for no answer. It does not mean that the owners know: a POST may
  have failed, a callback may have been passed over.
- `OneAnswerEach`: at the end of a session there is an answer of its kind to
  each command, in their order, except that `table` and `contexts` write nothing
  when there is nothing to list, although the help promises a response to every
  command.
- `ServerAssertionsHold`: what the server asserts, the client has checked.
- `LockOrder`, `NothingHeldWhileWaiting`, `NoDeadlock`: one order of mutexes,
  no request under any, and whoever has not returned, somebody can go on.
- `ListedBecomesRequest`, `ResponseKeepsRequest`: a conversion loses nothing,
  and what it makes is accepted and taken for what it is at the other end.
- `LastAssociationHolds`, `LastValueCounts`, `SameKeysMeansSame`: a file, a text
  and two lists of actions mean what a definition that does not go through them
  step by step says.

### Fairness

`FairConsoleSpec`, `FairSystemSpec` and the specification of `Locking` assume
weak fairness of the steps of each thread (and of each console), of nothing
else: threads are scheduled, and a POST ends with an answer or the timeout of
the HTTP client. Nothing is assumed of clients, administrators, managers or the
network: nobody has to make a call, and whoever is notified may refuse. In
`Mx2System` a notification is handled because its handler waits only for a
mutex that is never held during a request, which `NothingHeldWhileWaiting`
shows. In `Locking` the implementation of `std::mutex` is not assumed to be
fair between waiting threads: calls are finitely many there.

### Where the code departs from what it says

`PROJECT.json` quotes the lines. Four runs show a violation:

- `associate_unrouted`: `removeAddress` can leave a context without a route, on
  purpose; the next `associateAddress` for another client of the same
  application asserts that there is none.
- `duplicate_ue_app_id`: two contexts with one `associateUeAppId`, which
  clients choose, leave the maps with different sizes. (The debug build stops
  at the second creation.)
- `mx2_reordered`: two threads change a route and post their notifications in
  the other order; the manager keeps the older edge router for good.
- `mx2_early_notification`: a notification overtakes the answer to the creation
  of its context, is refused by the manager, and the context is purged that
  `contextCreate` then returns.

The others are stated in the modules where they say what a comment or an
assertion claims, and TLC finds each at once when it is checked in the
configuration named:

| Property | Configuration | What happens |
| --- | --- | --- |
| `NotifiesOnlyWithCallback` | `ProxyDebug.cfg` | a context without a callback reference is notified |
| `ExistsMeansListed` | `ProxyDebug.cfg`, `AppInfo <- NamesWithPlus` | a `+` in names makes two applications one |
| `FailedPostRemoves` | `Mx2System.cfg` | a POST that throws leaves the context |
| `DestructorDeletesAll` | `Mx2System.cfg` | a context whose creation was not answered, or whose manager crashed, stays |
| `CreatedMeansAuthorized` | `Mx2Server.cfg` | a refused request that looks like a response is answered 201 |
| `UpdatedMeansPresent` | `Mx2Server.cfg` | an update ignores the context id |
| `TypeAssertionHolds` | `Parts.cfg` | a context and the application in it are of different kinds |
| `EveryCommandAnswered` | `Console.cfg` | a listing of nothing writes nothing |
| `OKMeansDone` | `Console.cfg`, `Script <- WithLong` | too long a name is answered OK |
| `OneAnswerEach` | `Console.cfg`, `Newline = {FALSE}` | a last line without a newline is executed twice |
| `NoDefaultEdgeRouter` | `Parts.cfg` | a star in the file is a default edge router |
| `NotLockedWhenNotifying` | `Locks.cfg` | another thread holds the mutex asserted not to be locked |
| `CommandAssertionHolds` | `Parts.cfg` | an API root that is not a URI reaches an assertion |
| `SameKeysMeansSame` | `Parts.cfg`, `ActionName <- WithSlash` | a slash in names makes two keys one |

## What is proved

Every theorem holds for all sets of clients, routers, callbacks, contexts,
applications and threads. Those on the specifications of the static proxy and
of what is built on it hold for both builds.

| Module | Theorem | Statement |
| --- | --- | --- |
| `StaticUeAppLcmProxy_proofs` | `TypeCorrect` | `Spec => []TypeOK` |
| | `RoutesAlwaysCurrent` | `Spec => []RoutesCurrent` |
| | `IteratorsAlwaysValid` | `Spec => []IteratorsValid` |
| | `AlwaysIndexed` | `Spec => []EveryContextIndexed` |
| | `PendingAlwaysCurrent` | `Spec => []PendingIsCurrent` |
| | `MovedAlwaysNotified` | `Spec => MovedMeansNotified` |
| | `ProxyImplementsDirectory` | `Spec => ImplementsDirectory`, if `PlainNames` |
| | `ExistsAlwaysListed` | `Spec => []ExistsMeansListed`, if `PlainNames` |
| `Mx2System_proofs` | `SystemTypeCorrect` | `SystemSpec => []SystemTypeOK` |
| | `ContextsAlwaysMatch` | `SystemSpec => []ContextsMatch` |
| | `ManagerAlwaysHarmless` | `SystemSpec => []ManagerIsHarmless` |
| | `AlwaysInformed` | `SystemSpec => []InformedOrPending` |
| | `NeverOrphans` | `SystemSpec => []NoOrphans` |
| | `SystemRunsProxy` | `SystemSpec => Spec` |
| | `SystemImplementsDirectory` | `SystemSpec => ImplementsDirectory`, if `PlainNames` |
| `Mx2Server_proofs` | `ServerTypeCorrect` | `ServerSpec => []ServerTypeOK` |
| | `AnswersAlwaysTellChanges` | `ServerSpec => AnswersTellChanges` |
| | `ListedAlwaysServed` | `ServerSpec => ListedIsGrantedOrForbidden` |
| | `ServerImplementsDirectory` | `ServerSpec => ImplementsDirectory`, if `PlainNames` |
| `Console_proofs` | `ConsoleTypeCorrect` | `ConsoleSpec => []ConsoleTypeOK` |
| | `AssertionsAlwaysHold` | `ConsoleSpec => []ServerAssertionsHold` |
| | `AlwaysOneAnswer` | `ConsoleSpec => []OneAnswerEach`, if `EndsWithNewline` |
| | `OKAlwaysDone` | `ConsoleSpec => OKMeansDone`, if `ShortNames` |
| | `ConsoleImplementsDirectory` | `ConsoleSpec => ImplementsDirectory`, if `PlainNames` |
| `Locking_proofs` | `LocksOrdered` | `Spec => []LockOrder` |
| | `NeverWaitsLocked` | `Spec => []NothingHeldWhileWaiting` |
| | `NeverDeadlocks` | `Spec => []NoDeadlock` |
| `StaticFileUeAppLcmProxy_proofs` | `LastAssociationCounts` | `FileSpec => []LastAssociationHolds`, if `FilesOK` |
| | `ConstructorRunsProxy` | `FileSpec => Spec`, if `FilesOK` |
| `Mx2Flow_proofs` | `ListedAlwaysBecomesRequest` | `FlowSpec => ListedBecomesRequest` |
| | `ResponseAlwaysKeeps` | `FlowSpec => ResponseKeepsRequest` |
| `Clients_proofs` | `LastValueAlwaysCounts` | `ChatSpec => []LastValueCounts` |
| | `SameKeysAlwaysMeansSame` | `ListerSpec => []SameKeysMeansSame`, if `PlainActionNames` |

### Assumptions

On the constants, stated where they are declared and evaluated by TLC in the
runs: `Nil`, the empty string and the other special values are not among the
ordinary ones (`NilAssumption`, `StringAssumption`, `LockingAssumption`, and
`ManagerAssumption` for the URIs of a manager, `MessageAssumption` and
`ObjectAssumption` for what a field of a message can be); applications, bodies,
objects written by other programs, scripts and forms have the form the modules
give them (`AppInfoAssumption`, `BodyAssumption`, `OthersAssumption`,
`ScriptAssumption`, `LineAssumption`, `FormAssumption`); a build has assertions
or not (`BuildAssumption`).

On the inputs, as hypotheses of the theorem:

| Hypothesis | Says | Without it |
| --- | --- | --- |
| `PlainNames` | no application name or provider has the separator `+` | two applications have one key: `ExistsMeansListed` under `NamesWithPlus` |
| `EndsWithNewline` | the last line of the input ends with a newline | it is executed twice: `OneAnswerEach` under `Newline = {FALSE}` |
| `ShortNames` | `AppInfo` accepts the names of lambda functions | too long a name is answered OK: `OKMeansDone` under `WithLong` |
| `PlainActionNames` | no action name has a slash | two actions have one key: `SameKeysMeansSame` under `WithSlash` |
| `FilesOK` | files are finite sequences; the associations in them are about clients, names and routers of the instance | only says what a file is; files that end within an association are included |

The instances of the runs `proxy_debug`, `proxy_release`, `console` and `parts`
satisfy them.

### The static proxy

The inductive invariant is `IInv == TypeOK /\ IteratorsValid /\
EveryContextIndexed /\ RoutesCurrent`. Types alone are not inductive:
`updateContext` writes through an iterator, and through a dangling one it would
put a descriptor of no context in the map; so `TypeStep` needs
`IteratorsValid`. `RoutesCurrent` is inductive because a change of one entry
leaves each route as it was or makes it the new entry (`RouteAfterChange`): a
context whose route differs from what it recorded can only have moved to the
argument of the call, and that is why `associateAddress` may write it to all of
them (`AssociateRoutes`). The lemmas `AssociateEffect`, `RemoveEffect`,
`CreateEffect` and `UpdateEffect` say once what each action does to the
contexts, `ContextSteps` sorts the actions by it, and each invariant is then
proved over those cases. `PendingIsCurrent` and `MovedMeansNotified` rest on a
second sorting, `QuietOrAnnounced`: a step either announces nothing and moves
no context, or is a change of the table that announces exactly its moves.

### The refinement of the directory

A grant in `ContextDirectory` is to a registered application, a grant in the
proxy to one whose mangled key is present. The two agree when the mangling is
injective, which it is when no part has the separator, and when the registry
holds each application under its own key (`OwnKeys`). That the entry of the
directory follows that of the table uses `RoutesCurrent`: the directory has no
recorded routers, only the table to compute them from.

The same holds of the proxy where it is used. In the system its steps are steps
of `Spec` (`SystemRunsProxy`); so are those of the constructor that reads a file
(`ConstructorRunsProxy`). The REST handlers and the gRPC server add one
way each in which the process can end, an assertion on the kind of a message and
one on the sizes of the maps (`ServerSteps`, `ConsoleSteps`), which is no event
of the directory (`DeadDirectory`).

### The proxy and the manager

`SystemInv` has two layers. `Core` holds under every fault: the invariant of the
proxy, and of every UE application id where it is mentioned (`Phases`,
`Exchanges`, `Ownership`, `Mail`): a context of the proxy, a context of the
manager, an answer under way and a notification that name one UE application id
name one context id, with the callback reference the manager made for it.
`ContextsMatch` and `ManagerIsHarmless` follow, the second because an id that is
used again is one that nothing mentions. Above it, without losses: `Told`
compares what the manager hears last about a context with what the proxy
records, through every message under way; `Accounted` says which contexts the
manager does not know yet, or is about to delete. `InformedOrPending` follows
from `Told` with `PendingIsCurrent`; `NoOrphans` is part of the invariant.
`SystemRunsProxy` says that the steps of the system are steps of the proxy, so
that the theorems about `Spec` hold of it too.

### The REST handlers

Every step of the server is a step of the proxy or leaves it alone, so `IInv` is
an invariant of `ServerSpec` (`ServerInductive`). `AnswersAlwaysTellChanges`
follows handler by handler, whatever body is sent. `ListedAlwaysServed` needs besides
that an application is stored under its key (`StoredUnderKey`), so that what was
listed is found.

### The consoles

`InputOK` says that what is left to read is a tail of the script and that the
line last read is a line of it; `CallsOK`, that a call is one that a line of the
script asks for, checked by the client. `Sessions` says of the lines dealt with what
`OneAnswerEach` says of all: there is an increasing map from the answers written
to these lines that meets every one but listings. A line more either leaves the
map as it is (`ListingPassed`) or extends it by its last answer (`OneMore`). At
the end of the input nothing is left to deal with, because a stream that is not
good has no line in hand. `DoneInv` adds to the types the registry (only applications of
lambda functions, under their keys) and, for each call that waits for its
notifications, that the table or the registry is as it asked (`Served`), as long
as no other console is in use.

### The mutexes

An operation is a sequence of steps; `Annotates(h, p)` says that the sets `h` of
mutexes held before each step of `p` fit its locks and unlocks, that locks are
taken in order and that a wait finds none held. Every operation has an
annotation (`Disciplined`), and the invariant is that each thread holds what the
annotation has at its place (`InStep`). The three theorems read it off there;
for `NoDeadlock`, whoever waits, waits for a thread that can go on or that waits
for the mutex of the registry, the last in the order, whose holder can.

### The messages

The constructors of `AppInfo` and `AppContext` build an object from strings,
dropping the empty ones, and throw on others. `Built` says of what was built
that it is accepted by the constructor from JSON and that each getter returns
the string given; `InfoStrings`, that what that constructor accepts, whoever
wrote it, has strings where the getters look; `NewContext` says the same of
contexts. With these, a conversion is a read followed by a build (`RequestMade`,
`ResponseMade`). The invariant `FlowInv` is the type of a message: a record of
`InfoObject` or `ContextObject`, valid or not.

### The parts

`ChatInv`: the loop of the chat front-end moves its iterator by one or by two.
Whether a word is a keyword to it depends on how many keywords are right before:
an even number of them (`EvenRun`) are keywords with their values. The invariant
is that this number is even wherever the loop stands, that the word before is no
keyword waiting for a value, and that the values found are the last ones in the
words read (`foundUpTo`). A value that looks like a keyword is none because a
run of keywords cannot be both even and odd (`ValueIsNoKey`).

`FileInv`: after a multiple of three tokens the table is what those tokens make
it, and the rest of the file is what remains. `PlainList`: the names in the map
of the lister have no slash; the last slash of a key then separates its parts
(`SplitSlash`), and two keys with one string are equal (`ToStringInjective`).

### What the proofs showed about the model

- `NoOrphans` was stated for any proxy. The attempt stopped at one that dies
  while a deletion is under way (`associateAddress` for another client finds a
  context without a route); the run has two clients now, so that this happens.
- `rpcAssociateAddress` answered although the process had just died of that
  assertion; now there is no answer.
- `OKMeansDone` wanted the route of every context of the application to equal
  the router it records. A context that `removeAddress` has left without a route
  records the empty string; the property is now about contexts with a route.
- `Locking` had its operations as a recursive operator, and deadlock as
  termination only. They are sequences now, and `NoDeadlock` is a property of
  its own.
- The way of a message was an instance with one string for each field. `Mx2Flow`
  has sets of strings, and what other programs write is any object of the type;
  `ListedBecomesRequest` says now that the description and the id are kept too.

### Only model-checked

Liveness under fairness is out of the prover's reach: `StaleIsTransient`,
`OrphanEnds`, `TableCallReturns`, `EverySessionEnds`, `EveryCallReturns`. Every
invariant and every action property of the runs is a theorem. The provers do not
know that a literal string is a member of `STRING`; where a proof needs it, the
set is extended by the literal (`STRING \cup {"+"}`).

## Not modelled

`PROJECT.json` gives the status of every component. Left out:

- `TrivialUeAppLcmProxy`: a stand-in for tests that answers what it is told to;
- `EtsiMecOptions`, `utils`, `EtsiMecServer`: command-line options and the
  composition of URIs from strings;
- the `Invoker` and `Command` of `OpenWhisk`: one request whose answer is
  returned, and a holder of strings;
- `ueapplcmproxymain` and the command lines of the other executables: they
  construct the parts and wait;
- logging, printing and formatting throughout, and the internals of the absent
  submodule (HTTP, gRPC, UUIDs), which appear only as the code uses them;
- the destruction of a proxy that is still serving: it would be decided by the
  destructor of the absent server class.

## What is left

The five liveness properties hold for the instances of the runs; the argument
that they hold for every instance would be a measure that decreases with every
step of a thread (notifications left, lines left, steps left), which cannot be
combined with fairness in this prover. Hazards without a property have a note in
`PROJECT.json` that says why: most are findings, where the code does something
else than it says, or are decided by the absent submodule.
