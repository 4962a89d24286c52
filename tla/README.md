# DeepPilot, formally

TLA+ models of [dsh-deeppilot](../src/README.md), the plugin that connects the DeepPilot
phone app to a DSH Host, with TLC configurations that check them on small instances and
proofs, checked by TLAPS, of what matters most.

Every definition is a translation of the TypeScript under `src/src`; `PROJECT.json` maps
each one to the lines it stands for. Line numbers below are of that source.

1. [The system](#the-system)
2. [Modules](#modules)
3. [Runs](#runs)
4. [Bounds](#bounds)
5. [Fairness](#fairness)
6. [Proofs](#proofs)
7. [Disagreements met while modelling](#disagreements-met-while-modelling)
8. [What is not modelled](#what-is-not-modelled)
9. [Plan](#plan)

To check: `tlc -workers 2 -config MCDispatchJournal_delivery.cfg MCDispatchJournal` (each run
of `PROJECT.json` likewise); `tlapm DispatchJournalProofs.tla` (each module that ends in `Proofs`
likewise).

## The system

A phone pairs once, with a code shown on the settings page, and then speaks a JSON protocol
over a WebSocket, on the LAN (TLS with a pinned identity) or through a Tailscale Funnel. The
plugin runs in the single-threaded Host process, so a handler is atomic *between* its
awaits; what makes the system hard is what may happen *at* each `await`, what two ends of a
connection believe of each other, and what survives a crash or a reload.

| Component (source) | State | Operations | What makes it correct |
|---|---|---|---|
| **Dispatch journal** (`dispatch-journal.ts`) | table of receipts in memory and in a file; operations in flight | `dispatch`, `lookup`, constructor, `persist` | one request is called at most once across retries, crashes and reloads; "notFound" is safe to retry on; its own file is readable (but for one code, see the disagreements) |
| **Preview tunnel** (`preview-tunnel.ts`, `wire-preview.ts`) | grants, streams with two windows each, pending data, one timer | authorize, open, data, credit, close, socket callbacks, dispose | windows are conserved, streams of one id do not mix, `eof` comes last, no socket leaks, nothing stalls |
| **Event subscriptions and resume** (`connection.ts`, `wire-session.ts`, ring of `host-bridge.ts`) | ring of numbered frames, interest sets, open buffers, outbound buffer | record/push, open, close, watch, resume, slow-client close | a phone misses no frame it is owed and is never rolled back; no buffer is kept for ever |
| **Admission** (`auth-rate-limit.ts`, `connection-gate.ts`, `index.ts` upgrade and pairing) | table of sources, pending upgrades, gates, hello timers | upgrade, hello, proof, pairing, timeout, close, sweep | places are given back exactly once; rates and blocks hold; nobody is locked out without a reason |
| **Device registry** (`token.ts`, `device-auth.ts`) | devices, scopes, push tokens; one file behind a chain of writes, which a reload does not wait for | pair, revoke, scopes, push tokens, load | the file catches up; a token has one owner; a revoked device is no target |
| **Authority of open sockets** (`index.ts`, `wire-device.ts`, `connection-gate.ts`) | what each socket copied from the registry | scopes, revoke, unbind, pair, prove, close | no socket acts with rights its device no longer has |
| **LAN transport** (`transport-reconciler.ts`, `phone-server.ts`) | a chain of reconciles, one listener | settings change, stop, load, listen, dispose | one listener; the status is true; every change ends in the listener asked for or in a reported error; nothing is left after dispose |
| **Funnel transport** (`transport-reconciler.ts`, `remote-supervisor.ts`) | the same chain, a supervisor, a helper process | the same, spawn, exit, restart | one helper, no orphan, the helper comes back |
| **Host bridge, DSH API proxy** (`host-bridge.ts`, `dsh-api-proxy.ts`) | mirror of the session list, the rows sent last and their timers, readings under way; pending approvals and questions, the proxy's table of interactions and its queue | host and mux frames, `refreshSummaries`, `pushSummary`, `archiveSession`, `respondApproval`, `respondQuestion`, `loadApprovalArguments` | phones have the rows of the mirror, the mirror those of the Host; a card that is shown can be answered; badges count what waits |
| **Push gateway, Live Activities** (`push-gateway.ts`, `widget-push.ts`, `live-activity.ts`, `wire-push.ts`) | relay credential, scheduler, what was sent last; the registration of a device | register, unregister, flush, enroll, heal, session change | the phone has the last word; a round that is over stays over and is ended; a late refusal drops only the credential it is about |
| **Plugin update** (`plugin-update.ts`, `wire-plugin-update.ts`) | a cell of the process that survives a reload, a journal, observers | `check`, `apply`, `prepare`, `run`, `recover`, constructor | a request installs at most once, one at a time; what a phone was told is what a restart finds; the end is known |
| Host events, quiet completion, schedules, diagnostics, TLS identity, reports, wire formats, settings page, helper (Go) | small or none | | |

Interactions. Requests of a phone pass the gate (`ConnectionGate`), which copies identity and
scopes from the registry (`DeviceRegistry`, `DeviceAccess`), and reach a handler registered in
`wire-*.ts`. Handlers that must not run twice go through a journal (`DispatchJournal`) to the
host bridge. Host events come the other way: numbered into the ring, filtered by what each
connection has open or watches, held back while a session is being opened (`EventReplay`); among
them the rows of the session list and the approvals and questions that wait (`SessionMirror`). A
change of the list is also what Live Activities are pushed about (`LiveActivityPush`), through
the gateway whose relay credential notifications share. The plugin can replace itself on
request (`PluginUpdate`), which unloads everything above. A preview connection carries frames of many TCP streams (`PreviewTunnel`). Both transports feed
the same upgrade handler; the settings page changes settings (`LocalTransport`,
`RemoteTransport`) and devices.

`PROJECT.json` lists the hazards of this code, each at its line, with the properties that
cover it, or why none does.

## Modules

| Module | Stands for | State to code |
|---|---|---|
| `DispatchJournal` | `DispatchJournal` and its codecs, for both kinds of journal (prompts join a running duplicate, mutations do not: `JoinInFlight`) | `entries`/`disk` are the table and the file, `inFlight`/`waiting` the running operations and those who joined them, `damaged` a file the journal did not write, `calls`/`applied` what reached the upstream |
| `AtMostOnceDelivery` | the contract: what a phone may rely on, without files or clocks | `receipt`, `calls`, `retired`, `serving` |
| `DispatchJournalProofs`, `DeviceRegistryProofs`, `PreviewTunnelProofs`, `RemoteTransportProofs`, `SessionMirrorProofs`, `PluginUpdateProofs` | the theorems about the module of that name | |
| `AdmissionProofs` | the theorems about `ConnectionGate`, with its limiter, about `DeviceAccess` and about `LocalTransport` (whose `AccessInit`, `LocalInit` ... are named apart for it) | |
| `PhoneDeliveryProofs` | the theorems about what reaches the phone: `LiveActivityPush` and `EventReplay` (whose `ReplayInit`, `ReplayNext` ... are named apart for it) | |
| `PreviewTunnel` | `PreviewTunnel`, its callbacks and timer, and the phone at the other end | `streams` with their windows, `toPhone` the frames under way in order, `writes` the write callbacks under way, `connecting` the opens at their await, `view` what the phone has under each id |
| `EventReplay` | the ring, `accepts`, `push`, open buffers, `onAuthenticated`, `resumeFrom` | `log` every frame numbered in this life (the ring is its end), `opening` the open buffers, `reads` the opens at their await, `copy`/`cursor`/`page` the phone |
| `AuthRateLimiter` | the limiter, its methods as functions of its state | a record per source; EXTENDed by |
| `ConnectionGate` | upgrade, gate, hello timer, proof, pairing, sweep | `gates[r]` is one request from arrival to the close of its socket |
| `DeviceRegistry` | `DeviceStore`, the chain of writes, the handlers that wait between reading and changing it | `registry[k]` the memory of each store, `newest` the one in use, `file` disk, `queued`/`writing` the chain of each, `waiting`/`pushes` what is under way and the store it began with |
| `DeviceAccess` | who drops which socket | `sockets[s]` with the device and scopes the gate copied |
| `LocalTransport` | the reconcile chain for the LAN row | `run` the reconcile under way and what it awaits, `listener` each instance with its server and its phones |
| `RemoteTransport` | the same for the Funnel, supervisors and helper processes | `supervisor[i]`, `helper[h]`, `run`, `disposer` |
| `SessionMirror` | `refreshSummaries`, `pushSummary`, host and mux frames, the answers of phones, the proxy's table of interactions | `host` the sessions as they are, `readings` the calls of `refreshSummaries` at their awaits, `summaries`/`pushed`/`timers` the mirror, `interactions`/`muxFrames` the proxy, `pending`/`claims` the bridge, `phoneList`/`cards` the phones |
| `PluginUpdate` | `PluginUpdater`, its two requests, the package manager of the Host | `records`/`active`/`healthy`/`running` the cell, `disk` the journal, `task[r]` what the operation of a request awaits, `installed`/`loaded` the Host, `acked`/`told` what phones heard |
| `LiveActivityPush` | the Live Activity of a device, its registrations, the scheduler and its flush, the relay credential | `slot` the registration in the registry, `registering` the handlers at their await, `timer`/`dirty`/`flush` the scheduler, `sent` the fingerprints, `cell`/`valid` the credential here and at the relay, `delivered` the phone; `brought`, `withdrawn` and `forgotten` are history: what the phone registered, what it took back, and what the bridge let go of by itself |

An action is a handler from one await to the next. The action before an await ends by writing
what the handler remembers (`reads`, `connecting`, `waiting`, `run.at`); the action after it
starts from there and reads everything else afresh, as the code does. Private methods that are
called from several handlers are operators on the part of the state they change
(`Flush`, `CloseStream`, `Settle`, `Prune`, `WithReservation`).

What the environment may do is in the modules too: the process crashes, a save fails before or
after its rename, the file is damaged, the clock is set back, a service ends or resets, a
phone drops, closes, opens again, breaks the rules (`Honesty`), a helper dies or reports late,
a port is taken.

A definition named `X_Fault` is `X` with a plausible mistake. The specifications do not use it;
`PROJECT.json` says which property finds it when it replaces `X`, so that every property is
known to be able to fail.

## Runs

| Run | Question | Properties |
|---|---|---|
| `delivery` | Three identities, born at different times, compete for two places, while saves fail, the process crashes, the file is damaged, and the clock goes forth and back. Prompts answer with a code that `parse` does not list. Is anything called twice, can the journal read its file otherwise? | `AtMostOnce`, `NotFoundMeansNeverCalled`, `ReadsItsOwnFile`, `ContractSpec` (refinement) |
| `tunnel` | An honest phone and an arbitrary one, an id used twice, closes at any time, a short send buffer. | `WindowsConserved`, `StreamsDoNotMix`, `EofMeansComplete`, `NoSocketLeaks` |
| `flow` | Four chunks against a window of two and a send buffer of one. Does flow control ever wedge? | `FlowGoesOn` |
| `replay` | Two connections, two bridge lives, a ring and a replay limit that are too short, opens that fail, are replaced or come late. | `GlobalsReachPhone`, `CopiesUpToDate`, `NoRollback`, `NoRevival` |
| `mirror` | One session, an approval and a question; two readings of the list overlap, two phones and an official client answer. | `PhoneMirrorsList`, `MirrorCatchesUp`, `CardsAreAnswerable`, `BadgeIsRight` |
| `gate` | Three requests from two sources, of which the table holds one. | `SlotsConserved`, `AdmittedByTheRules`, `RefusedForAReason`, `PlaceComesBack` |
| `registry` | Two phones and a push token that moves between them; writes that overlap mutations and fail; restarts; a reload that leaves the old store and what it has under way behind. | `NothingUnsaved`, `OneOwnerPerToken`, `RevokedIsNoTarget` |
| `access` | Three sockets in any state, two devices, every way to change a right. | `AuthorityIsCurrent` |
| `live` | Two phones and two registrations, a session that ends or starts again, and one mishap: a push that fails, a token that is refused, a connection that is lost, an activity that expires or a right that is withdrawn; a credential that is replaced. | `LastWordHolds`, `OverStaysOver`, `CredentialIsKept`, `EndIsDelivered` |
| `update` | A phone asks twice for a version; the copy that installs is unloaded, the Host dies, writes fail, the journal is damaged. | `InstallsOnce`, `WordIsKept`, `DoneIsTrue`, `EndIsKnown` |
| `local` | Three changes of the settings, failures, phones that stay or leave, a dispose at any moment. | `OneListener`, `NothingStaysOpen`, `StatusIsRight`, `ChangesAreApplied` |
| `remote` | Two changes of the settings, before or after the origin listens; helpers that are missing, cannot be launched, crash, report late, are killed; a dispose at any moment. | `NoOrphan`, `FunnelIsTended`, `HelperComesBack` |

What the properties say is beside their definitions. The ones worth arguing about:

- `NotFoundMeansNeverCalled`: the app takes "notFound" as leave to send again. So `dispatch()` may
  forget a called identity only when `lookup()` will say "expired" of it, for every clock there may
  be: the grace in the sweep (`:273`) and the absence of one in `expired()` (`:263`) belong together.
- `WindowsConserved`: send window, frames under way, data not yet given back and write callbacks
  under way add up to the initial window, in both directions, for every stream the phone knows.
- `GlobalsReachPhone` and `CopiesUpToDate` hold over ring, filter, buffer and resume together. They name
  what they leave out (`mistaken`, `discarded`, `overtaken`, `replaced`); each of these is a disagreement.
- `RefusedForAReason` is the other half of a rate limit: with a free place, a rate to spare and no block a
  source gets in, whatever the bounded table forgot.
- `AdmittedByTheRules` is the other direction, kept from the history of what every source really did: nobody
  gets in against a rate or before a block is over, although the table forgets sources. The limits on open places
  are guards, which no property restates; that the places are counted right is `SlotsConserved`.
- `PhoneMirrorsList` makes `summaryPushed` honest: it is written by single rows, by the timer of the
  statistics, by whole lists and by removals, and decides which row is *not* sent.
- `MirrorCatchesUp` and `BadgeIsRight` name what they leave out (`mistaken`, `unbumped`), and
  `CardsAreAnswerable` leaves out `stranded`: these are disagreements too.
- `WordIsKept`: a write that fails behind its rename is on disk though the copy in memory was put back. A phone
  hears of an end only when its save returned, so whatever a later process reads agrees with it.
- `EndIsKnown` needs all of `recover()`: the operation may be lost with the process, or neither its result nor its
  failure may have been written.
- `LastWordHolds` is about the generation guard of registrations that wait for the relay, `EndIsDelivered` about a
  scheduler that must remember a change that comes during a flush.
- `OverStaysOver` and `EndIsDelivered` name what the code does not keep: a mark of the end that goes with a registration
  the bridge lets go of (`forgotten`), the last state that was sent as an update, and a bridge that stays without a
  credential. Each is a disagreement.
- `StatusIsRight`, `FunnelIsTended`: once the chain has run dry the transport is what the settings say.
- `ChangesAreApplied`: a change is *carried out*, which means that the listener is that of the settings (or there is none),
  or the status reports that the last attempt failed. `FunnelIsTended` and `HelperComesBack` name the two ways in which the
  code gives a helper up: a spawn that failed, and settings that were there before the origin listened.
- `ReadsItsOwnFile`, `NothingUnsaved`: each names the one way in which the code fails it (`Unlisted`, `overwritten`); without
  the exception they are disagreements.

## Bounds

The instances are small but make the limits bite.

- `DispatchJournal`: capacity 2 with 3 identities, so that the table is full; retention and grace of 1
  over 5 instants, so that an identity is born, expires, is swept and is too early ("in the future")
  within a run. `MaxStepBack` = `Grace` is the assumption of the theorems at its limit.
- `PreviewTunnel`: a window of 2 chunks and a send buffer of 1, 3 chunks per stream in `tunnel` and 4 in `flow`: all three
  reasons to stop (window, buffer, pause) occur, the window runs out and `credit()` widens it again. Two opens of one
  id give reuse of the id in `tunnel`; two frames suffice for an arbitrary phone to overtake an answer. `flow` has one
  stream, which is what liveness checking affords.
- `EventReplay`: a ring of 1 with 3 frames per life loses frames; a replay limit of 1 is exceeded by 2
  missed frames; a queue of 3 overflows. Two lives, two connections and two opens are one more than needed
  for every race of the code. One session: sessions share nothing but the numbers, which `RecordGlobal`
  covers.
- `ConnectionGate`: windows of 1 and 2 instants, a block of 2, over 4 instants; a table of one source, so
  that every visit of the other makes it forget. Nothing arrives after `LastArrival`, so that `PlaceComesBack`
  has time to be refuted.
- `DeviceRegistry`: two stores, the one in use and one a reload left behind; five writes that handlers ask for in a run,
  enough for a device that pairs, registers and is revoked to meet a late write of the old store; one push and one
  registration under way.
- `LocalTransport`, `RemoteTransport`: three and two changes of the settings; three listeners and two
  helpers/supervisors are as many as can be referred to at a time (a further one would wait for a name).

- `SessionMirror`: two readings under way are what "overtaken" needs; two changes of the Host, so that one comes
  behind the reading of a list and one before; one approval and one question of one session, since badges of
  sessions share nothing, and two phones, since the first to answer takes the request from the second. The
  transport fails for the approval only (`TransportFails`), whose arguments may still be under way.
- `PluginUpdate`: two requests of one phone compete for the place; two processes and two failing writes: a crash
  after a failed write is the worst case of every property. The journal has two places, so it is full.
- `LiveActivityPush`: two registrations are two activities, or one whose token rotates, or one on each of two phones, so that a
  flush lists both; a round that begins running or ended and one change of the session; one mishap (a failed call of the
  relay or a refused token, a lost connection, a withdrawn right, an expiry) and a second credential each meet every
  await. The theorems hold for any number.

Clocks, frames and changes are bounded in the guards, so these models stop: their configurations switch the
deadlock check off (in `update` an operation that is over and a bounded number of processes leave nothing to do; in
`live` the same holds of registrations). The models of `delivery`, `registry`, `access`, `mirror`, `tunnel` and
`flow` never stop, and it is on. Symmetry is used only for safety (`access`, `registry`, `mirror`).

## Fairness

Liveness is stated only where the code has somebody who will act.

- `PreviewTunnel`: the flush timer fires (`:258-265`); a connect ends, since `connectOne` has a timeout; a
  write callback runs; the phone reads its frames and returns credit for what it read (an honest phone; the
  code cannot make it).
- `EventReplay`, `SessionMirror`: none; their properties are about what is so whenever nothing is under way.
- `PluginUpdate`: the calls of the package manager return, a copy of the plugin is loaded again and a Host that
  died is started again. Phones come back and ask (`check`, which runs `recover()`) again and again also when
  no update is under way: without anybody who asks, an interrupted update stays as it is (`plugin-update.ts:250-252`
  and `:291` are the only callers of `recover()`), which is what the code is meant to do.
- `LiveActivityPush`: the timer of the scheduler fires and the relay answers or its call times out. No more:
  nothing makes notifications or registrations come, and when the enrollment after a refused push failed only they try
  again (`push-gateway.ts:197-201`, `:293`), a flush does not (`:568-569`). `EndIsDelivered` is therefore said of runs in which
  the bridge does not stay without a credential for good.
- `ConnectionGate`: time passes, and a hello timer that is due fires. Nothing is assumed of the socket.
- `LocalTransport`: promises settle (load, listen, and `server.close` of a server without phones). The code waits for the
  last phone in `closeServer` (`phone-server.ts:120-123`) and does not make it leave, so nothing is assumed of phones;
  `ChangesAreApplied` has it as a premise (`PhonesLeave`).
- `RemoteTransport`: promises settle, timers fire, a killed helper exits. A helper binary that is looked for
  again and again is found (strong fairness of `HelperFound`): without it a supervisor looks for ever, which is
  what the code is meant to do.

## Proofs

Eight modules hold theorems, for every value of the constants: every set of identities, devices, sockets,
tokens, listeners, sessions or requests, every capacity, time window and bound, any number of steps.

| Module | Theorem | States |
|---|---|---|
| `DispatchJournalProofs` | `TypeCorrect` | `Spec => []TypeOK` |
| | `CalledAtMostOnce` | `MaxStepBack <= Grace => (Spec => []AtMostOnce)` |
| | `LiveEntriesAreKept` | `Spec => LiveEntriesStay`: capacity never evicts an entry, only age does |
| | `NotFoundIsReliable` | `MaxStepBack <= Grace => (Spec => []NotFoundMeansNeverCalled)` |
| | `OwnFileIsReadable` | `Spec => []ReadsItsOwnFile`, for any codes, listed or not |
| | `ContractIsKept` | `MaxStepBack <= Grace => (Spec => ContractSpec)`: the refinement of `AtMostOnceDelivery` |
| `DeviceRegistryProofs` | `FileCatchesUp` | `Spec => []NothingUnsaved` |
| | `TokenHasOneOwner` | `Spec => []OneOwnerPerToken` |
| | `RevokedGetsNothing` | `Spec => []RevokedIsNoTarget` |
| `AdmissionProofs` | `PlacesAreConserved` | `Spec => []SlotsConserved` |
| | `SourcesAreAdmittedByTheRules` | `Spec => AdmittedByTheRules` |
| | `SourcesAreRefusedForAReason` | `Spec => []RefusedForAReason` |
| | `GateTypeCorrect` | `Spec => []TypeOK`, with at most `MaxUnauthenticated` places per source |
| | `AccessTypeCorrect` | `AccessSpec => []AccessTypeOK` |
| | `AuthorityFollowsRegistry` | `AccessSpec => []AuthorityIsCurrent` |
| | `OneListenerOnly` | `LocalSpec => []OneListener` |
| | `NothingListensAfterDispose` | `LocalSpec => []NothingStaysOpen` |
| | `StatusIsThatOfTheSettings` | `LocalSpec => []StatusIsRight` |
| `PreviewTunnelProofs` | `TypeCorrect` | `Spec => []TypeOK` |
| | `WindowsCorrect` | `Spec => []WindowsConserved` |
| | `StreamsCorrect` | `Spec => []StreamsDoNotMix` |
| | `EofCorrect` | `Spec => []EofMeansComplete` |
| | `SocketsCorrect` | `Spec => []NoSocketLeaks` |
| `RemoteTransportProofs` | `SafeTransport` | `Spec => []IInv`: the inductive invariant itself |
| | `NoHelperIsLeftBehind` | `Spec => []NoOrphan` |
| | `FunnelStaysTended` | `Spec => []FunnelIsTended` |
| `SessionMirrorProofs` | `MirrorTypes` | `Spec => []TypeOK` |
| | `PhonesMirrorTheList` | `Spec => []PhoneMirrorsList` |
| | `MirrorIsRight` | `Spec => []MirrorCatchesUp` |
| | `CardsCanBeAnswered` | `Spec => []CardsAreAnswerable` |
| | `BadgesAreRight` | `Spec => []BadgeIsRight` |
| `PluginUpdateProofs` | `UpdateTypes` | `Spec => []TypeOK` |
| | `InstalledOnce` | `Spec => []InstallsOnce` |
| | `WordHolds` | `Spec => []WordIsKept` |
| | `EndsAreTrue` | `Spec => DoneIsTrue` |
| `PhoneDeliveryProofs` | `LastWordIsKept` | `Spec => []LastWordHolds` |
| | `CredentialStays` | `Spec => CredentialIsKept` |
| | `RoundsStayOver` | `Spec => OverStaysOver` |
| | `Invariant` | `ReplaySpec => []ReplayInv`: the inductive invariant of replays itself |
| | `TypeCorrect` | `ReplaySpec => []TypeOK` |
| | `GlobalsDelivered` | `ReplaySpec => []GlobalsReachPhone` |
| | `CopiesCorrect` | `ReplaySpec => []CopiesUpToDate` |
| | `NeverRolledBack` | `ReplaySpec => []NoRollback` |
| | `NeverRevived` | `ReplaySpec => []NoRevival` |

They assume what the `ASSUME`s of each module say and no more: that identities, requests and devices of a
run are finite sets, that bounds are natural numbers, and that the value for "nothing" (`NoRecord`, `NoRow`,
`NoRequest`, `NoTarget`, `NoSlot`) is not one of the values it stands beside. The limiter adds `WindowAssumption`: the
window of admissions is no longer than a failure or a block counts, as in `DEFAULT_AUTH_RATE_POLICY` (one minute, ten
and fifteen). Without it a source could be forgotten while its admissions still count.

### The journal

`AtMostOnce` is not inductive: that an identity was called says nothing of whether it
can be called again. The invariant `IInv` adds

- `ClockInv`: the clock is behind its maximum by at most `MaxStepBack`;
- `FlightInv`: what is in flight has its entry, and the journal serves;
- `CalledInv`: a called identity is *remembered* (it has an entry in memory while the journal serves, and one in
  the file unless that is damaged) or *retired* (the highest clock is beyond its window and grace).

A dispatch that runs finds neither an entry nor an expired identity. If it had been called, it would be
retired by `CalledInv`; but retired, with the clock back by at most the grace, is expired (`RetiredIsExpired`).
So it was not called. `CalledInv` is preserved because the reservation is on disk before the call
(`Save` with "done"), because a sweep only takes what is beyond window and grace, and because a damaged
file makes the next process refuse new identities (`healthy`) for good. `NotFoundIsReliable` needs
`RequestInv` besides: entry and call of an identity have the same content, hence the same session.
`OwnFileIsReadable` rests on `FitInv`: no table, in memory or in the file, has more than `Capacity`
entries, which needs that a sweep and an answer never add one, and that a reservation is made only when
the swept table has room. A file that was refused had an unlisted code then, and has it still: a journal that is not
healthy changes nothing.

The assumption on the clock is of the environment and cannot be dropped: with `MaxStepBack > Grace` TLC finds a second
call. The exception of `ReadsItsOwnFile` cannot either, for prompts do answer with an unlisted code.

`ContractIsKept` is a refinement: `receipt` is mapped to what a restart would know of an identity (memory while the
journal serves, else the file), `retired` and `serving` to their counterparts. Each step is shown to be a step of
the contract or to leave its variables alone; a crash is the hard one. The invariant `ContractInv` adds

- `FileInv`: the file knows of an identity what memory knows, or less (nothing, or a call whose answer was not
  saved), unless the identity is retired; so what a crash forgets is an answer, which the contract allows, and
  never a call;
- `AnswerInv`: what is in flight was called and is recorded as "unknown", so that an answer is the first one.

The assumption about the clock is used once, where a sweep forgets an entry: it must be retired for good.

### The registry

`OneOwnerPerToken` and `RevokedIsNoTarget` look at the file, which any write under way will replace, also one of a store
that a reload left behind. So `TokenInv` states them of every *document*: the registry of each store, the file, and what
each store has serialised. A document only comes from a registry or from the file (a load), so it is enough that
each mutation keeps its registry in order: it takes a token from every other device, and a record that is revoked
loses its own. That the order of the writes does not matter is the point: the file may be an old document, but never one
that gives a token to two devices or to a revoked one.

`NothingUnsaved` speaks of an empty chain only; `SavedInv` adds what holds while the last write of the store in use is
under way: it has the whole registry, because whoever changes the registry queues a write behind it. A write of
another store is the exception (`overwritten`), until the store in use writes again. `FreshInv` says that a store that
was not loaded yet has nothing under way.

### Admission

The counter of a source goes up where a request is admitted and down where it ends, in five handlers. `SlotInv` ties the
two: a gate has its slot from the moment its socket is up until it settles, a pairing from its arrival to its end
(`GateOK`), and the table counts just those (`SlotsConserved`). A step of one request changes the set of holders by one
request (`ChangeFact`), and each method of the limiter changes the counter of one source and leaves those of the others,
although looking one up may prune or forget any of them (`VisitSlots`): who is forgotten holds nothing.

Rates and blocks need more, for the table forgets. `Agrees(state, entry, now)` says of a source that the table holds that
what it has of it, pruned now, is the history, and that its block is the one of the history where either still lasts;
of a source the table does not hold, that nothing of its history counts any more. Looking up, pruning, forgetting
(`StaleAgrees`: here `WindowAssumption` is used), the methods and the clock keep it (`AgreeInv`), and after a visit the
table *is* the history (`VisitedAgrees`). Both properties follow: admitted only by the rules, refused only for a reason.

The window is a filter, `Within`, defined by recursion over a sequence of instants. What it does for every sequence is
proved by induction, which the library states with an operator as a parameter; `LeastNat`, `SetInduction` and
`TimesInduction` state it with sets instead (a least counterexample in a well-founded order, then the two cases), and
`WithinIs` shows that the recursive definition has the one value it describes.

### The preview tunnel

Nearly every handler of the tunnel ends in one of three things: it sends a frame, it flushes what waits within the
send window, it closes a stream. A step is a composition of these on the tunnel's state, so there is an invariant
of that state alone, `Sound`, and a lemma for each of them that it keeps it; the lemma of a handler composes them.
`Sound` has two halves.

- `Shape` is the order of things. A serial belongs to one id; of an id the phone has, or will have when it has read what
  is under way, at most one stream that is open; the frames of a stream follow its "opened", and nothing follows
  its last; a socket is open as long as its stream is in the table.
- `Flow` is the counting. In both directions the window, what is under way and what was not given back yet add up to
  the initial window, stream by stream; what was read from the service and what the phone got differ by what waits and what is
  under way; and behind a last frame that says "eof" nothing is left (`EofOK`).

`Counted` bounds the serials by the requests, `Asked` says where each request is (at its connect or answered by a
frame, and of an honest phone at most one per id), `Ended` that nothing is left when the phone has disconnected.
All but the socket count holds for a phone that keeps the protocol (`honest`), as the properties do.

What is under way is a sum over a queue (`Total`), defined by recursion over its length, as is `FlushAll`, the flush of
all streams one by one. That the sum of a queue with one more frame is the sum and the frame's size, and that a queue
loses its first frame's size with it, is proved by the induction described above for `Within`.

### Open sockets

`AuthorityIsCurrent` needs two facts besides the types. `OpenIsListed`: index.ts lists every socket that has not
begun to close, so that a change of a device drops all that copied it. `DeviceIsKnown`: a socket's device is in the
registry, so that a device that pairs for the first time has no socket with other scopes yet.

### The LAN listener

`OneListener` and `NothingStaysOpen` follow from who has each listener in which state (`OwnerInv`): one that
listens is the reconciler's `instance`; one that is being made is in the hands of the one reconcile under way;
one that closes is waited for by that reconcile or by `dispose()`. `RunInv` says what the reconcile knows at
each await: while it loads or listens, the instance is its own or, after a dispose, nobody's. That
`dispose()` waits for its listener *and then* for the chain is what `DoneInv` rests on.

`StatusIsRight` speaks of a chain that has run dry. `StatusInv` says what holds at every await of a transport nobody
disposes of: a change that is not applied has a reconcile on the chain; a listener that is being made is the
instance and is made for the port of the target; between two reconciles the status written last is that of the
target applied last. The status and the key are written at different awaits, which is why the cases of the
await (`run.at`) appear in it.

### The Funnel helper

A supervisor that was stopped goes on: its search for a helper ends, its exit is analysed, its helper reports. So
`NoOrphan` needs to know who still refers to what:

- `ChainInv`: who holds a supervisor and who waits for an exit. The reconcile and `dispose()` wait only for the
  helper of a supervisor they stopped, never both, and while they do there is no instance;
- `SupervisorInv`: the one supervisor that is made and not stopped is the instance, and until it is stopped it does
  one thing at a time: it has a helper, looks for one, analyses an exit or waits to try again;
- `HelperInv`: a helper that runs is the child of its supervisor, or was killed and is waited for.

Hence (`RunningFact`) a helper that runs is the instance's, or is waited for and then there is no instance: two of
them are the same one. `FunnelIsTended` adds `KeyInv` (the instance was made from the settings applied last, and those
are the settings there are unless a reconcile is to come) and `WorkInv` (the instance always has something to do).
Both hold of an instance whose `start()` was called (`begun`). One that a change constructed before the origin listened was not,
and the reconcile of the origin finds its key unchanged: that is the exception the property names, and a disagreement.

### The session list

`RowInv` says of each session that the row sent last is the phone's, and that this is the row of the mirror
unless a timer is going to send other statistics: every writer of `summaryPushed` keeps it, because each
sends what it writes. `MirrorCatchesUp` depends on what a reading of the list still holds at its awaits:
`ReadInv` says that what was read of a session is still so unless the session changed behind the reading's
back (`behind`), and applying the reading makes exactly those sessions `mistaken`, so that `SeenInv`
survives. The set of archived sessions is read separately from the rows, and both halves are in the invariant.

`CardsAreAnswerable` and `BadgeIsRight` speak of a moment when nothing is under way. What makes them so is the
order of the frames of one request (`QueueInv`: asked before settled, each at most once) and, for each request, where
it may be while a frame or an answer about it is under way (`CardInv`): a request the Host still waits for, and whose
frame was handled, is shown, and it is pending or on its way back from an answer that failed in transport; a
request that is settled is `stranded` if anybody still has it after that frame. `BadgeInv` says the flags of a
row are right unless an answer to one of its requests is under way: every way out of an answer sets them
again, but the refusal (`unbumped`).

### The update

A process that dies forgets who was accepted, and a save that fails may be on disk all the same, so neither
memory nor file alone says what may be done again. `JournalInv` states it of what somebody outside relies on
(`Owed`: the request was carried out, or acknowledged, or its end was told): such a request has a record on
disk, and in memory too while the process serves; hence `apply()` never takes it up again. `TaskInv` ties the
operation to its record: it is that of the active request, whose record has no end while it goes on, and
until it reaches the package manager nothing was installed for it. `HostInv` says that a process that could not read
the journal has no records, which is why it may not serve. `WordIsKept` needs besides that a record that is
put back after a failed save never had an end that was told.

### Live Activities

`LastWordHolds` says that an activity that was taken back is not registered. What could bring it back is a registration
that waits for the relay; `PendingInv` says that one that may still succeed is not for an activity
withdrawn, and that there is at most one per device, since each registration leaves the others of its connection
behind. `OverStaysOver` is an action property that spans two awaits: a push is sent for a registration as the
flush listed it, and the phone may have been told the end meanwhile. `EndInv` says that an activity whose end was told
is over in the registry, unless the registry let go of it (`withdrawn`, `forgotten`), and `FlushInv` the same of what
the flush has listed: what was over then is over now, and what was not over is nothing whose end was told. What a step may do to the registry is reduced to one sentence: an
activity that leaves it is taken back or forgotten, and one that is over stays over (`RegistryStep`, `OverIsKept`). `NumberInv` says
that activities are named in the order they come, so that a registration takes back all before it. `CredentialIsKept` is an action property and needs no invariant: a credential is dropped
only by comparison with the one the failed call used.

### Events and replays

The properties look at a phone that has read everything (`CaughtUp`). Until then what it lacks is under way, in one of
three places: the frames on their way (`toPhone`), the buffers behind the tails (`opening`), or the ring, from which a
resume takes it. `ReplayInv` says what may be where. Its parts build on each other:

- the log is in order (`LogOK`), and what is under way or held back is a frame of the log, in that order session by session
  (`FramesOK`, `OrderOK`, `HeldOK`). Only the events of *one* session and the global frames are in order: a buffer that is
  released late puts older events of its session behind newer frames of others, which is where `ResumeLosesNothing` fails;
- a connection begins with its welcome, and its resync if there is one (`BeginOK`); a cursor of another life is renewed by
  that resync before a number is read (`LifeOK`), except where the code takes it for one of this life (`mistaken`). So what
  the cursor says is about this log (`CursorOK`);
- `GlobalsOK`: a global frame up to the cursor is one the phone has, and one that was sent (`Due`) it has, or it is under
  way, or a snapshot under way contains it. The second half is what a resume needs: frames a closing
  connection did not send are beyond every number that was sent, hence beyond the cursor. `GlobalsReachPhone` is
  `GlobalsOK` with nothing under way;
- `OpensOK`, `AnswersOK`: a buffer belongs to one open that waits; of a session whose opens did not replace each other there is
  one answer at most, and what precedes a tail is not newer than the tail. `NoRollback` and `NoRevival` follow from these;
- `CopiesOK`: if the copy of a session, or the tail on its way to it, or the snapshot an open waits with, lacks an event
  of the log that was sent, that event is under way behind it. `SinceOK` adds that the events after a copy are in the log at
  all (nothing a copy lacks was numbered in an earlier life), and `KeptOK` that a phone keeps copies only of
  sessions whose events it is sent. `CopiesUpToDate` is `CopiesOK` and `SinceOK` with nothing under way.

A step is reduced to what it does to these places before the parts are shown one by one: `Recorded` for a frame
that is numbered and pushed, `Replied` and `Grown` for an answer and the buffer it releases, `Connected` for what a
connection begins with, `Received` for a frame the phone reads. What `SendAll` and the filter of a replay (`Missed`)
return is defined by recursion over a sequence; that they send a prefix, and keep exactly the frames of the
ring beyond the cursor that pass, in order, is proved by the same induction over sets as `Total`.

The theorems assume that the sessions are a finite set, that the ring holds one frame at least (`historyBufferMax`), and that
the other limits and the bounds are natural numbers. Where the properties except sessions (`discarded`, `overtaken`,
`replaced`) or runs (`mistaken`), so do the theorems: each exception is a disagreement listed below, with its trace.

### What is only model-checked

Every invariant and action property of the runs is a theorem, and so is the refinement of `AtMostOnceDelivery`. What is left is
liveness (`FlowGoesOn`, `PlaceComesBack`, `ChangesAreApplied`, `HelperComesBack`, `EndIsKnown`, `EndIsDelivered`), which is out of the prover's reach
and stays with TLC. `TypeOK` of `EventReplay`, like the type invariants of `ConnectionGate`, `DeviceAccess`,
`SessionMirror` and `PluginUpdate`, is proved and needs no run.

## Disagreements met while modelling

They are properties defined in the modules and violated by what the code does; to see the trace, put the property
into the configuration named, with the changes given.

| Property | Where | What the code does, and what says otherwise |
|---|---|---|
| `EveryReceiptIsReadable` | `MCDispatchJournal_delivery` | A rejected prompt is stored with the code it got (`dispatch-journal.ts:384-387`), but `parse` accepts only a fixed list (`:405-421`): `E_INTERNAL` (`host-bridge.ts:2098`) disables the journal at the next start. It is `ReadsItsOwnFile` without `Unlisted`; the constructor takes an unreadable file for a damaged one. |
| `SiblingsAreDropped` | `MCDeviceAccess_access` | `c2s.device.revoke` revokes the device before it calls `revokeSiblings` (`wire-device.ts:50`), which then finds nothing to revoke (`index.ts:260`) and drops no socket; `index.ts:602-605` says it must. |
| `HelperComesBack` without `Neglected` | `MCRemoteTransport_remote` | A failed `spawn()` has no exit event; its error handler only sets the status (`remote-supervisor.ts:459-461`), so the helper is never tried again, while every exit is (`:462-478`). |
| `RejectedMeansNotApplied` | `MCDispatchJournal_delivery` | A prompt whose call failed in transport is recorded as rejected (`host-bridge.ts:2086-2099`); `PROTOCOL.md:1091-1092` keeps it unknown. |
| `StreamLimit` | `MCPreviewTunnel_tunnel`, two ids, `MaxStreams = 1` | The limit is checked before the connect and not after it (`preview-tunnel.ts:126-130`). |
| `CloseDestroys` | `MCPreviewTunnel_tunnel` | A close of a stream that is still connecting is lost (`:169-172`); `PROTOCOL.md:1720` has the socket destroyed at once. |
| `NothingLeavesWhileDisabled` | `MCPreviewTunnel_tunnel` | Waiting data is sent by `credit()` and by the timer, which do not read the setting (`:161-166`, `:258-265`); `:57` says it is read for every batch. |
| `NoRollback` without `replaced` | `MCEventReplay_replay` | `openSession` pushes its tail without asking whether the open still owns the buffer (`host-bridge.ts:1051`): with two opens under way an older tail comes behind newer events (`PROTOCOL.md:385`). |
| `FailedOpenLosesNothing` | `MCEventReplay_replay`, `RingMax = 2`, `ReplayLimit = 2`, `MaxFrames = 3` | A failed open throws away what was held back for it, also of a watched session (`wire-session.ts:205-209`; `PROTOCOL.md:399`). |
| `ResumeLosesNothing` | the same | Frames held back for an open have lower numbers than frames sent meanwhile; if the connection drops, the cursor is past them (`connection.ts:304-311`; `PROTOCOL.md:954`). |
| `ResumeSkipsNothing` | the same | A cursor of an older bridge is taken as resumable once the new one has counted as far (`host-bridge.ts:243-248` and the comment there). |
| `OneWriter` | `MCDeviceRegistry_registry` | A reload in the same process does not wait for the writes of the old store (`index.ts:844-855`; `drain()`, `token.ts:403`, is called by tests only), nor do its handlers and pushes stop (`wire-push.ts:82-89`, `push-gateway.ts:246-252`): it writes its old document over the file of the new store, and the next start reads that. `token.ts:394`: writes are serialized so that they can never interleave. |
| `UnbindingIsDurable` | the same | A revocation is acknowledged before it is on disk (`token.ts:261`), a failed write is swallowed (`:423-428`); `wire-device.ts:52` says it is on disk. |
| `NarrowingIsKept` | the same | Scopes that were narrowed to a legacy full set are widened by the next load (`token.ts:146-150`); `device-auth.ts:139-140` says nobody can narrow them, the settings page can (`index.ts:375-389`). |
| `RotatedTokenIsKept` | the same, two tokens (`Token = {old, new}`) | A late rejection clears the token registered meanwhile (`push-gateway.ts:250`, `token.ts:316-321`); the widget counterpart compares first (`:363`). |
| `AuthorityIsCurrent` without `repaired` | `MCDeviceAccess_access` | Pairing again with other scopes drops no socket (`token.ts:172-200`, `index.ts:480-486`; `PROTOCOL.md:233`). |
| `NoFrameWithOldAuthority` | `MCDeviceAccess_access` | A socket the sweep is closing is no longer listed, but its frames are handled until the close completes (`index.ts:756-765`, `:382`). |
| `OnlineHasInstance` | `MCLocalTransport_local` | While the old listener waits for its last phone the status is still its "online" (`transport-reconciler.ts:130-145`; comment `:100-102`). |
| `FailedLoadIsRetried` | `MCLocalTransport_local` | The key is written before the load and stays when that fails, so later reconciles return at once (`transport-reconciler.ts:126-130`); `index.ts:292` says a failed load must not poison them. |
| `FunnelIsTended` without `begun` | `MCRemoteTransport_remote` | A change that comes before the origin listens writes its key and starts nothing; the reconcile the origin schedules then finds the key unchanged and returns (`transport-reconciler.ts:126`, `:367-373`). The comment there says the opposite: the key is written, and the trigger of the origin will start it. |
| `MirrorCatchesUp` without `mistaken` | `MCSessionMirror_mirror` | A list that was read before a change and applied after its frame overwrites the newer rows (`host-bridge.ts:741-781`); nothing reads the list again. Status and statistics have no later event that would put them right while the session stays as it is. |
| `CardsAreAnswerable` without `stranded` | `MCSessionMirror_mirror` | After a failed transport the request is given back although the Host settled it meanwhile and its frame has passed (`:2149-2153`); `:2136-2138` says why that must not be: a ghost entry that no future frame clears. |
| `BadgeIsRight` without `unbumped` | `MCSessionMirror_mirror` | An answer that is refused leaves the flags alone (`:2134-2143`), and the frame finds nothing to bump (`:679-682`, `:706-709`): the badge stays "pending" until something else changes the row, which `:2144-2146` says must not be. |
| `EndIsDelivered` without `sent` in `Hanging` | `MCLiveActivityPush_live` | A flush works on copies (`token.ts:273-275`). If the round ends while the first phone's push is under way, the second phone is sent an *update* with the final state: its copy has no `endedState`, but the state is computed now (`live-activity.ts:57`). The next flush finds the same fingerprint (`:58-59`) and never sends the "end". |
| `EndIsDelivered` without `cell = 0` | the same | A flush whose push is refused drops the credential and tries to enroll once (`push-gateway.ts:584-595`). If that fails, every later flush returns before it sends and without enrolling (`:568-569`); until a notification or a registration comes the end is not delivered, however often the scheduler retries. |
| `OverStaysOver` without `forgotten` | the same | The mark of the end is part of the registration and goes with it. A token that is refused clears the registration (`live-activity.ts:69-70`), and when the phone registers the activity with its next token it starts anew (`token.ts:327-330` keeps the mark only of a registration that is there) and is sent an "update" after its "end". So does an activity that a registration left on a lost connection displaced, and one whose device lost the right for a while; for one whose time is over the comment allows it. `live-activity.ts:68`: "Retain the terminal tombstone until expiry/unregister: reconnect and token rotation cannot restart this round." |
| `LastWordHolds` and `OverStaysOver` without `left` | `MCLiveActivityPush_live` | The generation that makes a waiting registration fail is a field of the connection (`connection.ts:176-182`): one left on a lost connection brings an activity back that the phone took back, or saw the end of, on the next. |

Seen in the code beside these, without a property: when `mux()` or the host stream ends, `runMuxStream` and
`runHostStream` return and nobody calls them again (`host-bridge.ts:504-526`: "bridges degrade to RPC-only"); `senderFor`
awaits the end of the old sender before it replaces it (`push-gateway.ts:479-502`), so two callers both make one;
`setCustomName` puts back the name it found when its write fails (`token.ts:236-252`), so of two renames of a device
that overlap, the first takes back the second's name, and the second brings back the first's although that failed.

## What is not modelled

- Contents: text of messages, names, models, images, notification bodies, diagnostics. A request is a
  member of a small set; a frame is its kind and the numbers the properties are about.
- Cryptography: a proof is valid or not; a pairing code is right or wrong.
- Bytes: buffers and windows count frames or chunks (`PREVIEW_MAX_CHUNK`, `MAX_OUTBOUND_BUFFER_BYTES`).
- Delays: a restart delay, a backoff or a debounce is "some time later".
- The port policy of previews (was the link mentioned in the session): its answer is arbitrary.
- The incremental assistant stream, widget and preview sinks of a connection, compression.
- Most of `host-bridge.ts`: prompts and their images, queues, models, commands, skills, archives and forks are calls
  that pass through to the Host and translate its answer; what they share with other handlers is modelled.
  Of a row of the session list only status, flags and statistics are told apart; title, tasks and tool activity
  take the way of the status.
- Widget pushes (`flushWidgetPushes`), which share the scheduler and the credential of `LiveActivityPush`; the cached
  sender; the file of the credential (an enrollment that is lost is repeated).
- Choice and verification of update versions (`prepare` may refuse for any reason).
- `lib/index.js` and `lib/client.js` are build output of `src/`, as long as it; the settings page, the texts
  (`i18n.ts`) and the formats (`protocol.ts`) are most of the rest. The share of lines the map covers is small for
  that reason, and because validation, formatting and pass-through calls are abstracted.
- The parts of `PROJECT.json` with status `not_modelled`, each with its reason: either planned (below), or
  without state of their own (wire formats, reports, small policies), or I/O and rendering (TLS identity,
  settings page).

## Plan

Done: the order was by what a user loses if it is wrong: requests (journal, with its contract and its
proofs), access (gate, registry, sockets), data (events, previews), reachability (transports), what the phone
shows (list, cards, badges), and what reaches it unasked (Live Activities, updates).

Next, in this order:

1. `AssistantStream` as a second kind of frame in `EventReplay`; quiet completion and the rest of
   `host-event-projection.ts` on top of it.
2. Widget pushes and widget sinks in `LiveActivityPush`; the cached sender.
3. Schedules; diagnostics; the connection limit of the helper.
