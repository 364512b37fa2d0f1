# A verification project for bind9-sdk

bind9-sdk is a Rust library that controls BIND 9: it runs `rndc` commands,
sends dynamic updates, transfers zones, reads the statistics channel and edits
zone data. This directory holds TLA+ models of the parts of it that can go
wrong between two steps, the TLC configurations that check them on small
instances, and proofs for every instance that `tlapm` checks.

Paths below are relative to `src/`; `net` is `crates/bind9-sdk-net/src` and
`core` is `crates/bind9-sdk-core/src`.

    tlc -workers 2 -config pool_safety.cfg MCRndcPool.tla
    tlapm RndcPoolProofs.tla

## 1. The system

### Components, state and operations

| component | state it keeps | operations | modelled |
|---|---|---|---|
| connection pool, `net/pool.rs` | a channel of free worker indices, an atomic counter, a job channel and at most one connection per worker, a oneshot per call | `execute`, `available`, drop; `pool_worker`, `execute_with_reconnect` | `RndcPool` |
| zone transfer client, `net/transfer/mod.rs`, `core/transfer.rs` | place in the record stream (`IxfrState`), TSIG stream verifier, record count | `axfr`, `ixfr`, `IxfrState::push`, `verify_message`, `finish` | `Transfer` |
| freeze guard, `net/freeze.rs` | the zone a guard is armed for | `freeze_guard`, `thaw`, `Drop` | `FreezeGuard` |
| high-level client, `net/config.rs` | only configuration; each command has its own connection | `rndc_command`, `send_update_verified`, `freeze`, `thaw`, ... | the two freeze commands and the verified update |
| update sender, `net/nsupdate.rs` | one exchange | UDP, then TCP when the response is truncated | `VerifiedUpdate` |
| serial arithmetic, `core/record.rs` | none | RFC 1982 comparison and addition; `SerialStrategy::next` | `Serial`, `SerialStrategy` |
| rndc session, `net/rndc/mod.rs` | nonce and serial of the session, time of the last request | `authenticate`, `command`, `command_shared`, `close`, `verify_authenticated_response` | `RndcSession`; `command_shared` as the pool drives it in `RndcPool` |
| rndc wire codec, `net/rndc/protocol.rs` | none | encode, decode, HMAC input | `RndcCodec` |
| rndc commands and replies, `net/rndc/command.rs`, `dnssec.rs` | none | words of a command, parse a reply or a status | `RndcCommand`, `Rollover` |
| concurrency limiter, `net/limiter.rs`, `crates/bind9-sdk-bindings/src/limiter.rs` | a semaphore | `acquire`, `available`, drop of the future or the permit; one command in a slot | `RndcLimiter`, composed in `RndcSession` |
| key rollover, `net/rndc/rollover.rs` | none; derived from the server's key states | `check`, `advance` | `Rollover` (not key tags and CDS records) |
| statistics, `net/stats.rs` | none | fetch, `select_zone_stats` | the two serial reads of an update |
| update builder and message, `core/update` | prerequisites and changes in order | builder, encoder, signing | `UpdateMessage` as records, `RecordWire` and `RecordTsig` as octets |
| TSIG, `core/tsig`, `net/transfer/wire.rs` | the previous MAC of a stream | sign, verify, find and strip the record | MAC chaining in `Transfer`, one message in `RecordTsig` |
| zone data and diff, `core/zone` | a zone's records | `diff`, `apply_diff`, `to_updates` | `ZoneDiff` |
| zone file parser and serializer, `core/zone/parser`, `core/zone/serializer.rs`, `rdata_text.rs`, `rdata_dnssec.rs` | origin, default TTL and class, last owner | parse, serialise | `RecordFile`, `RecordText`, `RecordWords` |
| names and record data, `core/domain.rs`, `core/rdata`, `core/record.rs` | none | parse, render, encode, decode, compare | `RecordTypes`, `RecordText`, `RecordWire` |
| command line, `crates/bind9-sdk-cli` | none | one call of the components above per process | `record add` and `record delete` as other writers; the words of its rndc commands |
| Node.js bindings, `crates/bind9-sdk-bindings` | none | type conversions around the crates above | the rndc commands they build; the limiter's calls |
| `named.conf` generation, TLS, secrets | none | conversions | no |

### How they interact

A caller of the pool shares three things with the workers: the channel of free
indices (behind a tokio mutex on the receiving side), the job channel of the
worker it was lent, and the counter. The runtime is multi-threaded, so a step
between two awaits is atomic only as far as one channel or atomic operation is.
A worker talks to named over its own connection; named may answer late, may be
gone, and may execute a request after the client gave up on it.

`Bind9Client` does not use the pool: each command of a client opens, uses and
closes a connection under a single timeout. The freeze guard issues such
commands, from the caller's task or from a task its `Drop` spawns. Updates use
DNS over UDP and TCP and read the serial over HTTP. The freezes and the updates
meet only inside named: a frozen zone takes no update.

An edit of a zone begins with a copy of it, from a file or a transfer. The diff
with the wanted zone becomes a new file, which needs a newer serial, or an update
message, which named applies to whatever the zone is by then.

A transfer is a producer task that reads messages, verifies them and sends
records to the caller through a channel; the caller applies what it receives.

A record travels between four forms: the words of a zone file, the values of the
library, the octets of a message, and what named holds. Every conversion between
them is a function of its own, written by hand, and they must agree.

### What is hard

* **Interleavings.** The index of a worker returns to the channel before the
  counter follows and before the caller has its answer. A spawned clean-up thaw
  runs when somebody else may have frozen the zone.
* **Cancellation.** Every `await` is a place where a caller may drop the future;
  an index received and not yet handed on, or a guard already disarmed, is then
  in nobody's hands.
* **Late effects.** Timeouts end the wait, not the work: a request may be
  executed after its caller got an error, its reply may be read by the next
  command, a retry may run it a second time.
* **Order in a stream.** What a record of an IXFR means follows from the records
  before it and from serials alone; message boundaries are chosen by the
  primary; signatures arrive every hundred messages at worst.
* **Stale copies.** A diff describes the zone it was computed from. Its update
  message is applied later, maybe twice, to a zone that others have changed;
  named skips what does not fit and still answers NOERROR.
* **Streams of bytes.** A dropped `command` leaves a reply, or the rest of one,
  on the connection; the next command reads it.
* **Positions.** The words of an rndc command mean what their place says; a
  compressed name ends two octets after its first pointer; a MAC covers a message
  as it was before one count in it changed.
* **Text about state.** A rollover is derived from lines of a status text whose
  format changed between releases.
* **Numbers.** Serials wrap, and two that are half the space apart have no
  order; the counter of free workers is unsigned.

`PROJECT.json` lists each hazard at its line.

### What makes each component correct

* pool: no index is duplicated or silently lost; the counter is off by exactly
  the updates under way; replies reach the call they belong to; a command runs
  at most twice; every call returns; the pool recovers and its tasks end.
* transfer: a copy that is reported complete is the primary's version; the
  differences are applied in order and never past the current serial; with a key
  no message is missing; what a primary may send is accepted; every transfer
  ends.
* freeze guard: an armed guard means the zone is frozen by that guard; a zone
  that stays frozen is known to somebody.
* update: the reported outcome is what happened.
* rndc session: what a caller is told of a command is what named did with that
  command, whatever was left on the connection; an honest reply in time is taken.
* rndc commands: named reads every command as it was meant.
* limiter: free and taken slots add up on every way out of a call.
* rollover: the state told follows from the keys the status was about.
* diff: `apply_diff(old, diff(old, new)) = new`, and the update message built
  from a diff has the same effect on the server.
* serial strategies: the next serial is newer, and a date is the date of today.
* records: a record says the same in each of its forms; what the library writes
  it reads, and what it sends is accepted; a record inherits its owner from the
  right line through includes.
* TSIG: what is signed verifies on the other side within the fudge.

## 2. The models

| module | what it is |
|---|---|
| `RndcPool` | the pool: callers, workers, their connections, named |
| `CommandService` | what the pool promises, without channels or connections |
| `MCRndcPool` | symmetry sets for `RndcPool` |
| `RndcPoolProofs` | theorems about `RndcPool` |
| `RndcPoolRefinement` | the proof that `RndcPool` implements `CommandService` |
| `Serial` | RFC 1982 comparison and addition |
| `Transfer` | the transfer client and the stream it reads |
| `Primary` | what a primary answers (external; RFC 1995, RFC 5936) |
| `MCTransfer` | the zone histories of the transfer runs |
| `TransferProofs` | theorems about `Transfer` |
| `FreezeGuard` | keepers that freeze and thaw one zone |
| `VerifiedUpdate`, `VerifiedUpdateProofs` | calls of `send_update_verified` for one zone |
| `ZoneClient` | both on the same zone |
| `ZoneClientProofs` | theorems about `FreezeGuard` and `ZoneClient` |
| `RndcCodec` | the nested tables of the rndc channel, their signature and its verification |
| `RndcCommand` | every command as words, the replies, and named's grammar (external) |
| `RndcCommandProofs` | every command is read back as it was meant |
| `RndcLimiter` | the semaphore around rndc cycles |
| `RndcSession` | connections of three kinds of callers; composes the three |
| `RndcSessionProofs` | theorems about `RndcLimiter`, `RndcCodec` and `RndcSession` |
| `MCRndcSession` | keys, skews and scenarios of the session run |
| `Rollover` | a KSK rollover as named goes through it and as a caller sees it |
| `SerialStrategy` | the next serial; days to dates |
| `ZoneDiff` | the diff of two zones, applying it, its update entries |
| `UpdateMessage` | prerequisites and entries as records, and what named does with them (external; RFC 2136) |
| `ZoneEdit` | an editor, named and other writers; composes the three |
| `MCZoneEdit` | the zones, serials and foreign changes of the edit runs |
| `ZoneEditProofs` | theorems about `SerialStrategy` and `ZoneEdit` |
| `RecordTypes` | octets, type codes, names: text, labels, wire form, limits |
| `RecordWords` | words of a zone file and the values they spell |
| `RecordText` | the data of every record type as words |
| `RecordWire` | records and messages as octets |
| `RecordTsig` | the TSIG record: signing, finding, checking, stripping |
| `RecordFile` | the lines of a zone file, read and written |
| `RecordNamed` | named's side of the messages (external; the RFCs) |
| `RecordPaths` | the ways of a zone's records: file, includes, update, transfer |
| `MCRecords` | the zone files and held zones of the records run |

Definitions called `Bug_...` are plausible slips in the code; no specification
uses them. Each property has been shown to fail when the definition below a
slip is replaced by it.

### RndcPool

`queue`, `count`, `inbox` and `reply` are the availability channel, the counter,
the job channels and the oneshots. `cpc` and `wpc` say where a call and a worker
are, one value per `await` or shared operation. `wire[w]` is the connection's
pair of byte streams: requests written whose reply was not read, each with a
flag that named has answered. `executed`, `orphan` and `lost` are history.

| code (`net/pool.rs`) | actions |
|---|---|
| `execute` | `Start`, `Take`, `CountDown`, `Send`, `SendRefused`, `ReleaseIndex`, `ReleaseCount`, `Receive` |
| dropping that future | `Cancel`, at the awaits `CancelPoints` names (all four in both runs) |
| `pool_worker` | `RecvJob`, `IdleClose`, `Shutdown`, `Return`, `ReturnRefused`, `Reply` |
| `execute_with_reconnect`, `command_shared` | `Connect`, `ConnectFails`, `Write`, `ReadReply`, `Interrupt` |
| the pool is dropped, a task ends | `DropPool`, `Stop` |
| named and the network (external) | `Serve`, `Break`, `ServeOrphan` |

A reply carries the serial of its request, which `Verified` compares with the
session's. Nonce and time tie a reply to its session too, and a connection has
one session, so within a connection the serial is what tells replies apart.
`SerialMod` is at least 2; the code has 2^32.

`CommandService` knows four things of a pool: what each caller sees, which
command each worker is lent to, which commands were ever lent a worker, and how
often named ran each. A worker serves one command at a time, a command is run at
most twice and only after it was handed to a worker, and a call is answered only
after its worker was given back or lost. `RefinesService` is the refinement: a
worker's owner is the call that holds its index, whose job is in its inbox, or
whose command it executes.

### RndcCodec, RndcCommand, RndcLimiter, RndcSession

The wire of a session is a sequence of cells, one for each field of a message:
a number of four bytes, a key, a type tag, a value. Lengths count cells, so a
read that was dropped half way leaves the stream out of step as in the code.
`Encode` writes a table in the order of its keys as a `BTreeMap` does, and the
tables in it likewise (the SDK nests no deeper: `IsMessage` in the proofs says
which tables those are); `Decode` is one recursive function over positions, which
follows nested tables down to `MaxDecodeDepth`. named (`Serve`) writes its own order and signs that, which is why `ExtractHmacInput`
takes the cells as they came. `ValidControl` and `Verified` are the checks of
`verify_authenticated_response`, in order.

`RndcCommand` has every variant of `RndcCommand` as a record, its words
(`to_command_string`), who builds which (`Bind9Client`, the command line, the
Node.js clients), and `Understand`: named's reading, options first, then arguments
by number, then zone, class and view by place.

| code | actions of `RndcSession` |
|---|---|
| a call of a client; `JsRndcLimiter` queueing for a slot | `Call`, `Admit` |
| `connect`, transport policy, `authenticate` | `ConnectFails`, `Handshake`, `ReadAuth` |
| `command`, `command_shared` | `Command`, `ReadReply`, `Broken` |
| `close`; the timeout of `rndc_command`; a dropped command; a dropped call of the limiter | `Close`, `Timeout`, `Drop`, `DropCall` |
| named (external); clocks | `Serve`, `Tick` |

There are three kinds of callers. A `Bind9Client` runs one command under one
timeout. A user of the limiter holds a slot over connect, handshake, command and
close, without a timeout, and may drop the call while it waits for the slot or has
it. A direct caller keeps its connection and may drop a
command, which may take any part of the reply with it, the length first (`Drop`).
named may execute a command, report a failure, or never answer; the clocks of
client and named differ by `skew`.

`done` lists what named executed on a connection and its reply names the place in
that list; so `ToldIsDone` can say that what a caller is told is about this very
execution. `HonestReplyAccepted` names the only three reasons for a reply of named
to be refused. `CommandsUnderstood` is checked over all commands in the first
state and over each command in hand.

### Rollover

named's keys have a goal and the states of DNSKEY and DS; `NewKey`, `Propagated`,
`Retire` and `Withdrawn` move them (external). `StatusText` is the text of
`rndc dnssec -status` in both forms the parser's tests have, one line per key or
BIND 9.20's lines per state; `Parse` and `DeriveState` are
`DnssecStatus::parse` and `derive_state`. `Check` is `check`; `Advance`,
`ConfirmDs` and `Recheck` are the three commands of `advance`, with named free to
move between them. `seen` keeps the keys a status was made of.

### Records

`RecordPaths` is the state machine: a zone starts in a file (`ProcessLine`,
`Include`, `LeaveInclude`, `FinishFile`) or with named, and is then written and
read again (`WriteFile`), sent in a signed update (`SendUpdate`) or fetched by a
signed transfer (`Transfer`), in any order, up to `MaxTrips` times.

| code | definitions |
|---|---|
| names: text, limits, wire, comparison (`core/domain.rs`) | `DomainName`, `ResolveName`, `NameText`, `NameOctets`, `SameName` |
| tokens and values (`core/zone/parser/tokenizer.rs`, `rdata_text.rs`, `rdata_dnssec.rs`) | `RecordWords`; the rows of `RecordText` |
| words, comments and parentheses (`next_token`, `parse_into`) | `Pieces`, `Tokens`, `LogicalLines` |
| `process_line`, directives, `serialize` | `ReadLine`, `EndInclude`, `ZoneOf`, `Serialize` |
| `encode_update_message`, `transfer/wire.rs` | `RecordWire` |
| `core/tsig`, the search for the TSIG in a reply | `RecordTsig` |
| named (external) | `RecordNamed` |

A word has a kind and what it spells. Names and character-strings are octet by
octet, since escapes and limits matter there; an address, hexadecimal or base64 is
the octets it stands for. Messages are octets throughout: `named` of
`RecordNamed` reads and writes them by the layouts of the RFCs, compressing every
name that may be, and knows nothing of the library's own tables. A MAC is a
checksum that depends on the secret and on every octet and its place.

What the serializer writes
without quotes, a name or the tag of a CAA, goes through `Pieces`, which breaks it
where `next_token` does: at space, a semicolon, a parenthesis or a quote that no
backslash covers. `LogicalLines` joins lines as `in_parens` does. No serialized line has
a parenthesis but the ones that come in with a name.

`RecordKept` compares what every record says, in octets, with what it said when it
was first read; `NothingRefused` says that nobody refuses what the library wrote,
sent or was sent. Neither holds of the code without reserve, and the exceptions are
named: `Fragile` (`LostText`, `LostName`) has the records that a zone file does not
give back, and from the moment a zone with one is written (`spoilt`) nothing is
claimed of that zone; `Formless` has the records that no message carries, or whose
message the client refuses. Section 6 lists them. Up to that moment, and on the ways
through messages, records are compared without exception. `OwnersAsWritten` computes the owner of a record from
the lines of the files alone and compares it with the parser's, whose state is
carried from line to line and from file to file.

### Transfer

One behaviour is one query. `exchange` fixes the kind (AXFR or IXFR), whether a
key is used, the version the caller has, the primary's, and the answers.
`Primary` computes the answers a primary may give from a history of versions:
the whole zone, the differences one by one, one condensed difference, or the SOA
alone. The primary packs the answers into messages of any size and signs those
it likes; a message may be lost (`Lose`), the stream may end (`Eof`) or fall
silent.

| code (`net/transfer/mod.rs`) | definitions |
|---|---|
| the verifier's `verify_message`, `finish` | `Verify`, `RejectMessage`, `Authentic` |
| `IxfrState::push` | `AwaitFirst`, `BeginDeltas`, `EmptyZone`, `BeginFallback`, `FullRecord`, `EndFull`, `Deleted`, `AddSoa`, `Added`, `EndDeltas`, `NextDelta`; `Refused` for its errors |
| `transfer_record_stream` | `AxfrPush` and the message loop |
| the message loops, limits, timeouts | `ReadMessage`, `PushRecord`, `PushLast`, `RefuseRecord`, `TooManyRecords`, `LoneMessage`, `EndMessage`, `Timeout`, `Eof` |

A message may have no answers: the loops read on, and it counts towards the
unsigned ones only. `reading` tells the pushing of an empty message from the wait for
the next one. `LoneMessage` is the end that an IXFR message of one answer brings
(`mod.rs:660`), a `NoChange` or an error. `cause` is history: it says why a transfer
was refused, and `RefusalHasCause` is about it.

The records of one message are pushed one step at a time, since the caller sees
each. The last conjuncts of a push are what the caller does with an item: delete
or add the record, take the new serial, replace the zone. A MAC is modelled by
what it covers: everything since the query, so none verifies after a gap.

### FreezeGuard, VerifiedUpdate, ZoneClient

A keeper freezes the zone, holds the guard, and thaws it or drops it. `io` is
the keeper's rndc command: connecting, written, accepted, refused. `late` holds
requests whose caller is gone before named executed them. `Thaw` disarms the
guard before its command begins, as the code does; `DropGuard` is `Drop`
spawning the clean-up; `Cancel` is a dropped future or an aborted task.
`ThawZone` is a thaw outside of a guard, which nothing prevents: the properties
of the guard are about the behaviours without one.

An updater reads the serial, sends by UDP, again by TCP on a truncated response,
judges the RCODE and reads the serial again. `copies` are the messages named has
not processed; named processes a copy also when the caller gave up. `Other` is
any other change of the zone. `applied`, `moved` and `foreign` are history.

`ZoneClient` puts both on one zone: it extends `FreezeGuard` and instantiates
`VerifiedUpdate` with `frozen` replaced by "some keeper's freeze is in force".

### ZoneEdit

| code | definitions |
|---|---|
| `SerialStrategy::next`, `compute_date_counter_serial`, `days_to_civil` (`core/record.rs`) | `NextSerial`, `NextUnix`, `NextDateCounter`, `Civil` |
| `Zone::diff`, `apply_diff`, `ZoneDiff::to_updates` (`core/zone/diff.rs`) | `Diffs`, `ApplyDiff`, `ToUpdates` |
| `UpdateBuilder` (`core/update/builder.rs`) | `Prerequisites`, `Send` |
| `encode_update_message` and its parts (`core/update/message.rs`) | `Encode`, `EncodePrerequisite`, `EncodeEntry`, `TooLong` |
| `record add`, `record delete` (`cli/commands/record.rs`) | `Other` |
| named (external) | `Load`, `Process`, `PrerequisitesHold`, `ApplyUpdate` |

A behaviour begins with the calendar: `Tick` advances a day and its date by the
rule of the Gregorian calendar, which knows nothing of `days_to_civil`, until the
day of the edit. Then named loads a zone and a serial, the editor reads the zone
and either publishes a file (`Publish`) or sends a message (`Send`), which may be
lost, sent again, or processed after `Other`. Runs that look at the calendar
alone tick on to `LastDay`.

A zone is a set of records without its SOA: `diff` leaves the SOA out, and a zone
that named serves has no record twice. The order of the entries of a diff comes
from the order of the records in two files, so `Diffs` is every order the two
passes can give: additions and TTL changes first, removals after. `Legal` is what
named keeps of a zone: a name server, one TTL in a record set, a CNAME alone at
its name. `ZoneAssumption` says that the zones of an instance are such, and what
the entries of others look like. The prerequisites of an edit are none, the ones that ask for names and
record sets to exist, or an exact description of all the record sets it is about;
between them they use the five kinds of the builder.

Two properties say exactly what the messages promise, and no more. A CNAME that
others added is replaced by the CNAME the editor writes at that name, as named
does with any second CNAME (`Replaceable` in `OthersSurvive`). And exact
prerequisites describe the record sets of the types the edit is about: a record of
another type that others add at an edited name passes them and stays
(`GuardedIsGoal` compares those record sets, not the whole name).

## 3. The runs

| run | instance | states | what it shows |
|---|---|---|---|
| `pool_safety` | 3 calls, 1 worker that may end, every cancel point | 723,907 | indices conserved, counter accounted, own replies, bounded backlog; the pool implements `CommandService`, hence at most two executions |
| `pool_liveness` | 2 calls, 1 worker, every cancel point | 51,421 | calls return and the pool recovers but for the indices that dropped calls take along, idle connections close, tasks end |
| `rndc_session` | one client, or one direct caller, or two users of the limiter; 3 keys, 3 skews, 3 channels | 925,260 | what a caller is told happened, honest replies are taken, commands are understood, slots add up |
| `transfer` | 6 histories, serial space 8, messages of 0 to 3 records | 32,099 | complete copies, order of differences, signatures, what is refused and why, termination |
| `zone_client` | 2 keepers, 1 updater, 1 thaw outside a guard | 333,725 | an armed guard holds, a frozen zone is accounted for, a held zone does not change, thaws end |
| `verified_update` | 2 updaters, 1 foreign change, a zone frozen at any time | 243,058 | outcomes of updates are true, updates end |
| `zone_edit` | 21 wanted zones, 8 first zones, 5 serials, 1 foreign change, 2 copies of the message, 47,542 days | 355,547 | a published or updated zone is the wanted one, guarded edits bring every record set they are about to the wanted one, foreign changes survive, serials advance, dates are right |
| `records` | 11 files with includes, one record of every type, 12 zones held by named, 4 trips | 2,515 | records keep what they say on every way and nothing is refused, but for the cases of section 6; owners are as written |
| `pool_available`, `transfer_nochange`, `zone_edit_cname`, `rollover_pending` | smaller instances | | the statements of section 6 |

### Bounds, and why they are enough

* *Pool.* Three calls on one worker are enough for a call in service, one whose
  stale exchange is still on the connection, and one that waits behind them;
  the theorems are for any number of both. `CountMod` is one more than needed
  so that the wrap of the counter is a different value from a full pool.
  `SerialMod = 2` is the least that tells two requests in a row apart, and the
  backlog bound shows that no more than two are ever on a connection. A worker
  may retry once, so no other counter grows. Both runs drop calls at every await. A
  call dropped between receiving an index and sending its job takes the index with it
  for good (the hazard at `pool.rs:137`); so `PoolRecovers` says that all other
  indices come back, and `EveryCallReturns` that a call waits for ever only if every
  index was lost in that way. With one worker one such drop is enough to get there.
* *Transfer.* `Half = 4`: serials 0 to 7. The histories are a journal of three
  steps, one that wraps, one that changes only the SOA, two whose serial goes
  back, and a zone that becomes empty. `MaxRecords = 11` is one less than the
  longest answer, so the limit is met. `MaxUnsigned = 2` stands for 99,
  `MaxAnswers = 3` allows messages of no, one, two and more records.
* *rndc session.* `MaxAttempts = 2` on a connection: a command that is dropped
  and one that meets what it left. `Window = 1` and `MaxTime = 2` give times before,
  in and after the window, and skews of -1 to 1 put named's clock on either side.
  `SerialMod = 4` with the first serial 3 wraps at once; no more than three
  requests are on a connection, so serials are distinct there, as 2^32 of them
  are. The keys are the right one, one with another secret and one whose algorithm
  rndc does not support. `MaxConcurrent = 1` with two users makes one wait. Callers
  with connections of their own share nothing, so one at a time is enough.
  `MaxMessage` counts cells; the longest reply of named has 46 (`MaxReply`). A
  caller ends, so deadlock is not checked here, nor in
  `rollover_pending`.
* *Records.* The limits of labels, names, character-strings, name depth and
  messages are the code's own. Conversions are independent per record, so a zone of
  one record of every type, with the edges of each field, is enough for those; what
  a line inherits needs few lines, and the files combine what may be left out with
  includes that set an origin, change it, nest, or include themselves.
  `MaxIncludeDepth = 2` stands for 16 and is met; `MaxRecords = 12` stands for 2^24,
  which no test file could reach, and is not met. `Clocks` are the client's and the
  two ends of the fudge. Four trips bring a record through each of the three ways
  and once more to a file. The zones that named holds have names with every character
  that means something in a zone file, at the begin and inside, in owners and in data.
  Out of bounds are a tag of a CAA with a quote (named takes letters and digits only),
  a piece of a torn name that reads like a class, a type or a number, and a
  TXT or CAA on a line that an open parenthesis joins to others.
* *Freeze.* Two keepers give a guard next to a call that timed out, a late
  request or a clean-up task; the theorems hold for any number. A keeper freezes
  once and ends, and so does an updater, so these models really stop and deadlock
  is not checked in them; the pool and the transfer have an explicit final step
  and deadlock is checked.
* *Updates.* `Half = 2` is the smallest space with an undefined comparison; the
  jump of 1, applied twice by a resent message and once by somebody else, reaches
  it.
* *Edits.* The zones have an apex with one or two name servers and a name that
  has no record, a CNAME, or one or two addresses, with two TTLs: every kind of
  entry, changes of a TTL alone and together with data, a removed last name
  server, and an emptied name. A CNAME has two targets and others may add either of
  them or a text, so that a foreign record meets an edit at the same name. The day of the edit is 2000-02-29; the calendar
  runs to 2100-03-02, over a year of four centuries and one of a century without
  a leap day. The first serials are one of yesterday, the last of today's
  hundred, this very second, a number that is ahead of today, and the last one
  before the wrap. `Half` is 2^30 - 1, the largest with which TLC's own integers
  do not overflow; the proofs are for every `Half`. `MaxCount = 5` stands for
  65535 and makes some messages too long. An edit ends, so deadlock is not
  checked.
* *Symmetry* is used for calls in the safety run of the pool only, never with
  liveness; `RefinesService` is a safety property.

### Fairness, and what justifies it

* pool: weak fairness of each call's and each worker's own steps. The tokio
  runtime polls every ready task and fires every timer; `Interrupt` is always
  enabled while a reply is awaited because each exchange is under
  `operation_timeout`. Nothing is owed to callers (they may never call, cancel
  or drop the pool) nor to named.
* transfer: weak fairness of `Client`, which contains the read timeout. `TransferEnds`
  excepts one behaviour: a primary that sends empty messages for ever, each in time.
* freeze guard: weak fairness of the return of a command (`Succeed` or `Fail`):
  `rndc_command` is under one timeout as a whole.
* updates: weak fairness of the return of a call. Reads and the TCP connect are
  under timeouts. The TCP writes are not; a peer that never reads is counted as
  a connection the kernel breaks.

## 4. What is proved

For every value of the constants that satisfies the assumptions in the modules
(`PoolAssumption`, `LimiterAssumption`, `HalfAssumption`, `TransferAssumption`,
`KeeperAssumption`, `UpdateAssumption`, `EditAssumption`, `DateAssumption`,
`ZoneAssumption`, `CodecAssumption`, `WordAssumption`, `SessionAssumption`;
`RecordAssumption` belongs to modules that are only model-checked). Beyond the
ranges of numbers, `SessionAssumption` says that a caller is of one kind, that no
reply of named is longer than what is read, that fewer than 2^32 commands are sent
on one connection, and that nobody sends `null`, which is no command but the
handshake's request for a nonce, as the text of a command. `WordAssumption` says
that no zone and no view is spelled like an option, which named would take for one.


* **`RndcPoolProofs`.** `TypeCorrect`, `TokenCorrect` (`TokenConserved`),
  `BacklogCorrect` (`BacklogBounded`), `OwnReplyCorrect` (`OwnReply`). None is
  inductive alone. `HeldOK` and `BusyOK` say which call a worker and which
  worker a call belongs to. `StreamOK` is the argument for replies: the requests
  on a connection that is at rest number at most one, all of them carry a
  serial at most one behind the session's, and the one with the session's own
  serial is the command in hand; so a verified reply is the reply to it, for
  every `SerialMod` above 1. `TokenOK` follows the index of a worker through
  `queue`, `held`, `inbox` and the worker, with the queue free of duplicates.
  `CountCorrect` (`CountAccounts`) is about cardinalities: `CounterOK` says that
  the counter is, modulo `CountMod`, the number of calls between their count up
  and the count down on their behalf, and each of the four steps that touch the
  counter adds one member to that finite set or removes one.
* **`RndcPoolRefinement`.** `ServiceCorrect` (`RefinesService`): under the
  refinement mapping of `RndcPool` every behaviour of the pool is one of
  `CommandService`. The mapping reads the abstract phase of a call off `cpc`,
  `dropped` and the worker that owns it, and the abstract runs off `executed` and
  the server's pending requests. Of the concrete state it needs more than
  `RndcPoolProofs` has: `StageOK` (a worker's stage, its reply cell and the call's
  `reply` agree), `RunsOK` (how often a command may have run at each stage, an
  orphaned request included) and `DoneOK` (what a finished call was told);
  together with the invariants above they are `ServiceInv`. The proof has a
  `Map` lemma for each action that says which abstract step, or none, it is.
* **`RndcCommandProofs`.** `EveryCommandKnown`: for every command a client can
  build there are a verb, options, arguments and a scope such that `Understand`
  takes the words of the command apart into these, and `Meaning`, one function of
  these four, gives the command back. So no two commands with different meanings
  share their words, which is `NoneAmbiguous` (`Unambiguous`), without a comparison
  of every two of the 47 kinds.
  The lemmas are about texts taken apart by position: `LeadingRun` (a run of
  options and their values is taken for what it is, wherever it stands, and what
  follows for no option) and `ScopeOf...` (zone, class and view by their places).
  Names and views are any that are not spelled like an option
  (`WordAssumption`); counts, dates, key tags and algorithms are the ones the model
  lists.
* **`RndcSessionProofs`.** All invariants of `rndc_session`, for any callers, keys,
  skews, window, length of a message and first serial, and any number of dropped
  commands.

  `LimiterSlots` (`SlotsBounded`): the invariant adds that nobody waits twice and
  that the holders are a finite set, without which their number says nothing.
  `LimiterUsed`: every behaviour of the sessions is a behaviour of the limiter, so
  that `SlotsCorrect` (`SlotsBounded`) holds inside them.

  `RoundTrip`: `Decode(Encode(m))` is `m` for every message of leaves and tables of
  leaves. `DecodeMap` is unfolded an entry at a time (`DecodeMapStep`; `Reads`: what
  a piece of cells reads as does not depend on where it stands), and `FlattenSeq`
  over `KeyOrder` is followed a key at a time, from the last one back.

  `SessionInductive`: `SessionInv`, and from it `ToldCorrect` (`ToldIsDone`),
  `HonestCorrect` (`HonestReplyAccepted`) and `UnderstoodCorrect`
  (`CommandsUnderstood`). Of each caller `CallerInv` says: its phase and what is
  set in it (`Phase`); the requests on its way are requests of this connection and
  the last one carries the words of the command in hand (`Requests`); and of what
  comes back (`Streams`), that wherever the key of a signature stands, a whole
  frame stands from two cells before it on, and it is a reply that named made to
  a command of this connection, under the serial of that command and for what it
  executed then. That is the argument for a reader that is out of step after a
  dropped command: it may take any cell for a length, but it accepts only what has
  the key of a signature in the third cell (`ReadRefused`), and there a genuine
  reply stands (`AcceptedReply`). The serial then says which command it was to, since fewer
  than 2^32 commands are sent on a connection (`MaxAttempts < SerialMod`), and so
  which execution. `Flow` adds that on a connection where nothing was dropped
  there is exactly the one request or its reply, made since the request was sent:
  then the reply is refused for its time only. `Knows` is what a caller was told.
  TLC does not evaluate `SessionInv`, which quantifies over all sequences of cells;
  it checks the three invariants it is for.
* **`TransferProofs`.** `TypeCorrect` (`LimitsOK`), `SignedCorrect` (`SignedEnd`),
  `DeltasCorrect` (`DeltasInOrder`), `SerialsCorrect` (`SerialsAdvance`) hold
  whatever the primary sends. The
  strengthening ties the phase to the caller's copy (in a delete phase the copy
  is at the serial the difference starts from), bounds its serial by the current
  one seen from the serial of the query, and says that a signed message seen
  last means no gap before it. The lemma `Between` is the fact about serial
  arithmetic the last theorem rests on: a step that is newer than where one is
  and not newer than the target lies between them, around the wrap too, for
  every `Half`.

  `CompleteCorrect` (`CompleteCopy`) and `RefusalCorrect` (`RefusalHasCause`)
  are about a compliant primary, and need a hypothesis: every exchange of
  `Exchanges` is `Compliant`. That definition is RFC 5936 and RFC 1995 stated of
  the sequence of answers and the journal, not of how `Primary` computes it: a
  full answer is the zone between two SOAs, an incremental one a chain of
  differences from the client's serial to the current one, each deleting and
  adding what turns one version into the next. `MCTransfer` states the
  hypothesis as an ASSUME over the exchanges of the `transfer` run, so TLC
  evaluates it there. What a stream has yielded is then tied to a position in the
  answers: `PlaceOK` says that, as long as nothing is missing, the message in
  hand and the messages not yet sent are exactly the answers that are left;
  `CopyOK` and `FollowOK` say that the copy equals what the phases up to that
  position delete and add. This removes the need for an induction over the
  journal: the induction is along the behaviour. The second theorem says
  of such answers that the client refuses none of their records, in any packing, while
  nothing is lost and no serial goes back; and that the refusal for an IXFR message of
  one record, which depends on the packing alone, comes only where answers follow it.
  It does come there, and section 6 has it: the theorem does not say that every
  allowed answer is accepted. `CauseOK` adds that a transfer under way has no cause yet.
* **`ZoneClientProofs`**, the keepers. `TypeCorrect`, `GuardCorrect` (`GuardHolds`),
  `AccountCorrect` (`FreezeAccounted`), for any number of keepers. The
  strengthening says of every late request whose it is and what its keeper's
  stage then must be: a late thaw belongs to a keeper whose call is over and,
  as long as it is late, its own freeze is in force or the zone is not held
  through anybody's guard because of it.
* **`VerifiedUpdateProofs`.** `TypeCorrect`, `VerifiedCorrect`,
  `NotAppliedCorrect`, `RejectedCorrect`. The core is `MovedOK`: the serial is
  the first read plus `moved`, modulo the serial space, while a call reads; and
  `CopiesOK`: a call whose TCP copy is out was truncated, and each copy is
  applied at most once.
* **`ZoneClientProofs`**, the zone they share. `KeepersInContext` and `UpdatesInContext`: every
  behaviour of the composition is one of each part, so the theorems above hold
  in it; `HeldZoneCorrect` (`HeldZoneIsStill`): while a guard is armed the
  serial of the zone does not change.

* **`ZoneEditProofs`.** All properties of the `zone_edit` run, for any zones, any
  changes by others, any number of copies and any limits. `NextIsNewer` and from it
  `SerialCorrect` (`SerialAdvances`): for every strategy, width, day and second the
  next serial is newer; the assumption is that today's hundred fits into a serial,
  as it does until the year 4294. `CalendarHolds` (`CalendarCorrect`):
  `days_to_civil` is right on every day from 1970 on. The invariant is the
  property itself together with the range of the date; a day later the
  day of the era is one more or starts again, and the lemmas `YearOfEraCorrect`
  and `MonthCorrect` say that the two quotients find the year and the month that
  hold a given day.

  The theorems about zones rest on lemmas about the folds of `ZoneDiff` and
  `UpdateMessage`. Each fold is shown to be a chain of states with one entry
  between two of them (`DiffSteps`, `UpdateSteps`, and in `EditSteps` over the
  records a TTL change encodes to); what holds at the start of the chain and is
  kept by an entry holds at its end. The induction over the position is taken from
  well-founded induction on a set of numbers, not on an operator. `OnWay` is what
  is kept: after k entries of a diff, whatever is in the zone and not wanted has an
  entry to come that removes it, and whatever is wanted and missing has one that
  brings it. At the end nothing is to come. `EntryOnWay` shows it for `apply_diff`
  and `EditOnWay` for named; the second needs `Sound` zones (finite and legal),
  because named skips an addition beside a CNAME and refuses to delete the last
  name server, and neither may happen on the way to a legal zone unless a name
  turns from other records to a CNAME or back.

  `EditOK` is the inductive invariant: zone, base and goal are sound, the message
  is one that encodes a diff of base and goal with the prerequisites of its kind
  (`IsMessage`), and as long as nobody else writes the zone is base before the first
  copy takes effect and goal after it. A second copy then finds the goal, from
  which every entry leads back to the goal. From it follow `PublishedCorrect`
  (`PublishedIsGoal`) and `ReachesCorrect` (`UpdateReachesGoal`). `GuardedCorrect`
  (`GuardedIsGoal`): exact prerequisites that hold say that the zone is as base was
  at all record sets of the edit (`AsAt`), whatever it is elsewhere; `Near` is
  `OnWay` restricted to these record sets, TTLs left aside. `SurviveCorrect`
  (`OthersSurvive`): `Survives` bounds what each single entry may remove and add,
  and such bounds add up along the chain. `TypeCorrect` (`ZonesOK`) is `EditOK`
  with `CountsOK`, the counters and the length of a section that was sent.

Only model-checked:

* all liveness (`EveryCallReturns`, `PoolRecovers`, `IdleConnectionsClose`,
  `WorkersExit`, `TransferEnds`, `GuardEnds`, `UpdatesEnd`): fairness is out of
  the prover's reach;
* `RecordKept`, `NothingRefused` and `OwnersAsWritten`: they are about what
  recursive functions compute on texts and octets.

## 5. What is not modelled, and why

* `named.conf` generation (`core/named_conf.rs`): it renders text and keeps no
  state. Nothing reads that text back but named's own parser.
* TLS, secrets and the set-up of TCP: configuration of libraries.
* Statistics: the JSON conversion, Prometheus text, and the choice of a zone among
  views by `select_zone_stats`. Only the reads of a zone's serial are modelled.
* Key tags and the CDS and CDNSKEY records for a key (`core/dnssec.rs`):
  computations on bytes without a step between them.
* The command line's arguments, configuration file, key ring and output, and the
  Node.js functions that convert types around the crates above.
* `Zone`'s lookups and the text of a diff; zones that hold a record twice.
* HMAC, SHA-1 and SHA-2 are abstracted: a cell in `RndcCodec` that names secret and
  content, a checksum in `RecordTsig`. Base64 and hexadecimal words stand for their
  octets.
* A transfer is split: `Transfer` has the stream, its messages and limits without
  octets, `RecordPaths` has the octets of one message without the SOAs around it.
  The octets of prerequisites and of deletions in an update come from the operators
  that the additions use, and no run sends them.
* Time is abstracted to timeouts that may fire whenever the code waits; seconds
  matter in `RndcSession` and in the fudge of a TSIG only.

## 6. Where a document and the code differ

Each of these is a run that TLC finds violated, with the quoted line in
`PROJECT.json`.

* `pool_available`: `available()` is documented as the number of available
  workers. A worker puts its index back before it counts up, a call may take the
  index and count down in between, and with the counter at zero the unsigned
  subtraction wraps: for a moment the pool reports 2^64 - 1.
* `transfer_nochange`: `NoChange` is documented as "the server is not newer". A
  primary that sends the opening SOA of a real difference in a message of its own
  is reported as `NoChange`.
* `zone_edit_cname`: the design document says that applying the updates of a
  diff produces the target zone. Additions come before removals, so a CNAME that
  replaces addresses is added while the addresses are there; named skips it,
  removes the addresses, answers NOERROR, and the name ends empty. The same with
  the roles exchanged.

* `rollover_pending`: a published KSK whose DS is not at the parent is documented
  as `WaitingForDs`. `DnssecStatus::parse` replaces a key's state by its `- goal:`
  line (`net/rndc/dnssec.rs:101`), which reads omnipresent for a key that was just
  published; so on BIND 9.20's text the workflow says `Stable`, and `advance` never
  confirms the DS.

Noticed and not run:

* Pool: "failed connections are discarded" (`net/pool.rs:47`), but after a second
  failure the connection stays with the worker (`:244`). `OwnReply` and
  `BacklogBounded` show that this is harmless.
* Freeze: `thaw` disarms before it completes (`net/freeze.rs:74`), against the
  comment on it: a cancelled thaw leaves the zone frozen and no clean-up armed.
* Client: an update's serial is read without the client's view
  (`net/config.rs:306`); a verified update (`:291`) counts as applied when the
  serial advanced, which somebody else's change does too, and `VerifiedIsApplied`
  says exactly that. A failing `close` after the reply makes a command that
  succeeded an error. The frozen zone of a guard always has class IN. The raw
  commands of the Node.js limiter return their text and no success flag.
* Rollover: `derive_state` never yields `DsPublished`.
* Serials: `SerialStrategy` promises a serial newer than the last one, and since
  that order is not transitive a secondary that misses two large jumps may be left
  with a serial that is newer than both.
* Zone files: the round trip that `PRD.md:316` and `core/fuzz.rs:34` promise fails
  for a TXT and a CAA with a backslash and a CAA with a quote, which are
  unescaped twice or written without escapes, and for a CAA with an octet above 127,
  which the tokenizer takes for a character of that number and so makes two octets
  (`core/zone/parser/tokenizer.rs:156`). A tag of a CAA is written without quotes,
  though it may be read with them. Names from a transfer with `;`, a parenthesis, a
  quote or a leading `$` are written as they are (`net/transfer/wire.rs:199`): most are refused when
  they are read again, and some come back as another zone, as the name `(a.z.` does
  as `a.z.`, and a line whose owner begins with `;` is gone. These are the
  records that `RecordKept` and `NothingRefused` except by name. A comment line that begins with space is refused
  (`core/zone/parser/record.rs:439`), a name that ends in an escaped dot is taken
  for an absolute one, `$INCLUDE` does not restore the default TTL and class, an
  owner that reads like a record type or a number must be written absolute, and a
  timestamp below 1970 or with month 0 is not refused. An empty digest or key is
  written as no word at all.
* Transfers: DNSSEC and other less common types arrive as unknown records, so the
  diff of a file with a transfer of the same zone replaces them. An IXFR message of one
  record with more to come is refused when it is not the opening SOA
  (`net/transfer/mod.rs:660`), which RFC 5936 allows. The comment at
  `net/transfer/mod.rs:678` says that the timeout of each read keeps a slow server from
  holding the client for ever; empty messages in time hold it. A CAA whose value
  is not UTF-8 fails the whole transfer (`net/transfer/wire.rs:366`).
* Updates: a salt or a tag of more than 255 octets is read from a file and written to
  one, and refused only when a message is made (`core/update/message.rs:320`).

## 7. Plan

Done, in the order of importance: pool, transfer, freeze guard, updates, the
composition on one zone, zone edits, the rndc session with codec, commands and
limiter, the rollover, and records in their four forms. Left, and in this order:

1. The statistics selection with views, composed with `VerifiedUpdate`, so that a
   client scoped to one of two views is told what it can know.
2. The octets of prerequisites and deletions in `RecordPaths`, and a transfer there
   of more than one message.
3. Key tags and CDS records, checked against RFC 4034.
4. The command line's walk from arguments, configuration file and key ring to a
   client, as a pure function with its precedence.
