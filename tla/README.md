# TLA+ models of the pokedex battle server and its clients

The repository serves a pokedex and a two-player battle game: one Go server
(`services/pokedex`) in front of Postgres, and five programs that play through
it (a command line, a terminal and a mobile app in Go, a React and an htmx web
app in TypeScript). The modules here model the game: the rules of a battle, the
store that keeps battles under several replicas, the lobby around them, the
start of the service on its database, the API between server and client, and the
programs that poll. Paths below are relative to `src/services/`.

## 1. The system

| Part | State | Operations | What makes it correct |
| --- | --- | --- | --- |
| Battle rules (`pokedex/battle.go` 100-236, 455-822, `stats.go`) | status, two sides of three Pokemon with hit points, stages, confusion and a disabled move, whose turn, winner, version, log | `newBattle`, `join`, `takeTurn` (with `resolveStatus`, `finishTurn`) | a battle ends when a side is down and only then, for the other side; nothing heals; the trainer to move can move; the version counts the updates |
| Projection and client check (`toAPI`, `battleclient/client.go`) | none | `toAPI`, `SideIndex`, `MyTurn`, `CheckTurn`, `Watch` | a client refuses what the server refuses, for the same reason |
| Postgres store (`pokedex/pgstore.go`, `queries/game.sql`) | tables `trainers`, `battles`, `battle_sides` | `registerTrainer`, `trainerByToken`, `create`, `update`, `waiting`, two sweeps | a turn is written on the row it was computed from; a request is answered; tokens in use and battles in progress are not swept; one waiting battle per trainer |
| In-memory store (`memStore` in `battle.go`) | the same in maps behind one mutex | the same | the same |
| Handlers (`battle_handlers.go`) | none | authenticate, count, create / join / turn / list | the order of the store calls |
| Migrations (`migrate.go`) | advisory lock, `schema_migrations`, the schema | lock, list, run and record, unlock | each migration runs once, in order, wherever a process dies |
| Dex (`seed.go`, `pokedex.go`, `queries/reference.sql`) | reference tables, the dex a replica holds in memory | `pokedex seed`, the load at start, `list` with its cursor | a replica serves whole movesets; a walk over the pages lists everything once |
| Server (`server.go`, `main.go`) | the store it was started with | start, serve, shut down | replicas come back |
| API (`openapi.yml`, `api/oas_*_gen.go`) | one request | send, route, check, answer, decode | a legal call reaches its handler, and its answer the caller |
| API clients (`api/client.go`, `api/paging.go`, `clients/ts/`) | circuit breaker, cursor | retries, `Retry-After`, breaker, iterators | one gives the probe slot back; a POST is sent once; a walk ends |
| Mobile app (`pokedex-mobile`) | screen, battle, busy, watching, lastSeen, results in a channel | taps, navigation, background calls, `apply` | a result is applied to the screen it was asked for; the opponent's move is shown |
| Terminal app (`pokedex-tui`) | tab, battle, cursors, misses | keys, poll ticks, `Update` | one poll chain; a cursor that can reach every legal turn |
| React app (`pokedex-web`) | the board, version seen, misses, the turn on its way | polls on a timer, turns, lobby | the board never goes back and shows the newest version |
| htmx app (`pokedex-htmx`) | cookie, cache of floats | fragments for each request | a fragment is the battle as it is |
| Command line (`pokedex-cli`) | saved identity, the binary on disk | one call per command, `watch`, self-update | a watch ends when the opponent has moved |

How they interact. A client sends its token with every call; a handler looks the
token up (and touches it), then makes one to three more store calls. Nothing
holds between two store calls of a handler, so other requests, of this replica
or another, come in between. Within Postgres each statement outside the
transactions of `create` and `update` commits by itself. Clients learn of the
other player's move only by polling `GET /battles/{id}` for a higher version.
Nobody deletes a battle or a trainer explicitly: the sweeps do, inside the
calls that happen to run them. Replicas and seed jobs meet in the database when
they start: they migrate one after the other, a job rewrites the reference
tables, a replica reads them once and keeps what it read until it is replaced.

Hard behaviours, each listed at its line under `hazards` in `PROJECT.json`:
two replicas deciding on the same row; the retry loop on 40001; a commit whose
answer is lost; sweeps whose DELETE acts on an older selection; a cap checked in
one call and used in the next; a best-effort touch that fails; a disabled move
that is never cleared; results of background calls that arrive after the screen
has changed; processes of two releases that start, seed and die together; a
cursor into a dex that has been replaced; a probe slot on every way out of a
request; server and client generated at different times.

## 2. Modules

| Module | Models | Code |
| --- | --- | --- |
| `Stats` | stage clamping, accuracy, whether a move lands | `stats.go` |
| `Battle` | the rules: `Init` = `newBattle`, `Join`, `TakeTurn` | `battle.go` |
| `Duel` | what a battle promises, without moves or hit points | abstract |
| `BattleView` | `ToAPI`, `SideIndex`, `MyTurn`, `CheckTurn` | `battle.go` 678-726, `client.go` |
| `Picks` | the turns the phone and the React page let their player pick, from the projection | `pokedex-mobile/battle.go`, `pokedex-web/client/shared.ts`, `Battle.tsx` |
| `AtomicBattle` | what callers are promised: a call takes effect at one instant, or not at all | abstract |
| `PgBattle` | `pgStore.update` / `attemptUpdate` against a sweep | `pgstore.go` 209-305 |
| `Lobby` | trainers, battles by id, ages, requests in flight; the promises of both stores | `battle_handlers.go` |
| `MemLobby` | the store calls under the mutex | `memStore` |
| `PgLobby` | the store calls as Postgres statements | `pgstore.go`, `game.sql` |
| `Service` | the lobby on the one store or the other | `server.go` |
| `Rollout` | start, migrate, seed, load, serve, stop, die | `main.go`, `server.go`, `migrate.go`, `seed.go`, `pokedex.go`, `queries/reference.sql` |
| `Schemas` | every document of the API: the fields its coders write, require, keep and validate | `api/oas_json_gen.go`, `oas_validators_gen.go` |
| `Operations` | the fifteen operations: request, route, checks, the handler's answers, statuses, decoding | the other `api/oas_*_gen.go`, `server.go`, `battle_handlers.go`, `battleclient/client.go` |
| `Exchange` | one call from its caller to the handler and back, over a network that loses messages | the same, composed |
| `Paging` | a walk over `GET /pokemon`: server's `list`, client's `Paged` | `pokedex.go`, `api/paging.go`, `clients/ts/paging.ts` |
| `Breaker` | the transport of both API clients: retries and the circuit breaker | `api/client.go`, `clients/ts/resilience.ts` |
| `Arena` | the server as a polling program sees it: status, turn, version, log length | `battle.go` |
| `Mobile` | the phone: screens, background calls, the channel of results, `apply`, `keepWatching` | `pokedex-mobile` |
| `Tui` | the terminal app: keys, commands, `Update`, polls and misses | `pokedex-tui` |
| `Page` | the React page of a battle: timer, polls, misses, turns beside them | `useBattle.ts`, `Battle.tsx`, `pokedex-web/battle.ts` |
| `Screens` | `Mobile` or `Page`, as the player chose, in front of one `Arena` | |
| `BattleProofs`, `PgBattleProofs`, `ServiceProofs`, `RolloutProofs`, `ClientProofs` (`Breaker` and `Paging`), `ExchangeProofs`, `TuiProofs`, `ScreensProofs` (`Mobile` and `Page`) | theorems | |
| `MC*` | instances for TLC | |

`Battle` refines `Duel` (`ImplementsDuel`: standing is the set of slots with
hit points). `PgBattle` extends `AtomicBattle` and refines it with the identity
mapping (`ImplementsAtomic`); its rows keep of a battle what the guards of
`join` and `takeTurn` read, and what a turn makes of the rest is `Battle`'s. The
lobby modules use `update` as one step, which is what `ImplementsAtomic`
permits. `Service` extends `PgLobby` and instantiates `MemLobby` over the same
variables; `Exchange` composes the client, the router and the checks of
`Operations` over the documents of `Schemas`. `Picks` extends `BattleView`, and
is checked on every state of `Battle`. `Mobile`, `Tui` and `Page` extend
`Arena`, which keeps of `Battle` what a program that polls can tell apart: a
turn passes the move on or ends the battle, adds one to the version
(`VersionCountsUpdates`) and one to four entries to the log (the move, what it
did, who fainted, who won; `LogOutgrowsVersion`).

State and actions correspond to the code as follows.

* **Battle.** A variable per field; sides are 1, 2 and slots and moves start at
  1 where Go starts at 0. `TurnVerdict` has the refusals of `takeTurn` in their
  order. A turn is one action: the confusion check, the move and `finishTurn`
  are disjuncts and operators of `TakeTurn`, as they are one call under the
  store's lock. Damage is any amount from 1 to what is left, or 0 against an
  immune target (`damage` rounds up to 1), so the properties hold for every
  formula and every roll. The log is kept as its length.
* **PgBattle.** `Read` is `BeginTx`, the SELECT and `fn`; `Commit` the UPDATE,
  the sides and COMMIT; `SerializationFailure` is 40001, certain when the row
  has changed and possible at any time; `Retry` is the wait; `DatabaseError`
  any other error. `SweepSelect` and `SweepDelete` are the two halves of
  `SweepBattles`. Postgres is modelled by what the statements do: a write to a
  row changed since the snapshot is refused under SERIALIZABLE; a DELETE under
  READ COMMITTED evaluates its subquery once.
* **Lobby.** Times are ages that stop growing past the TTLs. Time passes only
  while no request is in flight: a request lasts milliseconds, the shortest TTL
  is two hours. Tokens and ids are drawn at random in the code and never repeat
  here; once the ids of an instance are used up, no further battle is opened.
  Whose turn it is is left to `Battle`.
* **PgLobby.** A DELETE is two steps, the selection and the deletion; a row
  updated between them is looked at again for its own columns (`last_seen`),
  not for its subquery (`NOT EXISTS` over `battle_sides`), as READ COMMITTED
  does. Foreign keys, the unique index on `waiting_for_token` and ON DELETE
  CASCADE are part of the statements that meet them. The touch of a token may
  fail in any request, which is logged and no more (second half of
  `TouchTrainer`). `missed` is a history and guards nothing: the tokens that had
  been idle for longer than their TTL when such a touch failed, until one
  succeeds.
* **Picks.** A turn is `<<attacker, move, target>>`. `PhoneTurns` is what the
  rows of buttons enable, `PageTurns` what the cards and `checkTurn` leave,
  `LegalTurns` what `takeTurn` accepts.
* **Mobile.** `go1` starts a call in a free place of `call`; its result waits
  there until `Apply`, which puts it on the screen the player is on by then.
  `Serve` is the server's half: it accepts and answers, accepts and loses the
  answer, or refuses. `KeepWatching` is a frame of the battle screen. The other
  player acts through `TheyPlay`. A turn's three taps are `BeginPick` and
  `Send`; `pick` is the view the turn was begun on. The player has registered
  and has a team.
* **Tui.** One action per message branch of `Update` and one per key that starts
  a command. A command that `Update` returns takes the place of the one whose
  message it handled (`Follow`); keys need a free place, which bounds the
  commands at once. The cursors are left out.
* **Screens.** `program` is the phone or the page, chosen at the start, as a
  player uses one of them; the other one stays as it began. The terminal, which
  can enter a second battle while answers of the first are on their way, has a
  run of its own.
* **Service.** `store` is chosen once, as `handler` does by `DATABASE_URL`, and
  never changes; `OnPostgres` and `OnMemory` run the lobby's requests on it.
* **Breaker.** `Begin` is `Do` up to the first send, `Answer` an attempt's end
  (another wait, or `record`), `Resend` the end of the wait, `GiveUp` the
  caller's cancellation during an attempt or a wait. Times are ages, and how
  long a request takes is open: the defaults allow a wait of 30 s (Retry-After)
  beside attempts of 5 s, as long as the cooldown of 30 s. `client` is the
  language of the program and stays: it decides what a cancelled wait leaves for
  `record`, the one place where the two clients differ (`GivenUp`).
* **Rollout.** A process is a replica or a seed job, of one release; `pc` is the
  statement it is about to run. `Start` to `Unlock` are `handler` or `runSeed` up
  to the end of `migrate`; `UpsertMoves` to `CommitSeed` the one transaction of
  `seed`, kept in `buffer` until it commits; `LoadMoves`, `LoadPokemon` and
  `LoadLinks` the three statements of the load, each of its own moment. A link
  is a move the Pokemon fights with or one it can learn, and `LoadLinks` is also
  `buildPokedex`, which treats the two differently: it refuses the whole dex for
  a move to fight with that is not in the catalogue read, and passes over one to
  learn (`learnableFor`; `Served` is what is left). `Crash` is a kill, an eviction
  or the end of the 30 seconds `handler` has, between any two statements or while a
  commit is on its way; the database learns of it later (`EndSession`), and until
  then the dead session has its lock and its transaction. A migration is
  abstracted to whether its SQL is in the schema, and fails when it already is,
  as 002's constraint does.
* **Schemas, Operations, Exchange.** A document is the set of fields it carries;
  an argument is the length of a text or a number, on both sides of each bound.
  `Call` is a method of the generated client, which checks nothing; `Dispatch`
  the router; `Check` one decoder with its validator; `Handle` the service's
  handler, which may give any of its answers with any optional fields set, and
  the encoder; `Receive` the response's decoder and battleclient's switch;
  `Lose` a message that never arrives. `Stray` is a request of a browser or a
  probe. What a handler does is the other modules' business.
* **Paging.** `dex` maps the ids a deployment lists to whether they match the
  filter. `Fetch` is a request and `list`'s answer (`Listed`: the first `limit`
  after the cursor, and a next cursor only if something is left), `Yield` the
  round of `Paged` or `paging.ts`, `Break` a caller that stops, `Redeploy` a pod
  with another dex. `stable` is history: what every dex served so far lists.
* **Page.** `poll` is the one timer of `useBattle`, or its request, or the
  answer; `turn` is the button's. `Ready` stands for the pages before it, whose
  create or join has been answered. A hidden tab re-arms the timer and asks
  nothing. A turn is answered by the page's own server, which says 409 of every
  error the API gives it: a turn that was taken and whose answer was lost may
  reach the board as a refusal. Stopping replaces the board, whose own
  state goes with it.

## 3. Runs

| Run | Shows | Bounds |
| --- | --- | --- |
| `battle` | any play of five turns keeps the types, decides a battle exactly on defeat, leaves the mover an attack, counts versions; the battle is the duel promised; a client's check and the turns it offers are the server's, for every request, in range or not | 3 trainers (one a stranger), teams of 2, a dex of two species with every kind of effect, hit points 2 and 3, rolls on each side of both thresholds, stages clamped at 1 |
| `pg_battle` | two requests, retries, lost commits and a sweep are as good as instantaneous calls, and each is answered | 2 requests, 1 sweep, 2 attempts, versions to 4 |
| `service` | on either store, sweeps between a handler's calls take nothing that is in use, except from a trainer past the TTL whose touch failed; on Postgres the cap, the side rows and the waiting places hold under two replicas' statements | 2 names, 2 tokens, 2 ids, 2 requests, touches that fail in any of them, TTLs 0, 1, 1, a sweep batch of 1 |
| `service_touch` | finding: a trainer whose touch failed is swept from a battle | the same |
| `rollout` | migrations run once, what is served is whole, and replicas come back | 2 replicas and 2 jobs of two releases (2 and 3 migrations; links of both kinds), 2 crashes, 3 seeds |
| `exchange` | legal calls reach their handler and its answer the caller, illegal ones none | all 15 operations, each bound from both sides, 4 stray requests |
| `exchange_conflict` | finding: a refused create has no reason | the same |
| `paging` | a walk over a changing dex is whole, lists nothing twice and ends | 5 ids, pages of 2, every subset of them and every filter |
| `breaker` | in either client somebody holds the probe slot, a POST is sent once, giving up proves nothing, the circuit never stays open for good | 3 callers, 2 requests to judge by, window 1, cooldown 1, 1 retry, 3 outcomes held |
| `mobile_move` | finding: the opponent's move is not shown once turns log two entries | 1 call and 1 watch at once, versions to 5 |
| `tui` | a battle that is entered is polled, its screen has one, and in the end shows it at its newest, whatever answers of the other battle come late | 2 battles, one to version 3 and one that is opened only, 2 commands at once, 1 log entry a turn, 2 misses |
| `screens` | the phone never thinks its watch runs when it does not, picks a turn on what it shows, and gets its controls back; the React page never goes back and shows the newest version in the end | 1 battle, versions to 4, 2 calls and 1 watch at once, 2 log entries a turn, 2 misses |

Why the bounds are enough. Five turns on teams of two with two and three hit
points reach every way a battle ends, a confused knock-out of one's own last
Pokemon and a disable of both sides among them; a longer battle repeats these
states with other numbers, and the theorems of section 4 remove the bounds. Two
requests are what a race needs, and two attempts make the loop both retry and
give up. One cutoff in place of two shows, as the TTLs of a battle and of a
waiting one differ; the batch of one makes a sweep leave an expired battle
behind. Two tokens are two trainers in one battle, or one name claimed again
after its sweep; where both would have to happen at once, section 4 goes on. Two
releases with different moves, a Pokemon in both, a link of each kind to a move
of the newer and a Pokemon in the newer alone are what a torn read needs; two
crashes are one in a transaction and one of whoever waits for its lock. Pages of
two among five ids give a full, a last and a partial page. For the clients, two
calls of a kind are what it takes for one result to overtake another, and four
versions are an opening, a join and a turn of each side. A result arrives in the
wrong battle in `tui`, with two battles; a second one that is opened and not
played is enough for that, as `Update` reads nothing of it but its number. Three
callers of the breaker are a request sent before the circuit opened, the probe,
and one more.

Fairness. `PgSpec` has weak fairness on `Step(r)`, the steps of a request a
replica has taken: the goroutine of the handler goes on, and every wait in
`update` is bounded (`EveryCallAnswered` then follows from the bound on
attempts). No fairness is assumed of new requests, sweeps or time.
`Rollout` has it on the steps of a process that runs, on the end of a dead
client's session (the database's keepalive) and on the start of a replica (the
platform restarts it); nobody has to run a seed. `Paging` has it on the loop's
two halves; its `Fail` may always come instead. `ScreensSpec` has the fairness
of both programs, of which the one that is not used owes nothing.
`MobileFairness` is weak on
frames (the app draws while it runs), on results (each frame drains the channel)
and on the end of each call (all have a deadline), and strong on an answer of a
watch that could be had again and again: polls do not fail forever. Nothing is
assumed of either player. `TuiFairness` is weak on `Update` and on the end of
each command, and strong on a poll's answer; `PageFairness` is weak on timers,
on the end of each fetch and on what the page does with it, and strong on a
battle that is found. `BreakerFairness` has clocks that run, attempts and waits
that end, and somebody who keeps calling, without whom an open circuit owes
nothing. The other runs check safety only. `MCBattle` allows deadlock, since a
finished battle stops and `MaxTurns` ends play; so does `MCRollout`, where
everybody serves and nobody has a crash or a seed left.

### Findings

Each is a run whose property TLC finds violated, and quotes what the repository
says of the code.

1. `mobile_move`: `lastSeen` is the length of the log and `Watch` compares
   versions. The log grows faster, so a watch waits for a version that the
   opponent's turn does not reach, and times out; it is started again with the
   same number (`pokedex-mobile/main.go:220`, `battle.go:313`). With
   `Entries = {1}` the property holds: nothing else stands in the way.
2. `exchange_conflict`: `Create` has no case for the 409 of a second waiting
   battle, so its reason never reaches the player
   (`battleclient/client.go:163`; `openapi.yml:361`).
3. `service_touch`: `trainerByToken` logs a failed `TouchTrainer` and goes on. A
   trainer who comes back after a week may so open or join a battle between the
   selection of a sweep, which looks at the side rows, and its DELETE, which
   looks at `last_seen` again but not at the rows, and is taken away in the
   middle of it (`pgstore.go:360`); "A trainer in a battle is never swept,
   whatever this says." (`pokedex/battle.go:29`). `PlayersKeepTokens`, which
   `service` checks and `PlayersKept` proves, says that this is the only way.

The models behave as the code does in these places too, where it differs from
its comments or surprises. No run is spent on them; where a property
speaks of one, it is named.

* `SweepBattles`' DELETE removes every id its subquery selected; a turn committed
  in between is lost with its battle (`queries/game.sql:140`; the comment, line
  112: "Drops battles nobody has touched inside the TTL.").
* The in-memory `create` does not look at the cap again, so two requests of one
  trainer open two battles (`pokedex/battle.go:321`; line 32: "One waiting battle
  per trainer"). Under Postgres the unique index refuses the second.
* A breaker's `record` gives the slot back whoever reports, so a request from
  before the circuit opened frees the probe's and a second probe goes out
  (`pokedex/api/client.go:308`; line 265: "everyone else waits for its verdict
  rather than joining it").
* In TypeScript a wait that is cancelled leaves the 5xx of the last attempt to
  `record`, which counts it; in Go it is ignored (`clients/ts/resilience.ts:449`).
  `GivingUpProvesNothing` says of a wait given up in TypeScript what may be
  counted: that answer, once, as a failure exactly when it was one.
* A dex loaded while a job of another release commits has Pokemon of both, each
  with all the moves it fights with, until the replica restarts. When the
  catalogue was read before the commit and the links after it, the newer of the
  moves to learn are left out without a word; `MovesetsAreWhole` says so
  (`seed.go:79`, `pokedex.go:185`). What a release drops stays in the tables.
* A turn the terminal is refused counts as a missed poll, and the fifth of either
  in a row ends a battle that goes on (`pokedex-tui/model.go:162`).
  `BattleScreenHasBattle` and `BattleIsPolled` hold of it: the battle is left as
  a whole.
* The terminal shows whichever battle message comes last, so an older version
  replaces a newer one until the next poll, and so does the other battle's
  (`pokedex-tui/battle.go:130`, `model.go:173`). `NewestIsShown` says that they
  give way.
* The phone's battle screen returns on the error of `SideFor` before it reaches
  `keepWatching`, and a waiting battle has one side: its opener is not shown the
  join (`pokedex-mobile/battle.go:31`).
* Every result clears the phone's `busy`, also a lobby's; a second turn can be
  sent beside the first (`pokedex-mobile/main.go:189`, `battle.go:196`). The
  server refuses the second unless the opponent has moved in between.
* `confirmLeave` is cleared by leaving with back only (`screens.go:393`).
* esc in the terminal's team picker shows the lobby without a command, after the
  last lobby message was dropped there: it is not polled (`pokedex-tui/keys.go:126`).
* `clampAlive` reads `canAct`, which `toAPI` shows as false for the whole side
  that does not move: the target cursor falls on the first Pokemon, fainted or
  not (`pokedex-tui/battle.go:259`).
* The page's server answers 404 for every error of the API, and five of them,
  which only a battle that arrives resets, end the page with a message that the
  battle is over (`useBattle.ts:36`, `pokedex-web/battle.ts:259`).
* The guard of both walks against a cursor that comes back (`api/paging.go:71`)
  has nothing to do: the server's cursors only go up. `WalkEnds` holds without it.
* A turn names no version: one picked on an older board is taken if it is legal
  on the newer one.
* The lobby's row stays busy when the fetch behind it throws (`Lobby.tsx:97`).
* `Register` claims the name before it saves the identity; a name whose save
  fails is out of reach until the sweep (`battleclient/client.go:124`).
* Index 0, the htmx app's answer to an unreadable form, is refused once the first
  Pokemon has fainted or its first move is disabled (`pokedex-htmx/routes.ts:398`).

## 4. Proofs

`BattleProofs`, for every dex, team size, set of trainers and bound on turns.
The inductive invariant `IInv` is `TypeInv` (the types; `TeamsKnown`, a joined
side has species; `PlayersDiffer`, from `errAlreadyIn`), `WaitingIsFresh`,
`DefeatDecidesBattle`, `VersionCountsUpdates` and `LogOutgrowsVersion`.
`DefeatDecidesBattle` is not inductive alone: that a battle just joined has both
sides standing needs the opener's team fresh while it waits and both teams
known. The proof turns on one lemma, `TurnHasShape`: whatever the move, a turn
lowers the hit points of one slot and ends in `FinishTurn`. From it
`TurnDecides` shows that the turn decides the battle exactly on defeat, and
`TurnHurtsOne` gives `OnlyConfusion` and `NoHealing`. `NoHealing` and `MoverCan`
add `DisabledIsStrongest` (what is disabled is the species' strongest move):
with two damaging moves one is always left. `TwoDamagingMoves` is an assumption
of `MoverCan`, a fact of the dex which TLC checks of the instance's
(`DexAssumption`). `Implements` shows that a battle refines `Duel`. `Verdicts`
proves that the client's check agrees with the server's guards. `Offered` does
the same for what the phone and the React page enable: `ActiveView` reads the
projection of an active battle back into its state, and `TurnsAre` says which
turns the rows of buttons make.

Two more theorems of `BattleProofs` join the models that speak of one battle at
different levels. `SeenAsArena`: seen from either side, a battle starts as
`Arena`'s `Opened` and each of its steps is one of `Arena`'s `Results`, for the
player or the other one; so what is shown of the phone, the terminal and the
page, which poll an `Arena`, holds of battles that follow the rules.
`RowsAreBattles`: the fields of a battle that a store's guards read start as
`AtomicBattle`'s `Opened`, each step is an accepted call's outcome there, and
`join` and `takeTurn` refuse for the reason `Verdict` gives, unless it is one
about the move. Both need of the rules that a turn ends the battle or passes the
move on, with one version more and one to four entries (`TurnIsSeen`), and that
the opener is to move while nobody has joined (`OpenerIsNext`, added to `IInv`).

`PgBattleProofs`, for every number of requests, sweeps and attempts. `PgInv` is
the types, `PendingIsRunning`, and `WriteFollowsRead`: a request about to write
holds a row its call is accepted for, and one of that call's outcomes. That is
what makes `Commit` an `Accept` of `AtomicBattle` at the moment it happens
(`PgImplementsAtomic`); every other step is a `Refuse`, a `Fail`, an `Expire` or
a stutter. What callers rely on is then proved of the abstract battle alone
(`AtomicPromises`) and carried over by the refinement (`PgRowMovesForward`): a
version is never reused or skipped, no late writer changes a battle that is over
or brings back one that was swept, "ok" is only said of what was written and a
refusal only of what was not.

`ClientProofs`, of the breaker: for every policy, number of callers and retries,
and for both clients. `SlotIsHeld` is inductive together with the facts of a
single request (`CallInv`: an idle caller holds no probe, a request that waits
is one that may be repeated). `PostIsSentOnce` follows from `PostNeverWaits`: a
POST is never among the requests that wait, so it is never sent again.
`GivingUp` is about single steps of either client. In Go, and during an attempt
in TypeScript, a caller that gives up records "ignore", which counts as no
outcome and opens nothing. A wait that is given up in TypeScript records the
answer before it, which was not an error of the transport: the outcomes are what
they were and that answer, a failure exactly when it was a 5xx, or none where
the answer opens or closes the circuit. `AttemptsEnd` shows that the circuit and
the requests keep their types, among them that a request is sent at most once
more than its policy has backoffs, since one that waits has a backoff left
(`AttemptsInv`).

Of the walk: for every set of dexes and every page size. `WalkInv` has
`BehindCursor` (everything that stayed and is not beyond the cursor has been
yielded, and what has been yielded is not beyond it) and `PageAhead` (a page
received lies beyond the cursor and leaves nothing that stayed before its next
one). A redeploy keeps both, as it only makes `stable` smaller: that is why the
cursor has to be a place in the order and not a position in the list.
`EndedIsWhole` and `NeverTwice` follow.

`RolloutProofs`, for every number of replicas, jobs and releases. `RunOnceInv`
says that whoever is inside `migrate` has the lock (`LockIsHeld`), that what it
still has to run is what the database lacks (`TodoIsLeft`), and that a
transaction in flight, of a live process or a dead one's session, is the lock
holder's and runs the first migration missing (`OpenIsNext`): the property alone
says nothing of a process that read the list a moment ago. `WholeInv` says that
one seeding transaction at a time has written anything (`OneSeeds`, from the row
two releases share, which `RolloutAssumption` states), that its buffer lists
everything the tables list until it commits (`BufferGrows`), that the tables
have each Pokemon with the links of one release (`FromARelease`), and that the
Pokemon a load has read are still listed when it reads their moves
(`ReadIsListed`). What is served then has of one release all the moves to fight
with, or `LoadLinks` had refused it, and of the moves to learn those in the
catalogue (`ServedWhole`), wherever a seed has cut the load in two.

`ServiceProofs`, for every number of requests, trainers and battles, on either
store. `SameWords` to `SameSweep` put the steps of `MemLobby` into the words of
`Lobby`. `CapInv` holds what the statements of Postgres rest on: a place is held
exactly while its battle waits, so nobody waits twice (`OneEach`), and what a
sweep has selected and not deleted is still expired if someone waits in it
(`PickedExpired`), since a battle never goes back to waiting; `OneWaits`,
`PlacesReleased` and `WaitersKept` follow. `KeptInv` is about tokens, with
touches that may fail. One up for the sweep whose last touch did not fail is
`Ripe`, and none a handler is past the touch with is (`Fresh`): its age is 0, as
time passes only between requests, or its touch failed, before it was up for the
sweep or with a mark in `missed`. So a trainer selected for deletion who is
still ripe when the rows go has not been given a side meanwhile (`PickedIdle`).
The rows are the sides, of the battles there are, whose trainer is there
(`RowsFit`), and `missed` has only tokens that were given out (`MissedFits`).
From these follow `PlayersKept`, `SidesRecorded` and `UsedTokensKept`, without
an assumption about touches. For the memory the touch is part of the look-up,
and `MemKnown` takes the place of the foreign keys. `LivesOnce` needs `CapInv`
too: a selection that is deleted late may hold a battle that is gone by then,
never one not yet opened (`PickedExpired`), so a battle goes from waiting to
active to finished to gone and nowhere else, with the sides it got. `LobbyTyped`
adds the bounds of the ages (`AgesBounded`: nothing but time makes anything
older) and that a place in the request table is free when its request is done.

`TuiProofs`, for every number of commands, battles and misses. `TuiInv`: a
command's message is replaced by what follows it, and every way `Update` handles
a message of a poll is either another poll of the battle entered or leaves no
battle entered (`PollGoesOn`; `ScreenHasBattle`, `TuiTyped`).

`ScreensProofs`, for every number of calls, watches and battles, of the
specification whose runs TLC checks. `ScreensInv` is `PhoneInv` and `PageInv`.
`PhoneInv` adds to the two properties of the phone that a call for one battle
has one, and brings one when it succeeds. A call takes a free place only, so no
watch is overwritten; and every result but a lobby's clears `watching`, so the
one of the watch does, whatever arrived before it (`WatchIsOut`,
`PickIsOfShown`, `PhoneTyped`). `PageInv`: what is shown is what was seen, and
what was seen, or answered and not yet looked at, is not ahead of the server;
with one timer, request or answer at a time, and versions that only grow
(`Grows`), the board cannot go back (`BoardMovesForward`).

`ExchangeProofs`, for all the values of arguments and every request of a
stranger; the operations, routes and documents are the tables of `Operations`
and `Schemas`, as generated. Three facts are shown of the tables, row by row:
the routes know every request the client sends, and nothing else under its path
(`RouteTable`); each decoder knows exactly one type for each status its encoder
sends (`StatusTables`); and what a document's decoder and validator ask for is
always written, while an optional field is read if it was set (`ReadBack`).
`ChecksTable` shows that the generated checks pass exactly the calls that
`openapi.yml` allows, for every integer. `ExchangeInv` then says at each stage
of a call what has been checked, given and answered so far: the properties
themselves speak of its end only. `LegalCallsArrive` and `AnswersAreRead`
follow, and `RefusedAreGarbled`, which no run checks: the 400 of a failed check
is no document of the API, so the caller of a refused request is never told the
reason. `ExchangeAssumption` (ids, names by length, limits and teams by length
are integers) is all that is assumed of the values.

Only model-checked is what is liveness under fairness, which is out of the
prover's reach: `EveryCallAnswered`, `BusyEnds`, `NewestIsShown`,
`PageShowsNewest`, `NeverWedged`, `EventuallyServes`, `WalkEnds`.

## 5. Not modelled, and the plan

Planned, in this order:

1. Ages for `Lobby`'s names: a name swept and claimed again while its battle goes
   on, which `MyTurn` decides by name.
2. Lost answers and turns sent twice by a player, against `AtomicBattle`; the
   command line's `Watch`.
3. `SelfUpdate` (the renames), the htmx app's cache of floats.

Left out: the command line keeps nothing between two commands but the saved
identity, and each command is one call that `Exchange` has; self-update is one
process renaming files with no other part of the system; the htmx page is
rendered anew for each request and polled by a library that is not in the
repository; event wording classifies one log entry without state. Middleware,
metrics, tracing and `FindPath` keep no state of the service, and the type chart
and base stats enter as constants. `PROJECT.json` lists every part with its
status.
