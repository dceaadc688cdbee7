----------------------------- MODULE TokenPool -----------------------------
(***************************************************************************)
(* The download tokens (rd/token_pool.rs) and who uses them: the calls     *)
(* `unrestrict_link` (rd/api/methods2.rs) and `http_range_get`             *)
(* (rd/api/methods3.rs) with the retry loop of the HTTP client             *)
(* (rd/client/exec.rs), the daily bandwidth reset and the hot reload of    *)
(* the configuration (main.rs).                                            *)
(*                                                                         *)
(* The pool is an ArcSwap of the token list with its exhaustion flags, and *)
(* an atomic index beside it.  A call loads the list, leaves it while the  *)
(* server answers, and marks a token afterwards; reset and reload run in   *)
(* between.  There is one source link, so a row of the unrestrict cache is *)
(* the token it was made with.  Delays are left out: a sleep before a      *)
(* retry, the rate limiter and the age of a row are the time between steps.*)
(***************************************************************************)
EXTENDS Integers, Sequences, FiniteSets

CONSTANTS
  Tokens,          \* the Real-Debrid accounts
  Configs,         \* the token lists a config.toml may have
  Unrestricters,   \* callers of unrestrict_link
  Fetchers,        \* callers of http_range_get
  MaxRetries,      \* api.retries_until_failed
  MaxPoolEvents,   \* bound: reloads, resets, exhaustions and busy answers
  NoToken

Callers == Unrestricters \cup Fetchers
ListSet(s) == {s[i] : i \in DOMAIN s}

ASSUME PoolConstants ==
  /\ NoToken \notin Tokens /\ Unrestricters \cap Fetchers = {}
  /\ MaxRetries \in Nat /\ MaxPoolEvents \in Nat
  \* all_download_tokens: the primary token, then the others, none twice
  /\ \A s \in Configs : /\ s \in Seq(Tokens) /\ s # << >>
                        /\ \A i, j \in DOMAIN s : s[i] = s[j] => i = j

VARIABLES
  pool,        \* the state of the pool: [tokens, flags, gen]
  current,     \* TokenPool.current
  ucache,      \* the tokens with a fresh row in the unrestrict cache
  calls,       \* [Callers -> the call in progress]
  config,      \* the token list of the configuration in force
  reload,      \* the hot-reload task: [pc, list]
  spent,       \* Real-Debrid: the accounts that have used up their traffic
  refused,     \* history: tokens refused since the flags were last cleared
  poolEvents   \* how many events of the bounded kinds have happened

poolVars == << pool, current, config, reload >>
tokenVars == << poolVars, ucache, calls, spent, refused, poolEvents >>

NoCall == [pc |-> "idle", token |-> NoToken, slot |-> 0, gen |-> 0, attempt |-> 0,
           tries |-> 0, max |-> 0, fallback |-> FALSE, ranges |-> 0, sends |-> 0,
           calm |-> TRUE, res |-> "none"]

NewPool(list, g) == [tokens |-> list, flags |-> {}, gen |-> g]
Slots(p) == DOMAIN p.tokens
AnyNonExhausted(p) == Slots(p) \ p.flags # {}

PoolHappens == poolEvents < MaxPoolEvents /\ poolEvents' = poolEvents + 1

TokensInit ==
  /\ config \in Configs /\ pool = NewPool(config, 0) /\ current = 0
  /\ ucache = {} /\ calls = [c \in Callers |-> NoCall]
  /\ reload = [pc |-> "idle", list |-> config]
  /\ spent = {} /\ refused = {} /\ poolEvents = 0

----------------------------------------------------------------------------
(* The choice of a token.                                                  *)

(* download_bearer: the first slot that is not exhausted, from the current *)
(* index on; the current one if all are.                                   *)
SlotAt(p, n) == (n % Len(p.tokens)) + 1
BearerSlot(p, cur) ==
  LET usable == {n \in cur..(cur + Len(p.tokens) - 1) : SlotAt(p, n) \notin p.flags}
  IN  IF usable = {} THEN SlotAt(p, cur)
      ELSE SlotAt(p, CHOOSE n \in usable : \A m \in usable : n <= m)

(* eligible_tokens_in_order().first()                                      *)
FirstEligible(p) == CHOOSE i \in Slots(p) \ p.flags : \A j \in Slots(p) \ p.flags : i <= j

SlotOfCurrent(p, t) == SlotAt(p, current)

(* mark_exhausted: the slot of a token in the list it is looked up in.     *)
SlotOf(p, t) == IF t \in ListSet(p.tokens) THEN CHOOSE i \in Slots(p) : p.tokens[i] = t
                ELSE 0

----------------------------------------------------------------------------
(* Steps both calls share.  A call that has ended keeps how it ended until *)
(* its caller takes the result.                                            *)
Set(c, r) == calls' = [calls EXCEPT ![c] = r]
Ended(c, res) ==
  [NoCall EXCEPT !.pc = "done", !.res = res, !.calm = calls[c].calm \/ res # "bandwidth"]

(* The locals of a choice or of a mark that is over.                       *)
Forget(r) == [r EXCEPT !.token = NoToken, !.slot = 0, !.gen = 0]

Marking == {c \in Callers : calls[c].pc \in {"mark", "flag"}}

(* The server refuses the token; the answer is under way.                  *)
Refuse(c) ==
  /\ calls[c].pc = "wait" /\ calls[c].token \in spent
  /\ refused' = refused \cup {calls[c].token}
  /\ Set(c, [calls[c] EXCEPT !.pc = "mark"])
  /\ UNCHANGED << poolVars, ucache, spent, poolEvents >>

(* mark_exhausted loads the list and finds the token in it ...             *)
MarkLoad(c) ==
  /\ calls[c].pc = "mark"
  /\ Set(c, [calls[c] EXCEPT !.pc = "flag", !.slot = SlotOf(pool, calls[c].token), !.gen = pool.gen])
  /\ UNCHANGED << poolVars, ucache, spent, refused, poolEvents >>

(* ... and sets the flag, in a list that may have been replaced.           *)
MarkStore(c) ==
  LET p == calls[c]
  IN  /\ p.pc = "flag"
      /\ pool' = IF p.slot # 0 /\ p.gen = pool.gen
                 THEN [pool EXCEPT !.flags = @ \cup {p.slot}] ELSE pool
      /\ Set(c, IF c \in Unrestricters THEN Forget([p EXCEPT !.pc = "pick"])
                ELSE Forget([p EXCEPT !.pc = "rotate", !.tries = @ + 1]))
      /\ UNCHANGED << current, config, reload, ucache, spent, refused, poolEvents >>

Return(c) ==
  /\ calls[c].pc = "done"
  /\ Set(c, NoCall)
  /\ UNCHANGED << poolVars, ucache, spent, refused, poolEvents >>

----------------------------------------------------------------------------
(* unrestrict_link: the first eligible token, its row in the cache, else a *)
(* POST with that token, which the client repeats.                         *)
UnrestrictLink(c) ==
  /\ c \in Unrestricters /\ calls[c].pc = "idle"
  /\ Set(c, [NoCall EXCEPT !.pc = "pick"])
  /\ UNCHANGED << poolVars, ucache, spent, refused, poolEvents >>

Pick(c) ==
  /\ calls[c].pc = "pick"
  /\ Set(c, IF AnyNonExhausted(pool)
            THEN [calls[c] EXCEPT !.pc = "lookup", !.token = pool.tokens[FirstEligible(pool)]]
            ELSE Ended(c, "bandwidth"))
  /\ UNCHANGED << poolVars, ucache, spent, refused, poolEvents >>

CacheLookup(c) ==
  /\ calls[c].pc = "lookup"
  /\ Set(c, IF calls[c].token \in ucache THEN Ended(c, "ok")
            ELSE [calls[c] EXCEPT !.pc = "wait", !.attempt = 0])
  /\ UNCHANGED << poolVars, ucache, spent, refused, poolEvents >>

(* Network errors, and server errors without a JSON body, are repeated     *)
(* max_retries times; other network errors and a body that cannot be       *)
(* decoded end the call.                                                   *)
PostFails(c) ==
  /\ c \in Unrestricters /\ calls[c].pc = "wait"
  /\ \/ Set(c, IF calls[c].attempt < MaxRetries THEN [calls[c] EXCEPT !.attempt = @ + 1]
               ELSE Ended(c, "error"))
     \/ Set(c, Ended(c, "error"))
     \/ Set(c, Ended(c, "fatal"))  \* an API error that is not to be retried
  /\ UNCHANGED << poolVars, ucache, spent, refused, poolEvents >>

(* An API error with should_retry is repeated without a bound.             *)
PostBusy(c) ==
  /\ c \in Unrestricters /\ calls[c].pc = "wait"
  /\ PoolHappens
  /\ Set(c, [calls[c] EXCEPT !.attempt = IF @ < MaxRetries THEN @ + 1 ELSE @])
  /\ UNCHANGED << poolVars, ucache, spent, refused >>

PostOk(c) ==
  /\ c \in Unrestricters /\ calls[c].pc = "wait" /\ calls[c].token \notin spent
  /\ Set(c, [calls[c] EXCEPT !.pc = "insert"])
  /\ UNCHANGED << poolVars, ucache, spent, refused, poolEvents >>

CacheInsert(c) ==
  /\ calls[c].pc = "insert"
  /\ ucache' = ucache \cup {calls[c].token}
  /\ Set(c, Ended(c, "ok"))
  /\ UNCHANGED << poolVars, spent, refused, poolEvents >>

----------------------------------------------------------------------------
(* http_range_get: `execute` with the bearer of the pool.  max is the      *)
(* number of tokens when `execute` begins.                                 *)
Execute(r) ==
  [r EXCEPT !.pc = "bearer", !.max = Len(pool.tokens), !.attempt = 0, !.tries = 0,
            !.fallback = FALSE, !.sends = 0]

HttpRangeGet(c) ==
  /\ c \in Fetchers /\ calls[c].pc = "idle"
  /\ Set(c, Execute(NoCall))
  /\ UNCHANGED << poolVars, ucache, spent, refused, poolEvents >>

(* The index is stored, after the list was read, when slots were skipped.  *)
(* List and index are read in one step: a reload between the two loads,    *)
(* which would pair the old list with the index of the new one, is left    *)
(* out.                                                                    *)
DownloadBearer(c) ==
  LET slot == BearerSlot(pool, current)
  IN  /\ calls[c].pc = "bearer"
      /\ Set(c, [calls[c] EXCEPT !.pc = IF slot = SlotAt(pool, current) THEN "wait" ELSE "store",
                                 !.token = pool.tokens[slot],
                                 !.slot = IF slot = SlotAt(pool, current) THEN 0 ELSE slot,
                                 !.sends = @ + 1])
      /\ UNCHANGED << poolVars, ucache, spent, refused, poolEvents >>

StoreCurrent(c) ==
  /\ calls[c].pc = "store"
  /\ current' = calls[c].slot - 1
  /\ Set(c, [calls[c] EXCEPT !.pc = "wait", !.slot = 0])
  /\ UNCHANGED << pool, config, reload, ucache, spent, refused, poolEvents >>

MayFallBackAgain(r) == r.attempt = 0

(* After a network error the original host is tried once, then the request *)
(* is repeated max_retries times.                                          *)
MayFallBack(r) == ~r.fallback /\ r.attempt = 0
GetNetworkError(c) ==
  /\ c \in Fetchers /\ calls[c].pc = "wait"
  /\ Set(c, CASE MayFallBack(calls[c]) ->
                   [calls[c] EXCEPT !.pc = "bearer", !.fallback = TRUE]
              [] ~MayFallBack(calls[c]) /\ calls[c].attempt < MaxRetries ->
                   [calls[c] EXCEPT !.pc = "bearer", !.attempt = @ + 1]
              [] OTHER -> Ended(c, "error"))
  /\ UNCHANGED << poolVars, ucache, spent, refused, poolEvents >>

(* Another status than success, or 200 for a range.                        *)
GetFails(c) ==
  /\ c \in Fetchers /\ calls[c].pc = "wait"
  /\ Set(c, Ended(c, "error"))
  /\ UNCHANGED << poolVars, ucache, spent, refused, poolEvents >>

GetNoContentRangeUncounted(c) ==
  /\ c \in Fetchers /\ calls[c].pc = "wait" /\ calls[c].token \notin spent
  /\ Set(c, Execute(calls[c]))
  /\ UNCHANGED << poolVars, ucache, spent, refused, poolEvents >>

(* 206 without a Content-Range: the whole `execute` is repeated.           *)
GetNoContentRange(c) ==
  /\ c \in Fetchers /\ calls[c].pc = "wait" /\ calls[c].token \notin spent
  /\ Set(c, IF calls[c].ranges < MaxRetries
            THEN [Execute(calls[c]) EXCEPT !.ranges = @ + 1] ELSE Ended(c, "error"))
  /\ UNCHANGED << poolVars, ucache, spent, refused, poolEvents >>

GetOk(c) ==
  /\ c \in Fetchers /\ calls[c].pc = "wait" /\ calls[c].token \notin spent
  /\ Set(c, Ended(c, "ok"))
  /\ UNCHANGED << poolVars, ucache, spent, refused, poolEvents >>

MayRotateOffByOne(r) == r.tries < r.max - 1

(* After a bandwidth error, the next token if the list may have one.       *)
MayRotate(r) == r.tries < r.max
Rotate(c) ==
  /\ calls[c].pc = "rotate"
  /\ Set(c, IF MayRotate(calls[c]) /\ AnyNonExhausted(pool)
            THEN [calls[c] EXCEPT !.pc = "bearer", !.attempt = 0]
            ELSE Ended(c, "bandwidth"))
  /\ UNCHANGED << poolVars, ucache, spent, refused, poolEvents >>

----------------------------------------------------------------------------
(* The reset and the reload.  Whatever clears the flags leaves the marks   *)
(* that are under way, and ends the calm of every call that has not ended  *)
(* otherwise.                                                              *)
StaysCalm(c) == calls[c].pc = "idle" \/ calls[c].res \in {"ok", "error", "fatal"}
FlagsCleared ==
  /\ refused' = {calls[c].token : c \in Marking}
  /\ calls' = [c \in Callers |-> [calls[c] EXCEPT !.calm = StaysCalm(c)]]

(* clear_all_exhausted, by the bandwidth loop at its midnight or when it   *)
(* missed one.  The flags are cleared one after the other; one step here.  *)
DailyReset ==
  /\ PoolHappens
  /\ pool' = [pool EXCEPT !.flags = {}] /\ FlagsCleared
  /\ UNCHANGED << current, config, reload, ucache, spent >>

(* reload_credentials: update_tokens replaces the list, also by an equal   *)
(* one, then the index; then the unrestrict cache is dropped if the tokens *)
(* have changed, and the configuration takes effect.                       *)
ReloadTokens(list) ==
  /\ PoolHappens /\ reload.pc = "idle"
  /\ reload' = [pc |-> "current", list |-> list]
  /\ pool' = NewPool(list, pool.gen + 1) /\ FlagsCleared
  /\ UNCHANGED << current, config, ucache, spent >>

ReloadCurrent ==
  /\ reload.pc = "current"
  /\ reload' = [reload EXCEPT !.pc = "clear"] /\ current' = 0
  /\ UNCHANGED << pool, config, ucache, calls, spent, refused, poolEvents >>

ReloadConfig ==
  /\ reload.pc = "clear"
  /\ reload' = [reload EXCEPT !.pc = "idle"] /\ config' = reload.list
  /\ ucache' = IF reload.list # config THEN {} ELSE ucache
  /\ UNCHANGED << pool, current, calls, spent, refused, poolEvents >>

(* A row of the cache passes its TTL, the sweep removes it, or a read that *)
(* failed with its link does.                                              *)
RowExpires(t) ==
  /\ t \in ucache /\ PoolHappens
  /\ ucache' = ucache \ {t}
  /\ UNCHANGED << poolVars, calls, spent, refused >>

(* Real-Debrid: an account uses up its traffic; a new day begins there.    *)
Exhaust(t) ==
  /\ t \notin spent /\ PoolHappens
  /\ spent' = spent \cup {t}
  /\ UNCHANGED << poolVars, ucache, calls, refused >>
NewDay ==
  /\ spent # {} /\ PoolHappens
  /\ spent' = {}
  /\ UNCHANGED << poolVars, ucache, calls, refused >>

CallStep(c) ==
  \/ Refuse(c) \/ MarkLoad(c) \/ MarkStore(c)
  \/ Pick(c) \/ CacheLookup(c) \/ CacheInsert(c) \/ PostOk(c) \/ PostFails(c) \/ PostBusy(c)
  \/ DownloadBearer(c) \/ StoreCurrent(c) \/ Rotate(c)
  \/ GetOk(c) \/ GetNetworkError(c) \/ GetFails(c) \/ GetNoContentRange(c)

PoolEnvironment ==
  \/ DailyReset \/ NewDay
  \/ \E list \in Configs : ReloadTokens(list)
  \/ \E t \in Tokens : Exhaust(t) \/ RowExpires(t)

ReloadStep == ReloadCurrent \/ ReloadConfig

TokensNext ==
  \/ \E c \in Callers : CallStep(c) \/ Return(c)
  \/ \E c \in Unrestricters : UnrestrictLink(c)
  \/ \E c \in Fetchers : HttpRangeGet(c)
  \/ PoolEnvironment \/ ReloadStep

TokensFairness ==
  /\ \A c \in Callers : WF_tokenVars(CallStep(c))
  /\ WF_tokenVars(ReloadStep)

TokensSpec == TokensInit /\ [][TokensNext]_tokenVars /\ TokensFairness

----------------------------------------------------------------------------
(* A token is flagged only because Real-Debrid refused this token, since   *)
(* the flags were last cleared or in an answer that was under way then:    *)
(* reloads that reorder the list while a request is out never make         *)
(* mark_exhausted hit another account.                                     *)
FlagsHaveCause == \A i \in pool.flags : pool.tokens[i] \in refused

(* README: "seamlessly rotates through a pool of backup tokens".  A call   *)
(* that no reset or reload disturbed gives up for want of bandwidth only   *)
(* when every token of the pool has been refused, although other calls     *)
(* flag tokens and move the index at the same time.                        *)
RotatesThroughPool ==
  \A c \in Callers :
    calls[c].res = "bandwidth" /\ calls[c].calm => ListSet(pool.tokens) \subseteq refused

(* One `execute` for a download sends at most max_retries + 1 requests per *)
(* token it may try, and one more to the original host, however the list   *)
(* changes meanwhile.                                                      *)
SendsBounded ==
  \A c \in Fetchers : calls[c].sends <= 1 + calls[c].max * (MaxRetries + 1)

(* Every call ends, if Real-Debrid does not answer "try again" for ever    *)
(* (exec.rs repeats that without a bound).                                 *)
CallsEnd == \A c \in Callers : []<>(calls[c].pc \in {"idle", "done"})
=============================================================================
