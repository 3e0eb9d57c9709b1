-------------------------------- MODULE Mail --------------------------------
(***************************************************************************)
(* The mailbox service of the center node: its requests                     *)
(* (service/mailbox/cmd.lua), the cache of mailboxes (lualib/cache_mgr.lua,  *)
(* lualib/cache.lua, service/mailbox/mailbox.lua, mailbox_mgr.lua) and the   *)
(* rows of maildb_snax.                                                    *)
(*                                                                         *)
(* The coroutines of the service yield in calls of maildb, in the forks of   *)
(* the garbage collection and in its sleep.  One of the two lists of mails    *)
(* of a mailbox is modelled; they are served alike.  Mailbox:_init does not   *)
(* call Cache:_init, so that a new mailbox has no times and no _ref_cnt.     *)
(*                                                                         *)
(* A behaviour runs in one of Worlds, the set of what happens in it besides   *)
(* requests, the update pass and an exit that finds the service at rest:     *)
(*   "busy"    exit begins while requests or a collection are under way      *)
(*   "late"    requests arrive while exit is under way                      *)
(*   "expire"  mails expire before they are pulled                          *)
(*   "dberr"   the set of maildb raises                                     *)
(***************************************************************************)
EXTENDS Naturals, FiniteSets, FiniteSetsExt, Sequences, SequencesExt

CONSTANTS
  Box,               \* mailboxes, by role_uuid
  None,              \* Lua nil
  max_cnt,           \* cache_max_cnt
  MAIL_CACHE_LIMIT, MAILBOX_LIMIT,
  Worlds,
  MaxMail,           \* bound: mails sent in each world
  MaxObj             \* bound: Mailbox objects alive together

ASSUME NoneAssumption == None \notin Box
ASSUME CountAssumption == max_cnt \in Nat \ {0} /\ MAIL_CACHE_LIMIT \in Nat /\ MAILBOX_LIMIT \in Nat \ {0}
ASSUME WorldsAssumption == Worlds \subseteq SUBSET {"busy", "late", "expire", "dberr"}
ASSUME BoundAssumption == MaxMail \in [Worlds -> Nat] /\ MaxObj \in Nat

VARIABLES
  world,
  \* CacheMgr: the objects in hot_map, cold_map and gc_map
  hot, cold, gc,
  obj,       \* object -> its mailbox, mails, last_access_time, last_save_time
  collector, \* who runs _gc: "nobody", "swap", "update", "exit"
  round,     \* object -> where its gc_item is, and what it sends to maildb
  exit,      \* on_exit: "no", "wait" for the gc_lock, "gc", "done"
  reqs,      \* requests that wait for maildb's get
  row,       \* mailbox -> mails in maildb
  expired,   \* mails older than MAIL_EXPIRE_TIME
  sent,      \* mails sent so far
  \* history: mails accepted for, and pulled from, each mailbox
  accepted, taken

maps == << hot, cold, gc >>
gcvars == << collector, round, exit >>
history == << accepted, taken >>
vars == << world, maps, obj, gcvars, reqs, row, expired, sent, history >>

Obj == 1 .. MaxObj
Mail == UNION {1 .. MaxMail[w] : w \in Worlds}

\* Times matter as "nil" (never set), "new", or "old" (further back than
\* cache_ttl or cache_save_cd).
Time == {"nil", "new", "old"}

Blank == [box |-> None, mails |-> << >>, access |-> "nil", saved |-> "nil"]
NotInRound == [st |-> "none", dump |-> << >>]

Init ==
  /\ world \in Worlds
  /\ hot = {} /\ cold = {} /\ gc = {}
  /\ obj = [o \in Obj |-> Blank]
  /\ collector = "nobody" /\ exit = "no"
  /\ round = [o \in Obj |-> NotInRound]
  /\ reqs = {}
  /\ row = [b \in Box |-> << >>]
  /\ expired = {} /\ sent = 0
  /\ accepted = [b \in Box |-> << >>]
  /\ taken = [b \in Box |-> << >>]

Live == hot \cup cold \cup gc
InRound == {o \in Obj : round[o].st \notin {"none", "done"}}
Of(map, b) == {o \in map : obj[o].box = b}

\* The objects change to new; those that nothing refers to are gone.
Objects(new) == obj' = [o \in Obj |-> IF o \in Live' \cup InRound' THEN new[o] ELSE Blank]

-----------------------------------------------------------------------------
(* CacheMgr:gc, by the update pass or by the fork of a swap: refused while   *)
(* another one runs, nothing to do without items.                           *)
Items(g) == [o \in Obj |-> IF o \in g THEN [NotInRound EXCEPT !.st = "save"] ELSE NotInRound]

Gc(g, by) ==
  IF collector = "nobody" /\ exit = "no" /\ g # {}
    THEN collector' = by /\ round' = Items(g) /\ UNCHANGED exit
    ELSE UNCHANGED gcvars

\* add_gc for the objects of S: one entry for each mailbox
AddGc(g, S) == {o \in g : \A p \in S : obj[p].box # obj[o].box} \cup S

\* A swap finds mailboxes in the old cold_map c: has_ref raises on the first.
SwapFails(o, c) == o \notin hot /\ Cardinality(hot) + 1 >= max_cnt /\ c # {}

(* add_hot(o), with c and g left of cold_map and gc_map: the maps are        *)
(* swapped when hot_map is full, and what was in cold_map is gone.           *)
AddHot(o, c, g) ==
  /\ gc' = g
  /\ IF Cardinality(hot) + 1 < max_cnt
       THEN hot' = hot \cup {o} /\ cold' = c /\ UNCHANGED gcvars
       ELSE /\ hot' = {} /\ cold' = hot \cup {o}
            /\ IF c = {} THEN Gc(g, "swap") ELSE UNCHANGED gcvars

-----------------------------------------------------------------------------
(* Requests.                                                                *)

\* send_mail on the mails of a mailbox, unless there are too many
Sent(r, mails) == IF Len(mails) < MAIL_CACHE_LIMIT THEN << r.mail >> ELSE << >>

\* pull_mails returns the first mails that have not expired, and takes as many
\* from the head of the list.
Pulled(mails) ==
  LET ret[i \in 0 .. Len(mails)] ==
        IF i = 0 THEN << >>
        ELSE IF mails[i] \in expired \/ Len(ret[i - 1]) = MAILBOX_LIMIT THEN ret[i - 1]
        ELSE Append(ret[i - 1], mails[i])
  IN  ret[Len(mails)]

(* The rest of a request that got the object o, which becomes x.             *)
Serve(r, o, x) ==
  LET in == IF r.kind = "send" THEN Sent(r, x.mails) ELSE << >>
      out == IF r.kind = "pull" THEN Pulled(x.mails) ELSE << >>
  IN  /\ Objects([obj EXCEPT ![o] =
           [x EXCEPT !.mails = SubSeq(@, Len(out) + 1, Len(@)) \o in]])
      /\ accepted' = [accepted EXCEPT ![r.box] = @ \o in]
      /\ taken' = [taken EXCEPT ![r.box] = @ \o out]

\* The request raises with the swap that got o into hot_map.
Fail(o, x) == Objects([obj EXCEPT ![o] = x]) /\ UNCHANGED history

(* get_cache finds the mailbox: it moves to hot_map, if it was in cold_map,  *)
(* or else in gc_map.                                                       *)
Hit(r) ==
  \E o \in Of(Live, r.box) :
    LET c == cold \ {o}
        g == IF o \in cold THEN gc ELSE gc \ {o}
    IN  /\ IF o \in hot THEN UNCHANGED << maps, gcvars >> ELSE AddHot(o, c, g)
        /\ IF SwapFails(o, c) THEN Fail(o, obj[o])
           ELSE Serve(r, o, [obj[o] EXCEPT !.access = "new"])

(* A request arrives.  get_item asks maildb for a mailbox that is not cached.*)
Request(r) ==
  /\ exit = "no" \/ ("late" \in world /\ exit # "done")
  /\ IF Of(Live, r.box) # {}
       THEN Hit(r) /\ UNCHANGED reqs
       ELSE /\ reqs' = reqs \cup {[req |-> r, st |-> "get", row |-> << >>]}
            /\ UNCHANGED << maps, obj, gcvars, history >>
  /\ UNCHANGED << world, row, expired >>

Send(b) ==
  /\ sent < MaxMail[world]
  /\ sent' = sent + 1
  /\ Request([kind |-> "send", box |-> b, mail |-> sent'])

(* The session lock of a role makes its pulls one at a time.                *)
Pull(b) ==
  LET r == [kind |-> "pull", box |-> b, mail |-> 0]
  IN  (\A q \in reqs : q.req # r) /\ Request(r) /\ UNCHANGED sent

NewMailbox(q) == [Blank EXCEPT !.box = q.req.box, !.mails = q.row]

(* maildb reads the row.                                                    *)
DbGet(q) ==
  /\ q.st = "get"
  /\ reqs' = (reqs \ {q}) \cup {[q EXCEPT !.st = "got", !.row = row[q.req.box]]}
  /\ UNCHANGED << world, maps, obj, gcvars, row, expired, sent, history >>

\* mutated: get_item does not look again
MutArrived(q) ==
  /\ q.st = "got" /\ exit # "done"
  /\ reqs' = reqs \ {q}
  /\ \E o \in Obj \ (Live \cup InRound) :
       /\ IF Of(hot, q.req.box) # {} THEN UNCHANGED << maps, gcvars >>
                                      ELSE AddHot(o, cold, gc)
       /\ Serve(q.req, o, NewMailbox(q))
  /\ UNCHANGED << world, row, expired, sent >>

(* The row arrived; the mailbox may have come into the cache meanwhile.       *)
Arrived(q) ==
  /\ q.st = "got" /\ exit # "done"
  /\ reqs' = reqs \ {q}
  /\ \/ Of(Live, q.req.box) # {} /\ Hit(q.req)
     \/ /\ Of(Live, q.req.box) = {}
        /\ Obj # Live \cup InRound
        /\ LET o == Min(Obj \ (Live \cup InRound))
           IN  /\ AddHot(o, cold, gc)
               /\ IF SwapFails(o, cold) THEN Fail(o, NewMailbox(q))
                                        ELSE Serve(q.req, o, NewMailbox(q))
  /\ UNCHANGED << world, row, expired, sent >>

-----------------------------------------------------------------------------
(* The update pass, and the time that passes.                               *)

\* last_access_time < min_access_time raises on nil, last_save_time likewise.
Unreadable(o) == obj[o].access = "nil" \/ (obj[o].access = "new" /\ obj[o].saved = "nil")
Idle(map) == {o \in map : obj[o].access = "old"}
Due(map) == {o \in map : obj[o].access = "old" \/ obj[o].saved = "old"}

(* CacheMgr:update: an error in one of its loops, which visit the mailboxes   *)
(* in any order, ends it; what was put into gc_map stays there.              *)
Update ==
  /\ exit = "no" /\ collector # "update"
  /\ \/ /\ \E o \in hot : Unreadable(o)
        /\ \E S \in SUBSET Due(hot) : gc' = AddGc(gc, S)
        /\ UNCHANGED << hot, cold, gcvars >>
     \/ /\ \A o \in hot : ~Unreadable(o)
        /\ hot' = hot \ Idle(hot)
        /\ \/ /\ \E o \in cold : Unreadable(o)
              /\ \E S \in SUBSET Due(cold) : gc' = AddGc(gc, Due(hot) \cup S)
              /\ UNCHANGED << cold, gcvars >>
           \/ /\ \A o \in cold : ~Unreadable(o)
              /\ gc' = AddGc(gc, Due(hot) \cup Due(cold))
              /\ cold' = cold \ Idle(cold)
              /\ Gc(gc', "update")
  /\ UNCHANGED << world, obj, reqs, row, expired, sent, history >>

\* Ten minutes pass while nothing happens.
AtRest == reqs = {} /\ collector = "nobody" /\ exit = "no"

Age(o) ==
  /\ AtRest
  /\ \/ obj[o].access = "new" /\ obj' = [obj EXCEPT ![o].access = "old"]
     \/ obj[o].saved = "new" /\ obj' = [obj EXCEPT ![o].saved = "old"]
  /\ UNCHANGED << world, maps, gcvars, reqs, row, expired, sent, history >>

Expire(m) ==
  /\ "expire" \in world /\ AtRest
  /\ m <= sent /\ m \notin expired
  /\ expired' = expired \cup {m}
  /\ UNCHANGED << world, maps, obj, gcvars, reqs, row, sent, history >>

-----------------------------------------------------------------------------
(* _gc: rounds over all that is in gc_map, one coroutine for each item.      *)

Item(o, from, to) ==
  /\ round[o].st = from
  /\ round' = [round EXCEPT ![o] = to]
  /\ UNCHANGED << world, collector, exit, reqs, expired, sent, history >>

(* Mailbox:_save: what the mailbox is now is sent to maildb.                 *)
Save(o) ==
  /\ Item(o, "save", [st |-> "set", dump |-> obj[o].mails])
  /\ UNCHANGED << maps, obj, row >>

(* maildb stored it; or its error ends the coroutine, uncounted.            *)
DbSet(o) ==
  /\ \/ /\ Item(o, "set", [NotInRound EXCEPT !.st = "sleep"])
        /\ row' = [row EXCEPT ![obj[o].box] = round[o].dump]
        /\ obj' = [obj EXCEPT ![o].saved = "new"]
     \/ /\ "dberr" \in world
        /\ Item(o, "set", [NotInRound EXCEPT !.st = "dead"])
        /\ UNCHANGED << row, obj >>
  /\ UNCHANGED maps

\* mutated: del_gc is forgotten
MutDelGc(o) ==
  /\ Item(o, "sleep", [NotInRound EXCEPT !.st = "done"])
  /\ UNCHANGED << maps, obj, row >>

(* Ten seconds later the mailbox leaves gc_map, if it still is there.        *)
DelGc(o) ==
  /\ Item(o, "sleep", [NotInRound EXCEPT !.st = "done"])
  /\ gc' = gc \ Of(gc, obj[o].box)
  /\ UNCHANGED << hot, cold, row >>
  /\ Objects(obj)

(* The round is over: another one, or the end of _gc, which lets the exit    *)
(* that waits for the lock have its own rounds.                             *)
RoundOver ==
  /\ collector # "nobody"
  /\ \A o \in Obj : round[o].st \in {"none", "done"}
  /\ \/ /\ gc # {}
        /\ round' = Items(gc) /\ UNCHANGED << collector, exit >>
     \/ /\ gc = {}
        /\ collector' = "nobody" /\ round' = Items({})
        /\ exit' = IF exit = "no" THEN "no" ELSE "done"
  /\ UNCHANGED << world, maps, obj, reqs, row, expired, sent, history >>

\* mutated: cold_map is forgotten
MutExit ==
  /\ exit = "no" /\ ("busy" \in world \/ AtRest)
  /\ gc' = AddGc(gc, hot) /\ hot' = {} /\ cold' = {}
  /\ IF gc' = {} THEN exit' = "done" /\ UNCHANGED << collector, round >>
     ELSE IF collector = "nobody" THEN exit' = "gc" /\ collector' = "exit" /\ round' = Items(gc')
     ELSE exit' = "wait" /\ UNCHANGED << collector, round >>
  /\ Objects(obj)
  /\ UNCHANGED << world, reqs, row, expired, sent, history >>

(* on_exit: everything is put into gc_map and collected.                    *)
Exit ==
  /\ exit = "no" /\ ("busy" \in world \/ AtRest)
  /\ gc' = AddGc(gc, hot \cup cold) /\ hot' = {} /\ cold' = {}
  /\ IF gc' = {} THEN exit' = "done" /\ UNCHANGED << collector, round >>
     ELSE IF collector = "nobody" THEN exit' = "gc" /\ collector' = "exit" /\ round' = Items(gc')
     ELSE exit' = "wait" /\ UNCHANGED << collector, round >>
  /\ UNCHANGED << world, obj, reqs, row, expired, sent, history >>

-----------------------------------------------------------------------------

GcItem(o) == Save(o) \/ DbSet(o) \/ DelGc(o)

Next ==
  \/ \E b \in Box : Send(b) \/ Pull(b)
  \/ \E q \in reqs : DbGet(q) \/ Arrived(q)
  \/ \E o \in Obj : Age(o) \/ GcItem(o)
  \/ \E m \in Mail : Expire(m)
  \/ Update \/ RoundOver \/ Exit

Spec == Init /\ [][Next]_vars

(* The service runs, maildb answers and seconds pass.                       *)
FairSpec ==
  /\ Spec
  /\ WF_vars(\E q \in reqs : DbGet(q) \/ Arrived(q))
  /\ \A o \in Obj : WF_vars(GcItem(o))
  /\ WF_vars(RoundOver)

\* The update pass goes on, and time.
UpdateSpec == FairSpec /\ WF_vars(Update) /\ \A o \in Obj : WF_vars(Age(o))

-----------------------------------------------------------------------------

TypeOK ==
  /\ \A o \in Live : o \in Obj /\ obj[o].box \in Box
  /\ obj \in [Obj -> [box : Box \cup {None}, mails : Seq(Mail), access : Time, saved : Time]]
  /\ collector \in {"nobody", "swap", "update", "exit"}
  /\ \A o \in Obj : round[o].st \in {"none", "save", "set", "sleep", "done", "dead"}
  /\ exit \in {"no", "wait", "gc", "done"}
  /\ row \in [Box -> Seq(Mail)]
  /\ accepted \in [Box -> Seq(Mail)] /\ taken \in [Box -> Seq(Mail)]

\* The mails of a mailbox that can still be pulled.
Waiting(b) == LET O == Of(Live, b) IN IF O = {} THEN row[b] ELSE obj[CHOOSE o \in O : TRUE].mails

\* After exit the rows have every mail accepted and not pulled, those of
\* mailboxes that an update pass could not save too.
RowsAtExit == exit = "done" => \A b \in Box : taken[b] \o row[b] = accepted[b]

(* mailbox_mgr.lua:14-30, cache_mgr.lua:25-55, 96-127, 181-219, 243-273: a      *)
(* mailbox is in memory at most once, and it, or else its row, has every      *)
(* mail accepted and not yet pulled, in order, whatever loads, swaps, update  *)
(* passes and collections interleave with the requests; after exit the rows   *)
(* have them all.                                                           *)
MailExact ==
  world = {} =>
    /\ RowsAtExit
    /\ \A b \in Box :
         /\ Cardinality(Of(Live, b)) <= 1
         /\ taken[b] \o Waiting(b) = accepted[b]

(* cache_mgr.lua:129-179, 265: the exit of the mailbox service ends,           *)
(* though a collection is under way and requests move mailboxes out of        *)
(* gc_map.                                                                  *)
ExitEnds == exit # "no" ~> exit = "done"

(* cmd.lua:54-66: no mail is pulled twice.                                  *)
PulledOnce == \A b \in Box : IsInjective(taken[b])

(* cache_mgr.lua:188-203: a mail reaches maildb while the service runs.      *)
SavedInTime ==
  \A b \in Box, m \in Mail :
    m \in ToSet(accepted[b]) ~> m \in ToSet(row[b]) \cup ToSet(taken[b]) \/ exit # "no"
=============================================================================
