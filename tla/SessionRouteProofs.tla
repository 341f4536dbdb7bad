------------------------- MODULE SessionRouteProofs -------------------------
(***************************************************************************)
(* Proofs about the provider routes of the session manager, for every set  *)
(* of chats, operations and scenarios: no route of the live connection is  *)
(* left with nobody to close it, and no close names the route of a session *)
(* that serves a chat.                                                     *)
(***************************************************************************)
EXTENDS SessionManagerProofs

-----------------------------------------------------------------------------
(***************************************************************************)
(* The inductive invariant.  A route of the current connection has one     *)
(* owner at a time: the answer of its open, the acquisition that got it,   *)
(* its session.                                                            *)
(***************************************************************************)

CallFields == {"id", "k", "chat", "arg", "by", "ep", "res", "got"}
NetFields == {"ep", "up", "want"}
EngFields == {"live", "next"}

\* Where an acquisition carries a route, where an operation closes routes,
\* where it has one call under way, where it replaces the session it found.
Carries == {"publish", "discard"}
Drains == {"discarding", "drain", "draining"}
Asks == {"discarding", "draining"}
Acquiring == {"slot", "opening", "publish"}

\* A call of a session closes its route: on the connection of the session, or
\* (beginFallbackCleanup) on a later one under a cleanup marker.
Fallback(c) == \E s \in DOMAIN ses : c.by = <<"ses", s>> /\ c.ep # ses[s].ep

\* Who waits for call c, and what for
OpWaits(o, c) ==
    /\ c.by = By(o)
    /\ IF o.owner = "settling" THEN c.k = "close" /\ c.arg = <<o.rt.route>> /\ c.ep = o.rt.ep
       ELSE c.k = "open"
RecWaits(o, c) ==
    /\ c.by = Rec(o) /\ o.owner \in {"listing", "purging"}
    /\ IF o.owner = "listing" THEN c.k = "list"
       ELSE c.k = "close" /\ c.arg = <<o.rt.route>> /\ c.ep = o.rt.ep
JobWaits(j, c) ==
    /\ c.by = <<"job", j>> /\ c.k = "close" /\ job[j].pc \in Asks
    /\ job[j].pc = "discarding" => \E x \in job[j].rs : job[j].rs = {x} /\ c.arg = <<x.route>> /\ c.ep = x.ep
    /\ job[j].pc = "draining" => c.arg = <<job[j].got[1].route>> /\ c.ep = job[j].got[1].ep
SesWaits(s, c) ==
    /\ c.by = <<"ses", s>> /\ c.k = "close" /\ c.arg = <<ses[s].route>> /\ ses[s].closing
    /\ c.ep # ses[s].ep => ~EpochCurrent(ses[s].ep)
    /\ c.ep # ses[s].ep /\ c.res = "none" => [route |-> ses[s].route, by |-> c.by] \in mgr.cleanup

Waits(c) ==
    \/ \E o \in ops : OpWaits(o, c) \/ RecWaits(o, c)
    \/ \E j \in Jobs : JobWaits(j, c)
    \/ \E s \in DOMAIN ses : SesWaits(s, c)

CallOk(c) ==
    /\ DOMAIN c = CallFields /\ c.id \in Nat /\ c.id <= last /\ c.ep \in Nat /\ c.ep <= net.ep
    /\ c.res = "lost" => ~EpochCurrent(c.ep)
    /\ c.ep = NotSent => c.res \in {"none", "lost"} /\ c.got = <<>>
    /\ c.k = "close" => c.res \in {"none", "ok", "unknown", "lost"}
    /\ c.k = "close" /\ c.ep = NotSent => Fallback(c)
    /\ Waits(c)

WireOk(w) ==
    /\ w.id \in Nat /\ w.id <= last /\ w.ep \in Nat /\ w.ep # NotSent /\ w.ep <= net.ep
    /\ \A c \in calls : w.id = c.id => w = Req(c)
    /\ w.k = "open" /\ EpochCurrent(w.ep) => \E c \in calls : c.id = w.id /\ c.res = "none"

CallsInv ==
    /\ DOMAIN net = NetFields /\ net.ep \in Nat /\ net.ep # NotSent
    /\ \A c \in calls : CallOk(c)
    /\ \A c, d \in calls : c.id = d.id \/ c.by = d.by => c = d
    /\ \A w \in wire : WireOk(w)

-----------------------------------------------------------------------------
(* The owners of a route *)

Known(r) == r \in Nat /\ r <= eng.next

OkNow(c) == c.k = "open" /\ c.res = "ok" /\ EpochCurrent(c.ep)
JobNow(j) == job[j].pc \in Carries /\ EpochCurrent(job[j].got[2])
SesNow(s) == EpochCurrent(ses[s].ep)

CallKnown(c) ==
    /\ OkNow(c) => Known(c.got[1])
    /\ c.k = "list" /\ EpochCurrent(c.ep) => \A n \in DOMAIN c.got : Known(c.got[n])
    /\ c.k = "close" /\ EpochCurrent(c.ep) /\ ~Fallback(c) => Known(c.arg[1])
JobKnown(j) == job[j].pc \in Carries =>
    /\ job[j].got[2] \in Nat /\ job[j].got[2] # NotSent /\ job[j].got[2] <= net.ep
    /\ (JobNow(j) => Known(job[j].got[1]))
SesKnown(s) ==
    ses[s].ep \in Nat /\ ses[s].ep # NotSent /\ ses[s].ep <= net.ep /\ (SesNow(s) => Known(ses[s].route))
LiveKnown(x) == Known(x.route) /\ x.ep \in Nat /\ x.ep <= net.ep

OwnersInv ==
    /\ DOMAIN eng = EngFields /\ eng.next \in Nat
    /\ \A x \in eng.live : LiveKnown(x)
    /\ \A c \in calls : CallKnown(c)
    /\ \A j \in Jobs : JobKnown(j)
    /\ \A s \in DOMAIN ses : SesKnown(s)
    /\ \A c, d \in calls : OkNow(c) /\ OkNow(d) /\ c.got[1] = d.got[1] => c = d
    /\ \A c \in calls, j \in Jobs : OkNow(c) /\ JobNow(j) => c.got[1] # job[j].got[1]
    /\ \A c \in calls, s \in DOMAIN ses : OkNow(c) /\ SesNow(s) => c.got[1] # ses[s].route
    /\ \A i, j \in Jobs : JobNow(i) /\ JobNow(j) /\ job[i].got[1] = job[j].got[1] => i = j
    /\ \A j \in Jobs, s \in DOMAIN ses : JobNow(j) /\ SesNow(s) => job[j].got[1] # ses[s].route
    /\ \A s, t \in DOMAIN ses : SesNow(s) /\ SesNow(t) /\ ses[s].route = ses[t].route => s = t

-----------------------------------------------------------------------------
(* Routes that are being closed *)

Serves(s) == Routable(s) /\ EpochCurrent(ses[s].ep)

\* Route r serves a chat, or may be published.
InUse(r) ==
    \/ \E c \in calls : OkNow(c) /\ c.got[1] = r
    \/ \E j \in Jobs : job[j].pc = "publish" /\ JobNow(j) /\ job[j].got[1] = r
    \/ \E s \in DOMAIN ses : Serves(s) /\ ses[s].route = r

Unserved(r) == Holder(mgr, r) # None => ~Serves(Holder(mgr, r))

\* A known route that nobody publishes: it has no owner who would, or recovery
\* has retired it.
Doomed(r) ==
    /\ Known(r)
    /\ ~InUse(r) \/ ([route |-> r, ep |-> net.ep] \in mgr.retired /\ Unserved(r))
DoomedAt(x) == x.ep \in Nat /\ x.ep <= net.ep /\ (EpochCurrent(x.ep) => Doomed(x.route))

HoldersKnown ==
    \A r \in DOMAIN mgr.byRoute : mgr.byRoute[r] # None =>
        mgr.byRoute[r] \in DOMAIN ses /\ ses[mgr.byRoute[r]].route = r

JobDoomed(j) ==
    /\ job[j].pc \in Drains => \A x \in job[j].rs : DoomedAt(x)
    /\ job[j].pc = "draining" => DoomedAt(job[j].got[1])
WireDoomed(w) == w.k = "close" /\ EpochCurrent(w.ep) =>
    Doomed(w.arg[1]) \/ \E c \in calls : c.id = w.id /\ c.res = "none" /\ Fallback(c)
CallSpares(c) == c.k = "close" /\ c.res = "none" /\ Fallback(c) => Unserved(c.arg[1])

DoomsInv ==
    /\ HoldersKnown
    /\ \A x \in mgr.retiring : DoomedAt(x)
    /\ \A j \in Jobs : JobDoomed(j)
    /\ \A w \in wire : WireDoomed(w)
    /\ \A c \in calls : CallSpares(c)

-----------------------------------------------------------------------------
(* Routes that are seen to *)

GoneRoute(r) == \A x \in eng.live : x.route # r

SeenBy(x) ==
    \/ \E y \in mgr.retiring \cup mgr.refused : y.route = x.route /\ y.ep = x.ep
    \/ \E s \in DOMAIN ses : ses[s].route = x.route /\ ses[s].ep = x.ep /\ (ses[s].closing \/ Routable(s))
    \/ \E c \in calls : c.k = "open" /\ c.res = "ok" /\ c.got[1] = x.route /\ c.ep = x.ep
    \/ \E j \in Jobs : job[j].pc \in Carries /\ job[j].got[1] = x.route /\ job[j].got[2] = x.ep

\* A close that was answered has done its work.
CallTrue(c) ==
    c.k = "close" /\ c.res \in {"ok", "unknown"} /\ EpochCurrent(c.ep) /\ ~Fallback(c) => GoneRoute(c.arg[1])
JobReplaces(j) ==
    job[j].pc \in Acquiring /\ job[j].ex # None => job[j].ex \in DOMAIN ses /\ ~Serves(job[j].ex)

\* CloseAll closes sessions that exist.
Sweeps(x) == x.pc = "sweep" \/ (x.pc = "closing" /\ x.kind = "shutdown")
JobSweeps(j) == Sweeps(job[j]) => job[j].rs \subseteq DOMAIN ses

SeenInv ==
    /\ \A x, y \in eng.live : x.route = y.route => x = y
    /\ \A x \in eng.live : EpochCurrent(x.ep) => SeenBy(x)
    /\ \A c \in calls : CallTrue(c)
    /\ \A j \in Jobs : JobReplaces(j) /\ JobSweeps(j)

RouteInv == CallsInv /\ OwnersInv /\ DoomsInv /\ SeenInv

-----------------------------------------------------------------------------
(***************************************************************************)
(* The calls and who waits for them.                                       *)
(***************************************************************************)

Steady == DOMAIN net' = NetFields /\ net'.ep = net.ep /\ net'.up = net.up
SesStand ==
    /\ DOMAIN ses \subseteq DOMAIN ses'
    /\ \A s \in DOMAIN ses : ses'[s].route = ses[s].route /\ ses'[s].ep = ses[s].ep

\* Who waits is told by the name in the call.
LEMMA ByOp ==
    ASSUME ManagerInv, CallsInv, NEW c \in calls, NEW o \in ops, c.by = By(o)
    PROVE  OpWaits(o, c)
<1>1. \A p \in ops : p.id = o.id => p = o
  BY DEF ManagerInv, OpsOwned
<1>2. Waits(c)
  BY DEF CallsInv, CallOk
<1>3. \A p \in ops : ~RecWaits(p, c)
  BY DEF RecWaits, Rec, By
<1>4. \A j \in Jobs : ~JobWaits(j, c)
  BY DEF JobWaits, By
<1>5. \A s \in DOMAIN ses : ~SesWaits(s, c)
  BY DEF SesWaits, By
<1>6. PICK p \in ops : OpWaits(p, c)
  BY <1>2, <1>3, <1>4, <1>5 DEF Waits
<1>7. p.id = o.id
  BY <1>6 DEF OpWaits, By
<1> QED
  BY <1>1, <1>6, <1>7

LEMMA ByRec ==
    ASSUME ManagerInv, CallsInv, NEW c \in calls, NEW o \in ops, c.by = Rec(o)
    PROVE  RecWaits(o, c)
<1>1. \A p \in ops : p.id = o.id => p = o
  BY DEF ManagerInv, OpsOwned
<1>2. Waits(c)
  BY DEF CallsInv, CallOk
<1>3. \A p \in ops : ~OpWaits(p, c)
  BY DEF OpWaits, Rec, By
<1>4. \A j \in Jobs : ~JobWaits(j, c)
  BY DEF JobWaits, Rec
<1>5. \A s \in DOMAIN ses : ~SesWaits(s, c)
  BY DEF SesWaits, Rec
<1>6. PICK p \in ops : RecWaits(p, c)
  BY <1>2, <1>3, <1>4, <1>5 DEF Waits
<1>7. p.id = o.id
  BY <1>6 DEF RecWaits, Rec
<1> QED
  BY <1>1, <1>6, <1>7

LEMMA ByJob ==
    ASSUME CallsInv, NEW c \in calls, NEW j, c.by = <<"job", j>>
    PROVE  j \in Jobs /\ JobWaits(j, c)
<1>1. Waits(c)
  BY DEF CallsInv, CallOk
<1>2. \A p \in ops : ~OpWaits(p, c) /\ ~RecWaits(p, c)
  BY DEF OpWaits, RecWaits, Rec, By
<1>3. \A s \in DOMAIN ses : ~SesWaits(s, c)
  BY DEF SesWaits
<1>4. PICK i \in Jobs : JobWaits(i, c)
  BY <1>1, <1>2, <1>3 DEF Waits
<1>5. i = j
  BY <1>4 DEF JobWaits
<1> QED
  BY <1>4, <1>5

LEMMA BySes ==
    ASSUME CallsInv, NEW c \in calls, NEW s, c.by = <<"ses", s>>
    PROVE  s \in DOMAIN ses /\ SesWaits(s, c)
<1>1. Waits(c)
  BY DEF CallsInv, CallOk
<1>2. \A p \in ops : ~OpWaits(p, c) /\ ~RecWaits(p, c)
  BY DEF OpWaits, RecWaits, Rec, By
<1>3. \A j \in Jobs : ~JobWaits(j, c)
  BY DEF JobWaits
<1>4. PICK t \in DOMAIN ses : SesWaits(t, c)
  BY <1>1, <1>2, <1>3 DEF Waits
<1>5. t = s
  BY <1>4 DEF SesWaits
<1> QED
  BY <1>4, <1>5

\* What is a fallback close stays one, whatever sessions come.
LEMMA FallbackSame ==
    ASSUME CallsInv, SesStand, NEW c \in calls
    PROVE  Fallback(c)' <=> Fallback(c)
<1>1. ASSUME NEW s \in DOMAIN ses', c.by = <<"ses", s>>, c.ep # ses'[s].ep PROVE Fallback(c)
  BY <1>1, BySes DEF SesStand, Fallback
<1>2. ASSUME NEW s \in DOMAIN ses, c.by = <<"ses", s>>, c.ep # ses[s].ep PROVE Fallback(c)'
  BY <1>2 DEF SesStand, Fallback
<1> QED
  BY <1>1, <1>2 DEF Fallback

\* Call c is still waited for.
OpsKeep(c) == \A o \in ops : c.by \in {By(o), Rec(o)} =>
    \E p \in ops' :
        /\ p.id = o.id
        /\ c.by = By(o) => (p.owner = "settling" <=> o.owner = "settling")
        /\ c.by = Rec(o) => p.owner = o.owner
        /\ c.by = Rec(o) \/ p.owner = "settling" => p.rt = o.rt
JobsKeep(c) == \A j \in Jobs : c.by = <<"job", j>> =>
    job'[j].pc = job[j].pc /\ job'[j].rs = job[j].rs /\ job'[j].got = job[j].got
SesKeep(c) == \A s \in DOMAIN ses : c.by = <<"ses", s>> =>
    /\ ses'[s].closing <=> ses[s].closing
    /\ \A k \in mgr.cleanup : k.by = c.by => k \in mgr'.cleanup

LEMMA WaitsKept ==
    ASSUME NEW c \in calls, Waits(c), Steady, SesStand, OpsKeep(c), JobsKeep(c), SesKeep(c)
    PROVE  Waits(c)'
<1>1. ASSUME NEW o \in ops, OpWaits(o, c) PROVE Waits(c)'
  <2>1. c.by = By(o)
    BY <1>1 DEF OpWaits
  <2>2. PICK p \in ops' :
          /\ p.id = o.id /\ (p.owner = "settling" <=> o.owner = "settling")
          /\ p.owner = "settling" => p.rt = o.rt
    BY <2>1 DEF OpsKeep
  <2>3. OpWaits(p, c)'
    BY <1>1, <2>2 DEF OpWaits, By
  <2> QED
    BY <2>3 DEF Waits
<1>2. ASSUME NEW o \in ops, RecWaits(o, c) PROVE Waits(c)'
  <2>1. c.by = Rec(o)
    BY <1>2 DEF RecWaits
  <2>2. PICK p \in ops' :
          /\ p.id = o.id /\ p.owner = o.owner /\ p.rt = o.rt
    BY <2>1 DEF OpsKeep
  <2>3. RecWaits(p, c)'
    BY <1>2, <2>2 DEF RecWaits, Rec
  <2> QED
    BY <2>3 DEF Waits
<1>3. ASSUME NEW j \in Jobs, JobWaits(j, c) PROVE JobWaits(j, c)'
  BY <1>3 DEF JobWaits, JobsKeep
<1>4. ASSUME NEW s \in DOMAIN ses, SesWaits(s, c) PROVE s \in DOMAIN ses' /\ SesWaits(s, c)'
  <2>1. c.by = <<"ses", s>>
    BY <1>4 DEF SesWaits
  <2>2. /\ (ses'[s].closing <=> ses[s].closing) /\ ses'[s].route = ses[s].route /\ ses'[s].ep = ses[s].ep
        /\ \A k \in mgr.cleanup : k.by = c.by => k \in mgr'.cleanup
    BY <2>1 DEF SesKeep, SesStand
  <2>3. [route |-> ses[s].route, by |-> c.by] \in mgr.cleanup
            => [route |-> ses[s].route, by |-> c.by] \in mgr'.cleanup
    BY <2>2
  <2>4. EpochCurrent(ses[s].ep)' <=> EpochCurrent(ses[s].ep)
    BY <2>2 DEF EpochCurrent, Steady
  <2> QED
    BY <1>4, <2>2, <2>3, <2>4 DEF SesWaits, SesStand
<1> QED
  BY <1>1, <1>2, <1>3, <1>4 DEF Waits

\* Calls A end, at most one call D begins and may be written at once.
CallsEdit(A, D) ==
    /\ calls' = (calls \ A) \cup D
    /\ \A a \in A : a.k = "open" /\ a.res = "none" => a.ep = NotSent
    /\ \A d, e \in D : d = e
    /\ \A d \in D : d.id = last + 1 /\ d.res = "none" /\ CallOk(d)' /\ \A c \in calls \ A : c.by # d.by
    /\ \A w \in wire' : w \in wire \/ \E d \in D : w = Req(d) /\ d.ep # NotSent
    /\ last' \in Nat /\ last <= last'

LEMMA CallStays ==
    ASSUME CallsInv, Steady, SesStand, NEW c \in calls, Waits(c)', last \in Nat, last' \in Nat, last <= last'
    PROVE  CallOk(c)'
<1>1. Fallback(c)' <=> Fallback(c)
  BY FallbackSame
<1> QED
  BY <1>1 DEF CallsInv, CallOk, Steady, EpochCurrent

LEMMA CallsStand ==
    ASSUME CallsInv, Steady, SesStand, NEW A, NEW D, CallsEdit(A, D), last \in Nat,
           \A c \in calls \ A : Waits(c)'
    PROVE  CallsInv'
<1>1. \A c \in calls' : CallOk(c)'
  <2>1. ASSUME NEW c \in calls \ A PROVE CallOk(c)'
    BY <2>1, CallStays DEF CallsEdit
  <2> QED
    BY <2>1 DEF CallsEdit
<1>2. \A c, d \in calls' : c.id = d.id \/ c.by = d.by => c = d
  <2>1. \A c \in calls : c.id \in Nat /\ c.id <= last
    BY DEF CallsInv, CallOk
  <2> QED
    BY <2>1 DEF CallsInv, CallsEdit
<1>3. ASSUME NEW w \in wire' PROVE WireOk(w)'
  <2>1. CASE w \in wire
    <3>1. w.id \in Nat /\ w.id <= last' /\ w.ep \in Nat /\ w.ep # NotSent /\ w.ep <= net'.ep
      BY <2>1 DEF CallsInv, WireOk, CallsEdit, Steady
    <3>2. \A c \in calls' : w.id = c.id => w = Req(c)
      BY <2>1 DEF CallsInv, WireOk, CallsEdit
    <3>3. ASSUME w.k = "open", EpochCurrent(w.ep)' PROVE \E c \in calls' : c.id = w.id /\ c.res = "none"
      <4>1. PICK c \in calls : c.id = w.id /\ c.res = "none"
        BY <2>1, <3>3 DEF CallsInv, WireOk, EpochCurrent, Steady
      <4>2. w.k = c.k /\ w.ep = c.ep
        BY <2>1, <4>1 DEF CallsInv, WireOk, Req
      <4>3. c \notin A
        BY <3>1, <3>3, <4>1, <4>2 DEF CallsEdit
      <4> QED
        BY <4>1, <4>3 DEF CallsEdit
    <3> QED
      BY <3>1, <3>2, <3>3 DEF WireOk
  <2>2. CASE w \notin wire
    <3>1. PICK d \in D : w = Req(d) /\ d.ep # NotSent
      BY <2>2 DEF CallsEdit
    <3>2. d \in calls' /\ d.res = "none" /\ CallOk(d)' /\ w.id = d.id /\ w.ep = d.ep
      BY <3>1 DEF CallsEdit, Req
    <3>3. \A c \in calls' : w.id = c.id => w = Req(c)
      BY <1>2, <3>1, <3>2
    <3> QED
      BY <3>1, <3>2, <3>3 DEF WireOk, CallOk
  <2> QED
    BY <2>1, <2>2
<1>4. DOMAIN net' = NetFields /\ net'.ep \in Nat /\ net'.ep # NotSent
  BY DEF CallsInv, Steady
<1> QED
  BY <1>1, <1>2, <1>3, <1>4 DEF CallsInv

-----------------------------------------------------------------------------
(***************************************************************************)
(* Steps that give no route a new owner.                                   *)
(***************************************************************************)

OwnersLess ==
    /\ \A c \in calls' : c.k = "open" /\ c.res = "ok" => c \in calls
    /\ \A j \in Jobs : /\ job'[j].pc \in Carries => job[j].pc \in Carries /\ job'[j].got = job[j].got
                       /\ job'[j].pc = "publish" => job[j].pc = "publish"
    /\ DOMAIN ses' = DOMAIN ses
    /\ \A s \in DOMAIN ses : Serves(s)' => Serves(s)
    /\ DOMAIN eng' = EngFields /\ eng'.next = eng.next /\ eng'.live \subseteq eng.live

\* The index of routes only loses entries, and what is retired on the current
\* connection stays retired.
RoutesLess ==
    /\ \A r : Holder(mgr', r) # None => Holder(mgr', r) = Holder(mgr, r)
    /\ \A x \in mgr.retired : EpochCurrent(x.ep) => x \in mgr'.retired

LEMMA OwnersStand ==
    ASSUME CallsInv, OwnersInv, Steady, SesStand, OwnersLess, \A c \in calls' : c \in calls \/ CallKnown(c)'
    PROVE  OwnersInv'
<1>1. \A r : Known(r)' <=> Known(r)
  BY DEF Known, OwnersLess
<1>2. \A e : EpochCurrent(e)' <=> EpochCurrent(e)
  BY DEF EpochCurrent, Steady
<1>3. ASSUME NEW c \in calls' PROVE CallKnown(c)'
  <2>1. CASE c \in calls
    <3>1. Fallback(c)' <=> Fallback(c)
      BY <2>1, FallbackSame
    <3> QED
      BY <1>1, <1>2, <2>1, <3>1 DEF OwnersInv, CallKnown, OkNow
  <2> QED
    BY <2>1
<1>4. \A c \in calls' : OkNow(c)' => c \in calls /\ OkNow(c)
  BY <1>2 DEF OkNow, OwnersLess
<1>5. ASSUME NEW j \in Jobs PROVE JobKnown(j)' /\ (JobNow(j)' => JobNow(j) /\ job'[j].got = job[j].got)
  BY <1>1, <1>2 DEF OwnersInv, OwnersLess, JobKnown, JobNow, Steady
<1>6. ASSUME NEW s \in DOMAIN ses'
      PROVE  s \in DOMAIN ses /\ SesKnown(s)' /\ ses'[s].route = ses[s].route /\ (SesNow(s)' => SesNow(s))
  BY <1>1, <1>2 DEF OwnersInv, OwnersLess, SesKnown, SesNow, Steady, SesStand
<1>7. \A x \in eng'.live : LiveKnown(x)'
  BY <1>1 DEF OwnersInv, OwnersLess, LiveKnown, Steady
<1>8. DOMAIN eng' = EngFields /\ eng'.next \in Nat
  BY DEF OwnersInv, OwnersLess
<1> QED
  BY <1>3, <1>4, <1>5, <1>6, <1>7, <1>8 DEF OwnersInv

LEMMA InUseLess ==
    ASSUME Steady, SesStand, OwnersLess, NEW r, InUse(r)'
    PROVE  InUse(r)
<1>1. \A e : EpochCurrent(e)' <=> EpochCurrent(e)
  BY DEF EpochCurrent, Steady
<1>2. CASE \E c \in calls' : OkNow(c)' /\ c.got[1] = r
  BY <1>1, <1>2 DEF OkNow, OwnersLess, InUse
<1>3. CASE \E j \in Jobs : job'[j].pc = "publish" /\ JobNow(j)' /\ job'[j].got[1] = r
  BY <1>1, <1>3 DEF JobNow, OwnersLess, InUse
<1>4. CASE \E s \in DOMAIN ses' : Serves(s)' /\ ses'[s].route = r
  BY <1>4 DEF OwnersLess, InUse, SesStand
<1> QED
  BY <1>2, <1>3, <1>4 DEF InUse

LEMMA UnservedStays ==
    ASSUME HoldersKnown, OwnersLess, RoutesLess, NEW r, Unserved(r)
    PROVE  Unserved(r)'
<1>1. PICK s : s = Holder(mgr', r)
  OBVIOUS
<1>2. CASE s # None
  <2>1. s = Holder(mgr, r)
    BY <1>1, <1>2 DEF RoutesLess
  <2>2. s \in DOMAIN ses
    BY <1>2, <2>1 DEF HoldersKnown, Holder
  <2>3. ~Serves(s)
    BY <1>2, <2>1 DEF Unserved
  <2>4. ~Serves(s)'
    BY <2>2, <2>3 DEF OwnersLess
  <2> QED
    BY <1>1, <2>4 DEF Unserved, Holder, Serves, Routable, EpochCurrent
<1>3. CASE s = None
  BY <1>1, <1>3 DEF Unserved, Holder
<1> QED
  BY <1>2, <1>3

LEMMA DoomedStays ==
    ASSUME HoldersKnown, Steady, SesStand, OwnersLess, RoutesLess, net.up, NEW r, Doomed(r)
    PROVE  Doomed(r)'
<1>1. Known(r)'
  BY DEF Doomed, Known, OwnersLess
<1>2. ~InUse(r) => ~InUse(r)'
  BY InUseLess
<1>3. [route |-> r, ep |-> net.ep] \in mgr.retired => [route |-> r, ep |-> net'.ep] \in mgr'.retired
  <2>1. PICK x : x = [route |-> r, ep |-> net.ep]
    OBVIOUS
  <2>2. EpochCurrent(x.ep)
    BY <2>1 DEF EpochCurrent
  <2> QED
    BY <2>1, <2>2 DEF RoutesLess, Steady
<1>4. Unserved(r) => Unserved(r)'
  BY UnservedStays
<1> QED
  BY <1>1, <1>2, <1>3, <1>4 DEF Doomed

LEMMA DoomedAtStays ==
    ASSUME HoldersKnown, Steady, SesStand, OwnersLess, RoutesLess, NEW x, DoomedAt(x)
    PROVE  DoomedAt(x)'
<1>1. x.ep \in Nat /\ x.ep <= net'.ep
  BY DEF DoomedAt, Steady
<1>2. ASSUME EpochCurrent(x.ep)' PROVE Doomed(x.route)'
  <2>1. net.up /\ Doomed(x.route)
    BY <1>2 DEF DoomedAt, EpochCurrent, Steady
  <2> QED
    BY <2>1, DoomedStays
<1> QED
  BY <1>1, <1>2 DEF DoomedAt

\* The routes that are being closed: those before, and others that may be.
DoomsEdit ==
    /\ \A x \in mgr'.retiring : x \in mgr.retiring \/ DoomedAt(x)'
    /\ \A j \in Jobs : job'[j].pc \in Drains => \A x \in job'[j].rs :
          (job[j].pc \in Drains /\ x \in job[j].rs) \/ x \in mgr.retiring \/ DoomedAt(x)'
    /\ \A j \in Jobs : job'[j].pc = "draining" =>
          \/ job[j].pc = "draining" /\ job'[j].got = job[j].got
          \/ job[j].pc \in Drains /\ job'[j].got[1] \in job[j].rs
    /\ \A w \in wire' : w \in wire \/ WireDoomed(w)'
    /\ \A c \in calls : c.res = "none" /\ Fallback(c) => c \in calls'
    /\ \A c \in calls' : c \in calls \/ CallSpares(c)'

LEMMA DoomsHold ==
    ASSUME CallsInv, DoomsInv, Steady, SesStand, HoldersKnown', DoomsEdit,
           net.up => \A r : Doomed(r) => Doomed(r)',
           \A c \in calls : CallSpares(c) /\ c.k = "close" /\ c.res = "none" /\ Fallback(c)
                                => Unserved(c.arg[1])'
    PROVE  DoomsInv'
<1>1. ASSUME NEW x, DoomedAt(x) PROVE DoomedAt(x)'
  <2>1. x.ep \in Nat /\ x.ep <= net'.ep
    BY <1>1 DEF DoomedAt, Steady
  <2>2. ASSUME EpochCurrent(x.ep)' PROVE Doomed(x.route)'
    <3>1. net.up /\ Doomed(x.route)
      BY <1>1, <2>2 DEF DoomedAt, EpochCurrent, Steady
    <3> QED
      BY <3>1
  <2> QED
    BY <2>1, <2>2 DEF DoomedAt
<1>2. \A x \in mgr'.retiring : DoomedAt(x)'
  BY <1>1 DEF DoomsInv, DoomsEdit
<1>3. ASSUME NEW j \in Jobs PROVE JobDoomed(j)'
  <2>1. JobDoomed(j)
    BY DEF DoomsInv
  <2>2. job'[j].pc \in Drains => \A x \in job'[j].rs : DoomedAt(x)'
    BY <1>1, <2>1 DEF DoomsInv, DoomsEdit, JobDoomed
  <2>3. PICK x : x = job'[j].got[1]
    OBVIOUS
  <2>4. ASSUME job'[j].pc = "draining" PROVE DoomedAt(x)
    BY <2>1, <2>3, <2>4 DEF DoomsEdit, JobDoomed
  <2>5. job'[j].pc = "draining" => DoomedAt(x)'
    BY <1>1, <2>4
  <2> QED
    BY <2>2, <2>3, <2>5 DEF JobDoomed, DoomedAt
<1>4. ASSUME NEW w \in wire' PROVE WireDoomed(w)'
  <2>1. CASE w \in wire /\ w.k = "close" /\ EpochCurrent(w.ep)'
    <3>1. EpochCurrent(w.ep) /\ net.up
      BY <2>1 DEF EpochCurrent, Steady
    <3>2. CASE Doomed(w.arg[1])
      BY <3>1, <3>2 DEF WireDoomed
    <3>3. CASE ~Doomed(w.arg[1])
      <4>1. PICK c \in calls : c.id = w.id /\ c.res = "none" /\ Fallback(c)
        BY <2>1, <3>1, <3>3 DEF DoomsInv, WireDoomed
      <4>2. c \in calls' /\ Fallback(c)'
        BY <4>1, FallbackSame DEF DoomsEdit
      <4> QED
        BY <4>1, <4>2 DEF WireDoomed
    <3> QED
      BY <3>2, <3>3
  <2> QED
    BY <2>1 DEF DoomsEdit, WireDoomed
<1>5. ASSUME NEW c \in calls' PROVE CallSpares(c)'
  <2>1. CASE c \in calls
    <3>1. Fallback(c)' <=> Fallback(c)
      BY <2>1, FallbackSame
    <3>2. CallSpares(c)
      BY <2>1 DEF DoomsInv
    <3> QED
      BY <2>1, <3>1, <3>2 DEF CallSpares
  <2> QED
    BY <2>1 DEF DoomsEdit
<1> QED
  BY <1>2, <1>3, <1>4, <1>5 DEF DoomsInv

LEMMA DoomsStand ==
    ASSUME CallsInv, DoomsInv, Steady, SesStand, OwnersLess, RoutesLess, DoomsEdit
    PROVE  DoomsInv'
<1>1. HoldersKnown
  BY DEF DoomsInv
<1>2. HoldersKnown'
  <2>1. ASSUME NEW r \in DOMAIN mgr'.byRoute, mgr'.byRoute[r] # None
        PROVE  mgr'.byRoute[r] \in DOMAIN ses' /\ ses'[mgr'.byRoute[r]].route = r
    <3>1. Holder(mgr', r) = mgr'.byRoute[r]
      BY <2>1 DEF Holder
    <3>2. Holder(mgr, r) = mgr'.byRoute[r]
      BY <2>1, <3>1 DEF RoutesLess
    <3>3. r \in DOMAIN mgr.byRoute /\ mgr.byRoute[r] = mgr'.byRoute[r]
      BY <2>1, <3>2 DEF Holder
    <3> QED
      BY <1>1, <2>1, <3>3 DEF HoldersKnown, SesStand
  <2> QED
    BY <2>1 DEF HoldersKnown
<1>3. ASSUME net.up, NEW r, Doomed(r) PROVE Doomed(r)'
  BY <1>1, <1>3, DoomedStays
<1>4. ASSUME NEW c \in calls, CallSpares(c), c.k = "close", c.res = "none", Fallback(c)
      PROVE  Unserved(c.arg[1])'
  BY <1>1, <1>4, UnservedStays DEF CallSpares
<1> QED
  BY <1>2, <1>3, <1>4, DoomsHold

\* The owners of routes stay, or somebody else is seen to have the route.
SeenElse(r, e) == \A x \in eng'.live : x.route = r /\ x.ep = e => SeenBy(x)'
SeenMore ==
    /\ mgr.refused \subseteq mgr'.refused
    /\ \A y \in mgr.retiring : y \in mgr'.retiring \/ ~EpochCurrent(y.ep) \/ SeenElse(y.route, y.ep)
    /\ \A s \in DOMAIN ses :
          \/ ses[s].closing \/ Routable(s) => ses'[s].closing \/ Routable(s)'
          \/ ~EpochCurrent(ses[s].ep) \/ SeenElse(ses[s].route, ses[s].ep)
    /\ \A c \in calls : c.k = "open" /\ c.res = "ok" =>
          c \in calls' \/ ~EpochCurrent(c.ep) \/ SeenElse(c.got[1], c.ep)
    /\ \A j \in Jobs : job[j].pc \in Carries =>
          \/ job'[j].pc \in Carries /\ job'[j].got = job[j].got
          \/ ~EpochCurrent(job[j].got[2]) \/ SeenElse(job[j].got[1], job[j].got[2])

LEMMA SeenKept ==
    ASSUME SesStand, SeenMore, NEW x \in eng'.live, EpochCurrent(x.ep), SeenBy(x)
    PROVE  SeenBy(x)'
<1>1. ASSUME NEW y \in mgr.retiring \cup mgr.refused, y.route = x.route, y.ep = x.ep PROVE SeenBy(x)'
  BY <1>1 DEF SeenMore, SeenElse, SeenBy
<1>2. ASSUME NEW s \in DOMAIN ses, ses[s].route = x.route, ses[s].ep = x.ep, ses[s].closing \/ Routable(s)
      PROVE  SeenBy(x)'
  <2>1. CASE SeenElse(ses[s].route, ses[s].ep)
    BY <1>2, <2>1 DEF SeenElse
  <2>2. CASE ses'[s].closing \/ Routable(s)'
    BY <1>2, <2>2 DEF SesStand, SeenBy
  <2> QED
    BY <1>2, <2>1, <2>2 DEF SeenMore
<1>3. ASSUME NEW c \in calls, c.k = "open", c.res = "ok", c.got[1] = x.route, c.ep = x.ep PROVE SeenBy(x)'
  BY <1>3 DEF SeenMore, SeenElse, SeenBy
<1>4. ASSUME NEW j \in Jobs, job[j].pc \in Carries, job[j].got[1] = x.route, job[j].got[2] = x.ep
      PROVE  SeenBy(x)'
  <2>1. CASE SeenElse(job[j].got[1], job[j].got[2])
    BY <1>4, <2>1 DEF SeenElse
  <2>2. CASE job'[j].pc \in Carries /\ job'[j].got = job[j].got
    BY <1>4, <2>2 DEF SeenBy
  <2> QED
    BY <1>4, <2>1, <2>2 DEF SeenMore
<1> QED
  BY <1>1, <1>2, <1>3, <1>4 DEF SeenBy

\* An acquisition that begins replaces a session that does not serve.
ReplacesEdit == \A j \in Jobs :
    /\ job'[j].pc \in Acquiring /\ job'[j].ex # None =>
          \/ job[j].pc \in Acquiring /\ job'[j].ex = job[j].ex
          \/ \E s \in DOMAIN ses : s = job'[j].ex /\ ~Serves(s)'
    /\ Sweeps(job'[j]) =>
          (Sweeps(job[j]) /\ job'[j].rs \subseteq job[j].rs) \/ job'[j].rs \subseteq DOMAIN ses

LEMMA SeenHold ==
    ASSUME CallsInv, SeenInv, Steady, SesStand, SeenMore, eng'.live \subseteq eng.live,
           \A j \in Jobs : JobReplaces(j)' /\ JobSweeps(j)',
           \A c \in calls' : c \in calls \/ CallTrue(c)'
    PROVE  SeenInv'
<1>1. \A x, y \in eng'.live : x.route = y.route => x = y
  BY DEF SeenInv
<1>2. ASSUME NEW x \in eng'.live, EpochCurrent(x.ep)' PROVE SeenBy(x)'
  <2>1. x \in eng.live /\ EpochCurrent(x.ep)
    BY <1>2 DEF EpochCurrent, Steady
  <2> QED
    BY <2>1, SeenKept DEF SeenInv
<1>3. ASSUME NEW c \in calls' PROVE CallTrue(c)'
  <2>1. CASE c \in calls
    <3>1. Fallback(c)' <=> Fallback(c)
      BY <2>1, FallbackSame
    <3> QED
      BY <2>1, <3>1 DEF SeenInv, CallTrue, GoneRoute, EpochCurrent, Steady
  <2> QED
    BY <2>1
<1> QED
  BY <1>1, <1>2, <1>3 DEF SeenInv

LEMMA SeenStand ==
    ASSUME CallsInv, SeenInv, Steady, SesStand, OwnersLess, SeenMore, ReplacesEdit,
           \A c \in calls' : c \in calls \/ CallTrue(c)'
    PROVE  SeenInv'
<1>1. ASSUME NEW j \in Jobs PROVE JobReplaces(j)'
  <2>1. JobReplaces(j)
    BY DEF SeenInv
  <2>2. PICK s : s = job'[j].ex
    OBVIOUS
  <2>3. ASSUME job'[j].pc \in Acquiring, s # None PROVE s \in DOMAIN ses' /\ ~Serves(s)'
    <3>1. CASE job[j].pc \in Acquiring /\ s = job[j].ex
      BY <2>1, <2>3, <3>1 DEF JobReplaces, OwnersLess
    <3>2. CASE \E t \in DOMAIN ses : t = s /\ ~Serves(t)'
      BY <3>2 DEF OwnersLess
    <3> QED
      BY <2>2, <2>3, <3>1, <3>2 DEF ReplacesEdit
  <2> QED
    BY <2>2, <2>3 DEF JobReplaces, Serves, Routable, EpochCurrent
<1>2. \A j \in Jobs : JobSweeps(j)'
  BY DEF SeenInv, JobSweeps, ReplacesEdit, Sweeps, SesStand
<1> QED
  BY <1>1, <1>2, SeenHold DEF OwnersLess

-----------------------------------------------------------------------------
(***************************************************************************)
(* Quiet steps: no call, no request, no route of the engine changes.       *)
(***************************************************************************)

QuietMgr ==
    /\ mgr'.cleanup = mgr.cleanup /\ mgr.refused \subseteq mgr'.refused
    /\ mgr'.retiring \subseteq mgr.retiring
    /\ \A x \in mgr.retiring : x \in mgr'.retiring \/ ~EpochCurrent(x.ep)
    /\ RoutesLess

QuietSes(s) ==
    /\ ses'[s].route = ses[s].route /\ ses'[s].ep = ses[s].ep /\ (ses'[s].closing <=> ses[s].closing)
    /\ ses'[s].st = "live" => ses[s].st = "live"
    /\ ses[s].st = "live" =>
          ses'[s].st = "live" \/ ~EpochCurrent(ses[s].ep) \/ GoneRoute(ses[s].route)

QuietJob(j) ==
    /\ job'[j].pc \in Carries => job[j].pc \in Carries /\ job'[j].got = job[j].got
    /\ job'[j].pc = "publish" => job[j].pc = "publish"
    /\ job[j].pc \in Carries =>
          \/ job'[j].pc \in Carries /\ job'[j].got = job[j].got
          \/ ~EpochCurrent(job[j].got[2]) \/ SeenElse(job[j].got[1], job[j].got[2])
    /\ job[j].pc \in Asks \/ job'[j].pc \in Asks =>
          job'[j].pc = job[j].pc /\ job'[j].rs = job[j].rs /\ job'[j].got = job[j].got
    /\ job'[j].pc \in Drains =>
          \A x \in job'[j].rs : (job[j].pc \in Drains /\ x \in job[j].rs) \/ x \in mgr.retiring
    /\ job'[j].pc \in Acquiring /\ job'[j].ex # None =>
          \/ job[j].pc \in Acquiring /\ job'[j].ex = job[j].ex
          \/ \E s \in DOMAIN ses : s = job'[j].ex /\ ~Serves(s)'
    /\ Sweeps(job'[j]) =>
          (Sweeps(job[j]) /\ job'[j].rs \subseteq job[j].rs) \/ job'[j].rs \subseteq DOMAIN ses

Special == {"settling", "listing", "purging"}
QuietOps == \A o \in ops : \E p \in ops' :
    /\ p.id = o.id /\ p.rt = o.rt
    /\ p.owner = o.owner \/ {p.owner, o.owner} \cap Special = {}

QuietStep ==
    /\ QuietMgr /\ DOMAIN ses' = DOMAIN ses /\ QuietOps /\ Steady
    /\ \A s \in DOMAIN ses : QuietSes(s)
    /\ \A j \in Jobs : QuietJob(j)
    /\ UNCHANGED <<calls, wire, eng, last>>

LEMMA QuietKeeps == ASSUME ManagerInv, RouteInv, QuietStep PROVE RouteInv'
<1> USE DEF RouteInv
<1>1. SesStand
  BY DEF QuietStep, QuietSes, SesStand
<1>2. last \in Nat
  BY DEF ManagerInv, Shaped
<1>3. OwnersLess
  <2>1. \A s \in DOMAIN ses : Serves(s)' => Serves(s)
    BY DEF QuietStep, QuietSes, Serves, Routable, EpochCurrent, Steady
  <2>2. \A j \in Jobs : /\ job'[j].pc \in Carries => job[j].pc \in Carries /\ job'[j].got = job[j].got
                        /\ job'[j].pc = "publish" => job[j].pc = "publish"
    BY DEF QuietStep, QuietJob
  <2> QED
    BY <2>1, <2>2 DEF OwnersLess, QuietStep, OwnersInv
<1>4. RoutesLess
  BY DEF QuietStep, QuietMgr
<1>5. ASSUME NEW c \in calls PROVE Waits(c)'
  <2>1. Waits(c)
    BY DEF CallsInv, CallOk
  <2>2. OpsKeep(c)
    <3>1. ASSUME NEW o \in ops, c.by \in {By(o), Rec(o)} PROVE \E p \in ops' :
            /\ p.id = o.id
            /\ c.by = By(o) => (p.owner = "settling" <=> o.owner = "settling")
            /\ c.by = Rec(o) => p.owner = o.owner
            /\ c.by = Rec(o) \/ p.owner = "settling" => p.rt = o.rt
      <4>1. PICK p \in ops' : /\ p.id = o.id /\ p.rt = o.rt
                              /\ p.owner = o.owner \/ {p.owner, o.owner} \cap Special = {}
        BY DEF QuietStep, QuietOps
      <4>2. p.owner = "settling" <=> o.owner = "settling"
        BY <4>1 DEF Special
      <4>3. c.by = Rec(o) => o.owner \in Special
        BY ByRec DEF RecWaits, Special
      <4>4. c.by = Rec(o) => p.owner = o.owner
        BY <4>1, <4>3 DEF Special
      <4> QED
        BY <4>1, <4>2, <4>4
    <3> QED
      BY <3>1 DEF OpsKeep
  <2>3. JobsKeep(c)
    <3>1. ASSUME NEW j \in Jobs, c.by = <<"job", j>> PROVE job[j].pc \in Asks
      BY <3>1, ByJob DEF JobWaits
    <3> QED
      BY <3>1 DEF JobsKeep, QuietStep, QuietJob
  <2>4. SesKeep(c)
    BY DEF SesKeep, QuietStep, QuietSes, QuietMgr
  <2> QED
    BY <1>1, <2>1, <2>2, <2>3, <2>4, WaitsKept DEF QuietStep
<1>6. CallsInv'
  <2>1. PICK A, D : A = {} /\ D = {}
    OBVIOUS
  <2>2. CallsEdit(A, D)
    BY <1>2, <2>1 DEF CallsEdit, QuietStep
  <2>3. \A c \in calls \ A : Waits(c)'
    BY <1>5
  <2> QED
    BY <1>1, <1>2, <2>2, <2>3, CallsStand DEF QuietStep
<1>7. OwnersInv'
  BY <1>1, <1>3, OwnersStand DEF QuietStep
<1>8. DoomsInv'
  <2>1. DoomsEdit
    <3>1. ASSUME NEW j \in Jobs, job'[j].pc = "draining" PROVE job[j].pc = "draining" /\ job'[j].got = job[j].got
      BY <3>1 DEF QuietStep, QuietJob, Asks
    <3>2. ASSUME NEW j \in Jobs, job'[j].pc \in Drains, NEW x \in job'[j].rs
          PROVE  (job[j].pc \in Drains /\ x \in job[j].rs) \/ x \in mgr.retiring
      BY <3>2 DEF QuietStep, QuietJob
    <3> QED
      BY <3>1, <3>2 DEF DoomsEdit, QuietStep, QuietMgr
  <2> QED
    BY <1>1, <1>3, <1>4, <2>1, DoomsStand DEF QuietStep
<1>9. SeenInv'
  <2>1. SeenMore
    <3>1. ASSUME NEW s \in DOMAIN ses, ses[s].closing \/ Routable(s)
          PROVE  \/ ses'[s].closing \/ Routable(s)'
                 \/ ~EpochCurrent(ses[s].ep) \/ SeenElse(ses[s].route, ses[s].ep)
      <4>1. QuietSes(s)
        BY DEF QuietStep
      <4>2. GoneRoute(ses[s].route) => SeenElse(ses[s].route, ses[s].ep)
        BY DEF GoneRoute, SeenElse, QuietStep
      <4> QED
        BY <3>1, <4>1, <4>2 DEF QuietSes, Routable
    <3>2. \A j \in Jobs : job[j].pc \in Carries =>
            \/ job'[j].pc \in Carries /\ job'[j].got = job[j].got
            \/ ~EpochCurrent(job[j].got[2]) \/ SeenElse(job[j].got[1], job[j].got[2])
      BY DEF QuietStep, QuietJob
    <3> QED
      BY <3>1, <3>2 DEF SeenMore, QuietStep, QuietMgr
  <2>2. ReplacesEdit
    BY DEF ReplacesEdit, QuietStep, QuietJob
  <2> QED
    BY <1>1, <1>3, <2>1, <2>2, SeenStand DEF QuietStep
<1> QED
  BY <1>6, <1>7, <1>8, <1>9

\* What is the same is quiet.
LEMMA OpsSame == ops' = ops => QuietOps
BY DEF QuietOps

LEMMA NetSame == ASSUME CallsInv, UNCHANGED <<net>> PROVE Steady
BY DEF CallsInv, Steady

LEMMA MgrQuiet ==
    ASSUME mgr'.cleanup = mgr.cleanup, mgr'.retiring = mgr.retiring, mgr.refused \subseteq mgr'.refused,
           mgr'.byRoute = mgr.byRoute, mgr.retired \subseteq mgr'.retired
    PROVE  QuietMgr
BY DEF QuietMgr, RoutesLess, Holder

LEMMA SesQuiet == ses' = ses => DOMAIN ses' = DOMAIN ses /\ \A s \in DOMAIN ses : QuietSes(s)
BY DEF QuietSes

LEMMA SameQuiet == ASSUME NEW j, job'[j] = job[j] PROVE QuietJob(j)
BY DEF QuietJob

LEMMA JobsQuiet == ASSUME job' = job, NEW j \in Jobs PROVE QuietJob(j)
BY SameQuiet

\* An operation that has no route goes on without one.
LEMMA JobQuiet ==
    ASSUME ManagerInv, NEW j \in Jobs, NEW r, job' = [job EXCEPT ![j] = r],
           job[j].pc \notin Carries \cup Asks, r.pc \notin Carries \cup Asks \cup Acquiring,
           r.pc \in Drains => r.rs \subseteq mgr.retiring \/ (job[j].pc \in Drains /\ r.rs \subseteq job[j].rs),
           Sweeps(r) => r.rs \subseteq DOMAIN ses \/ (Sweeps(job[j]) /\ r.rs \subseteq job[j].rs)
    PROVE  \A i \in Jobs : QuietJob(i)
<1>1. job'[j] = r
  BY JobIs
<1>2. QuietJob(j)
  BY <1>1 DEF QuietJob, Carries, Asks, Acquiring, Sweeps
<1>3. \A i \in Jobs \ {j} : job'[i] = job[i]
  BY JobIs
<1> QED
  BY <1>2, <1>3, SameQuiet

\* It ends, with a route only if that is none of the current connection.
LEMMA OverQuiet ==
    ASSUME ManagerInv, NEW j \in Jobs, NEW ok, job' = [job EXCEPT ![j] = Over(@, ok)], job[j].pc \notin Asks,
           job[j].pc \in Carries =>
              ~EpochCurrent(job[j].got[2]) \/ SeenElse(job[j].got[1], job[j].got[2])
    PROVE  \A i \in Jobs : QuietJob(i)
<1>1. PICK r : r = Over(job[j], ok)
  OBVIOUS
<1>2. r.pc \in {"commit", "done"}
  BY <1>1, JobIs DEF Over, JobFields
<1>3. job'[j] = r
  BY <1>1, JobIs
<1>4. QuietJob(j)
  BY <1>2, <1>3 DEF QuietJob, Carries, Asks, Acquiring, Drains, Sweeps
<1>5. \A i \in Jobs \ {j} : job'[i] = job[i]
  BY JobIs
<1> QED
  BY <1>4, <1>5, SameQuiet

LEMMA AgainQuiet ==
    ASSUME ManagerInv, NEW j \in Jobs, AgainOrOver(j), job[j].pc \notin Asks,
           job[j].pc \in Carries =>
              ~EpochCurrent(job[j].got[2]) \/ SeenElse(job[j].got[1], job[j].got[2])
    PROVE  \A i \in Jobs : QuietJob(i)
<1>1. CASE job' = [job EXCEPT ![j].pc = "line", ![j].try = 2, ![j].only = TRUE, ![j].fresh = FALSE]
  <2>1. job'[j].pc = "line" /\ \A i \in Jobs \ {j} : job'[i] = job[i]
    BY <1>1, JobIs DEF JobFields
  <2>2. QuietJob(j)
    BY <2>1 DEF QuietJob, Carries, Asks, Acquiring, Drains, Sweeps
  <2> QED
    BY <2>1, <2>2, SameQuiet
<1>2. CASE ~ (job' = [job EXCEPT ![j].pc = "line", ![j].try = 2, ![j].only = TRUE, ![j].fresh = FALSE])
  <2>1. PICK ok : ok = FALSE
    OBVIOUS
  <2>2. job' = [job EXCEPT ![j] = Over(@, ok)]
    BY <1>2, <2>1 DEF AgainOrOver, Finish
  <2> QED
    BY <2>2, OverQuiet
<1> QED
  BY <1>1, <1>2

\* A step of an operation that has nothing to do with the routes
LEMMA JobKeeps ==
    ASSUME ManagerInv, RouteInv, UNCHANGED <<mgr, ses, ops, calls, wire, eng, last, net>>,
           \A j \in Jobs : QuietJob(j)
    PROVE  RouteInv'
<1>1. QuietMgr /\ QuietOps /\ Steady
  BY MgrQuiet, OpsSame, NetSame DEF RouteInv
<1> QED
  BY <1>1, SesQuiet, QuietKeeps DEF QuietStep

LEMMA StartKeeps == ASSUME ManagerInv, RouteInv, NEW j \in Jobs, Start(j) PROVE RouteInv'
<1>1. PICK ver, only : job' = [job EXCEPT ![j].pc = "ready", ![j].ver = ver, ![j].only = only]
  BY DEF Start
<1>2. PICK r : r = [job[j] EXCEPT !.pc = "ready", !.ver = ver, !.only = only]
  OBVIOUS
<1>3. job' = [job EXCEPT ![j] = r] /\ r.pc = "ready"
  BY <1>1, <1>2, JobIs DEF JobFields
<1>4. \A i \in Jobs : QuietJob(i)
  BY <1>3, JobQuiet DEF Start, Carries, Asks, Acquiring, Drains, Sweeps
<1> QED
  BY <1>4, JobKeeps DEF Start

\* An operation without a route ends.
LEMMA EndsQuiet ==
    ASSUME ManagerInv, NEW j \in Jobs, NEW ok, job' = [job EXCEPT ![j] = Over(@, ok)],
           job[j].pc \notin Asks \cup Carries
    PROVE  \A i \in Jobs : QuietJob(i)
BY OverQuiet

LEMMA JoinKeeps == ASSUME ManagerInv, RouteInv, NEW j \in Jobs, Join(j) PROVE RouteInv'
<1>1. job[j].pc \notin Asks \cup Carries
  BY DEF Join, Asks, Carries
<1>2. CASE job' = [job EXCEPT ![j].pc = "line"]
  <2>1. PICK r : r = [job[j] EXCEPT !.pc = "line"]
    OBVIOUS
  <2>2. job' = [job EXCEPT ![j] = r] /\ r.pc = "line"
    BY <1>2, <2>1, JobIs DEF JobFields
  <2>3. \A i \in Jobs : QuietJob(i)
    BY <1>1, <2>2, JobQuiet DEF Carries, Asks, Acquiring, Drains, Sweeps
  <2> QED
    BY <2>3, JobKeeps DEF Join
<1>3. CASE job' # [job EXCEPT ![j].pc = "line"]
  <2>1. PICK ok : ok = FALSE
    OBVIOUS
  <2>2. job' = [job EXCEPT ![j] = Over(@, ok)]
    BY <1>3, <2>1 DEF Join
  <2>3. \A i \in Jobs : QuietJob(i)
    BY <1>1, <2>2, EndsQuiet
  <2> QED
    BY <2>3, JobKeeps DEF Join
<1> QED
  BY <1>2, <1>3

LEMMA CancelInLineKeeps == ASSUME ManagerInv, RouteInv, NEW j \in Jobs, CancelInLine(j) PROVE RouteInv'
<1>1. PICK ok : ok = FALSE
  OBVIOUS
<1>2. job' = [job EXCEPT ![j] = Over(@, ok)] /\ job[j].pc \notin Asks \cup Carries
  BY <1>1 DEF CancelInLine, Asks, Carries
<1>3. \A i \in Jobs : QuietJob(i)
  BY <1>2, EndsQuiet
<1> QED
  BY <1>3, JobKeeps DEF CancelInLine

LEMMA WakeKeeps == ASSUME ManagerInv, RouteInv, NEW j \in Jobs, Wake(j) PROVE RouteInv'
BY JobsQuiet, JobKeeps DEF Wake, mgrVars

LEMMA CancelAtFenceKeeps == ASSUME ManagerInv, RouteInv, NEW j \in Jobs, CancelAtFence(j) PROVE RouteInv'
<1>1. PICK ok : ok = FALSE
  OBVIOUS
<1>2. job' = [job EXCEPT ![j] = Over(@, ok)] /\ job[j].pc \notin Asks \cup Carries
  BY <1>1 DEF CancelAtFence, Finish, Turn, Asks, Carries
<1>3. \A i \in Jobs : QuietJob(i)
  BY <1>2, EndsQuiet
<1> QED
  BY <1>3, JobKeeps DEF CancelAtFence

LEMMA CancelOpenKeeps == ASSUME ManagerInv, RouteInv, NEW j \in Jobs, CancelOpen(j) PROVE RouteInv'
<1>1. PICK r : r = [job[j] EXCEPT !.pc = "leaving"]
  OBVIOUS
<1>2. job' = [job EXCEPT ![j] = r] /\ r.pc = "leaving" /\ job[j].pc \notin Carries \cup Asks
  BY <1>1, JobIs DEF JobFields, CancelOpen, Turn, Carries, Asks
<1>3. \A i \in Jobs : QuietJob(i)
  BY <1>2, JobQuiet DEF Carries, Asks, Acquiring, Drains, Sweeps
<1> QED
  BY <1>3, JobKeeps DEF CancelOpen

LEMMA CommitKeeps == ASSUME ManagerInv, RouteInv, NEW j \in Jobs, Commit(j) PROVE RouteInv'
<1>1. PICK r : r = [job[j] EXCEPT !.pc = "done"]
  OBVIOUS
<1>2. job' = [job EXCEPT ![j] = r] /\ r.pc = "done" /\ job[j].pc \notin Carries \cup Asks
  BY <1>1, JobIs DEF JobFields, Commit, Carries, Asks
<1>3. \A i \in Jobs : QuietJob(i)
  BY <1>2, JobQuiet DEF Carries, Asks, Acquiring, Drains, Sweeps
<1> QED
  BY <1>3, JobKeeps DEF Commit

LEMMA StopWaitedKeeps == ASSUME ManagerInv, RouteInv, NEW j \in Jobs, StopWaited(j) PROVE RouteInv'
<1>1. job[j].pc \notin Carries \cup Asks
  BY DEF StopWaited, Turn, Carries, Asks
<1>2. ASSUME job[j].kind = "shutdown", NEW rs, rs \subseteq job[j].rs, NEW ok,
             job' = [job EXCEPT ![j].pc = "sweep", ![j].rs = rs, ![j].ok = ok]
      PROVE  \A i \in Jobs : QuietJob(i)
  <2>1. PICK r : r = [job[j] EXCEPT !.pc = "sweep", !.rs = rs, !.ok = ok]
    OBVIOUS
  <2>2. job' = [job EXCEPT ![j] = r] /\ r.pc = "sweep" /\ r.rs = rs
    BY <1>2, <2>1, JobIs DEF JobFields
  <2>3. Sweeps(job[j])
    BY <1>2 DEF Sweeps, StopWaited, Turn
  <2> QED
    BY <1>1, <1>2, <2>2, <2>3, JobQuiet DEF Carries, Asks, Acquiring, Drains
<1>3. ASSUME job' = [job EXCEPT ![j].pc = "drain", ![j].rs = Retirings(job[j].chat)]
      PROVE  \A i \in Jobs : QuietJob(i)
  <2>1. PICK r : r = [job[j] EXCEPT !.pc = "drain", !.rs = Retirings(job[j].chat)]
    OBVIOUS
  <2>2. job' = [job EXCEPT ![j] = r] /\ r.pc = "drain" /\ r.rs \subseteq mgr.retiring
    BY <1>3, <2>1, JobIs DEF JobFields, Retirings
  <2> QED
    BY <1>1, <2>2, JobQuiet DEF Carries, Asks, Acquiring, Sweeps
<1>4. ASSUME Finish(j, FALSE) PROVE \A i \in Jobs : QuietJob(i)
  <2>1. PICK ok : ok = FALSE
    OBVIOUS
  <2>2. job' = [job EXCEPT ![j] = Over(@, ok)]
    BY <1>4, <2>1 DEF Finish
  <2> QED
    BY <1>1, <2>2, EndsQuiet
<1>5. ASSUME job[j].kind = "shutdown" PROVE \A i \in Jobs : QuietJob(i)
  <2>1. PICK closed : job' = [job EXCEPT ![j].pc = "sweep", ![j].rs = @ \ {job[j].s}, ![j].ok = @ /\ closed]
    BY <1>5 DEF StopWaited
  <2>2. PICK rs, ok : rs = job[j].rs \ {job[j].s} /\ ok = (job[j].ok /\ closed)
    OBVIOUS
  <2>3. job' = [job EXCEPT ![j].pc = "sweep", ![j].rs = rs, ![j].ok = ok]
    BY <2>1, <2>2, JobIs DEF JobFields
  <2> QED
    BY <1>2, <1>5, <2>2, <2>3
<1>6. \A i \in Jobs : QuietJob(i)
  BY <1>3, <1>4, <1>5 DEF StopWaited
<1> QED
  BY <1>6, JobKeeps DEF StopWaited

LEMMA NoteDownKeeps == ASSUME ManagerInv, RouteInv, NEW n, NoteDown(n) PROVE RouteInv'
<1>1. Steady
  BY DEF NoteDown, RouteInv, CallsInv, Steady, NetFields
<1>2. QuietMgr /\ QuietOps
  BY MgrQuiet, OpsSame DEF NoteDown
<1> QED
  BY <1>1, <1>2, SesQuiet, JobsQuiet, QuietKeeps DEF QuietStep, NoteDown

LEMMA EnqueueKeeps == ASSUME ManagerInv, RouteInv, NEW n, EnqueueReconciliation(n) PROVE RouteInv'
<1>1. CASE job' = job
  BY <1>1, JobsQuiet, JobKeeps DEF EnqueueReconciliation
<1>2. CASE job' # job
  <2>1. PICK j : /\ j = CHOOSE i \in Spare : TRUE
                 /\ Spare # {}
                 /\ job' = [job EXCEPT ![j].pc = "line", ![j].chat = ses[n.s].chat, ![j].s = n.s, ![j].only = TRUE]
    BY <1>2 DEF EnqueueReconciliation
  <2>2. j \in Jobs /\ job[j].pc = "new"
    BY <2>1 DEF Spare
  <2>3. PICK r : r = [job[j] EXCEPT !.pc = "line", !.chat = ses[n.s].chat, !.s = n.s, !.only = TRUE]
    OBVIOUS
  <2>4. job' = [job EXCEPT ![j] = r] /\ r.pc = "line"
    BY <2>1, <2>2, <2>3, JobIs DEF JobFields
  <2>5. \A i \in Jobs : QuietJob(i)
    BY <2>2, <2>4, JobQuiet DEF Carries, Asks, Acquiring, Drains, Sweeps
  <2> QED
    BY <2>5, JobKeeps DEF EnqueueReconciliation
<1> QED
  BY <1>1, <1>2

-----------------------------------------------------------------------------
(* The sessions of an epoch that is over are invalidated. *)

LEMMA DetachQuiet ==
    ASSUME ManagerInv, NEW e, ~EpochCurrent(e), mgr' = Detach(mgr, e)
    PROVE  QuietMgr
<1>1. DOMAIN mgr = MgrFields
  BY MgrIs
<1>2. /\ mgr'.cleanup = mgr.cleanup /\ mgr'.refused = mgr.refused /\ mgr'.retiring = mgr.retiring
      /\ mgr'.byRoute = [r \in DOMAIN mgr.byRoute |-> IF mgr.byRoute[r] \in OfEpoch(mgr, e) THEN None
                                                      ELSE mgr.byRoute[r]]
      /\ mgr'.retired = {x \in mgr.retired : x.ep # e}
  BY <1>1 DEF Detach, MgrFields
<1>3. RoutesLess
  BY <1>2 DEF RoutesLess, Holder
<1> QED
  BY <1>2, <1>3 DEF QuietMgr

\* u is what quiet steps make of the sessions.
Fades(u) ==
    /\ DOMAIN u = DOMAIN ses
    /\ \A s \in DOMAIN ses :
          /\ DOMAIN u[s] = SesFields
          /\ u[s].route = ses[s].route /\ u[s].ep = ses[s].ep /\ (u[s].closing <=> ses[s].closing)
          /\ u[s].st = "live" => ses[s].st = "live"
          /\ ses[s].st = "live" => u[s].st = "live" \/ ~EpochCurrent(ses[s].ep) \/ GoneRoute(ses[s].route)

LEMMA FadesQuiet == ASSUME Fades(ses') PROVE DOMAIN ses' = DOMAIN ses /\ \A s \in DOMAIN ses : QuietSes(s)
BY DEF Fades, QuietSes

LEMMA SameFades == ASSUME ManagerInv PROVE Fades(ses)
BY SesIs DEF Fades

LEMMA InvalidatedFades == ASSUME ManagerInv, NEW e, ~EpochCurrent(e) PROVE Fades(Invalidated(mgr, e))
<1>1. PICK u : u = Invalidated(mgr, e)
  OBVIOUS
<1>2. DOMAIN u = DOMAIN ses
  BY <1>1 DEF Invalidated
<1>3. ASSUME NEW s \in DOMAIN ses
      PROVE  \/ u[s] = ses[s]
             \/ u[s] = [ses[s] EXCEPT !.st = "resumable"] /\ ses[s].ep = e
  BY <1>1 DEF Invalidated, OfEpoch
<1>4. Fades(u)
  BY <1>2, <1>3, SesIs DEF Fades, SesFields
<1> QED
  BY <1>1, <1>4

LEMMA InvalidatedQuiet ==
    ASSUME ManagerInv, NEW e, ~EpochCurrent(e), ses' = Invalidated(mgr, e)
    PROVE  DOMAIN ses' = DOMAIN ses /\ \A s \in DOMAIN ses : QuietSes(s)
<1>1. Fades(ses')
  BY InvalidatedFades
<1> QED
  BY <1>1, FadesQuiet

\* A step that changes the indexes and the sessions quietly
LEMMA StillKeeps ==
    ASSUME ManagerInv, RouteInv, UNCHANGED <<ops, calls, wire, eng, last, net>>, QuietMgr,
           DOMAIN ses' = DOMAIN ses, \A s \in DOMAIN ses : QuietSes(s), \A j \in Jobs : QuietJob(j)
    PROVE  RouteInv'
BY OpsSame, NetSame, QuietKeeps DEF QuietStep, RouteInv

LEMMA ObserveLossKeeps == ASSUME ManagerInv, RouteInv, ObserveLoss PROVE RouteInv'
<1>1. PICK e : ~EpochCurrent(e) /\ mgr' = Detach(mgr, e) /\ ses' = Invalidated(mgr, e)
  BY DEF ObserveLoss
<1> QED
  BY <1>1, DetachQuiet, InvalidatedQuiet, JobsQuiet, StillKeeps DEF ObserveLoss

LEMMA ReconnectFailsKeeps == ASSUME ManagerInv, RouteInv, ReconnectFails PROVE RouteInv'
<1>1. PICK e : ~EpochCurrent(e) /\ mgr' = Detach(mgr, e) /\ ses' = Invalidated(mgr, e)
  BY DEF ReconnectFails, EpochCurrent
<1>2. Steady
  BY DEF ReconnectFails, RouteInv, CallsInv, Steady, NetFields
<1> QED
  BY <1>1, <1>2, DetachQuiet, InvalidatedQuiet, JobsQuiet, OpsSame, QuietKeeps DEF ReconnectFails, QuietStep

LEMMA ObserveEpochKeeps == ASSUME ManagerInv, RouteInv, ObserveEpoch PROVE RouteInv'
<1>1. QuietMgr
  BY MgrIs, MgrQuiet DEF ObserveEpoch, MgrFields
<1> QED
  BY <1>1, SesQuiet, JobsQuiet, StillKeeps DEF ObserveEpoch

LEMMA NoteUpKeeps == ASSUME ManagerInv, RouteInv, NEW n, NoteUp(n) PROVE RouteInv'
<1>1. CASE UNCHANGED <<mgr, ses>>
  BY <1>1, MgrQuiet, SesQuiet, JobsQuiet, StillKeeps DEF NoteUp
<1>2. CASE ~UNCHANGED <<mgr, ses>>
  <2>1. PICK e : ~EpochCurrent(e) /\ mgr' = Detach(mgr, e) /\ ses' = Invalidated(mgr, e)
    BY <1>2 DEF NoteUp, Orphaned
  <2> QED
    BY <2>1, DetachQuiet, InvalidatedQuiet, JobsQuiet, StillKeeps DEF NoteUp
<1> QED
  BY <1>1, <1>2

LEMMA ShutdownKeeps == ASSUME ManagerInv, RouteInv, NEW j \in Jobs, Shutdown(j) PROVE RouteInv'
<1>1. QuietMgr
  BY MgrIs, MgrQuiet DEF Shutdown, MgrFields
<1>2. PICK r : r = [job[j] EXCEPT !.pc = "quiesce"]
  OBVIOUS
<1>3. job' = [job EXCEPT ![j] = r] /\ r.pc = "quiesce" /\ job[j].pc \notin Carries \cup Asks
  BY <1>2, JobIs DEF JobFields, Shutdown, Carries, Asks
<1>4. \A i \in Jobs : QuietJob(i)
  BY <1>3, JobQuiet DEF Carries, Asks, Acquiring, Drains, Sweeps
<1> QED
  BY <1>1, <1>4, SesQuiet, StillKeeps DEF Shutdown

LEMMA QuiesceKeeps == ASSUME ManagerInv, RouteInv, NEW j \in Jobs, Quiesce(j) PROVE RouteInv'
<1>1. job[j].pc \notin Carries \cup Asks
  BY DEF Quiesce, Turn, Carries, Asks
<1>2. CASE Quiet /\ job' = [job EXCEPT ![j].pc = "sweep", ![j].rs = {mgr.byChat[c] : c \in Chats} \ {None}]
             /\ mgr' = [mgr EXCEPT !.byChat = [c \in Chats |-> None], !.byRoute = [r \in {} |-> None],
                                  !.invalid = {}, !.slotGen = [c \in Chats |-> 0]]
  <2>1. PICK rs : rs = {mgr.byChat[c] : c \in Chats} \ {None}
    OBVIOUS
  <2>2. PICK jb : jb = [job[j] EXCEPT !.pc = "sweep", !.rs = rs]
    OBVIOUS
  <2>3. job' = [job EXCEPT ![j] = jb] /\ jb.pc = "sweep" /\ jb.rs \subseteq DOMAIN ses
    BY <1>2, <2>1, <2>2, JobIs, MgrIs DEF JobFields, Chats
  <2>4. \A i \in Jobs : QuietJob(i)
    BY <1>1, <2>3, JobQuiet DEF Carries, Asks, Acquiring, Drains, Sweeps
  <2>5. /\ mgr'.cleanup = mgr.cleanup /\ mgr'.refused = mgr.refused /\ mgr'.retiring = mgr.retiring
        /\ mgr'.byRoute = [r \in {} |-> None] /\ mgr'.retired = mgr.retired
    BY <1>2, MgrIs DEF MgrFields
  <2>6. QuietMgr
    BY <2>5 DEF QuietMgr, RoutesLess, Holder
  <2> QED
    BY <2>4, <2>6, SesQuiet, StillKeeps DEF Quiesce
<1>3. CASE Finish(j, FALSE) /\ UNCHANGED mgr
  <2>1. PICK ok : ok = FALSE
    OBVIOUS
  <2>2. job' = [job EXCEPT ![j] = Over(@, ok)]
    BY <1>3, <2>1 DEF Finish
  <2>3. \A i \in Jobs : QuietJob(i)
    BY <1>1, <2>2, EndsQuiet
  <2> QED
    BY <1>3, <2>3, JobKeeps DEF Quiesce
<1> QED
  BY <1>2, <1>3 DEF Quiesce

\* acquire finds a session that serves, or one that does not.
LEMMA CheckKeeps == ASSUME ManagerInv, RouteInv, NEW j \in Jobs, Check(j) PROVE RouteInv'
<1>1. job[j].pc \notin Carries \cup Asks
  BY DEF Check, Turn, Carries, Asks
<1>2. PICK ex, lost, m, t :
        /\ ex = mgr.byChat[job[j].chat] /\ lost = (ex # None /\ ~EpochCurrent(ses[ex].ep))
        /\ m = (IF lost THEN Detach(mgr, ses[ex].ep) ELSE mgr)
        /\ t = (IF lost THEN Invalidated(mgr, ses[ex].ep) ELSE ses)
  OBVIOUS
<1>3. ex = None \/ ex \in DOMAIN ses
  BY <1>2, MgrIs, JobIs
<1>4. Fades(t)
  <2>1. CASE lost
    <3>1. PICK e : e = ses[ex].ep /\ ~EpochCurrent(e)
      BY <1>2, <2>1
    <3> QED
      BY <1>2, <2>1, <3>1, InvalidatedFades
  <2> QED
    BY <1>2, <2>1, SameFades
<1>5. mgr' = m => QuietMgr
  <2>1. ASSUME mgr' = m, lost PROVE QuietMgr
    <3>1. PICK e : e = ses[ex].ep /\ ~EpochCurrent(e) /\ mgr' = Detach(mgr, e)
      BY <1>2, <2>1
    <3> QED
      BY <3>1, DetachQuiet
  <2>2. ASSUME mgr' = m, ~lost PROVE QuietMgr
    BY <1>2, <2>2, MgrQuiet
  <2> QED
    BY <2>1, <2>2
<1>6. UNCHANGED <<ops, calls, wire, eng, last, net>>
  BY DEF Check
<1>7. CASE (\E ok : Finish(j, ok)) /\ UNCHANGED <<mgr, ses>>
  <2>1. PICK ok : job' = [job EXCEPT ![j] = Over(@, ok)]
    BY <1>7 DEF Finish
  <2>2. \A i \in Jobs : QuietJob(i)
    BY <1>1, <2>1, EndsQuiet
  <2> QED
    BY <1>6, <1>7, <2>2, JobKeeps
<1>8. ASSUME NEW r, mgr' = m, Fades(ses'), r.pc \in {"hydrate", "slot"}, job' = [job EXCEPT ![j] = r],
             r.pc = "slot" => r.ex = None \/ \E s \in DOMAIN ses : s = r.ex /\ ~Serves(s)'
      PROVE  RouteInv'
  <2>1. job'[j] = r /\ \A i \in Jobs \ {j} : job'[i] = job[i]
    BY <1>8, JobIs
  <2>2. QuietJob(j)
    BY <1>1, <1>8, <2>1 DEF QuietJob, Carries, Asks, Acquiring, Drains, Sweeps
  <2> QED
    BY <1>5, <1>6, <1>8, <2>1, <2>2, SameQuiet, FadesQuiet, StillKeeps
<1>9. CASE mgr' = m /\ ses' = t /\ \E ok : Finish(j, ok)
  <2>1. PICK ok : job' = [job EXCEPT ![j] = Over(@, ok)]
    BY <1>9 DEF Finish
  <2>2. \A i \in Jobs : QuietJob(i)
    BY <1>1, <2>1, EndsQuiet
  <2> QED
    BY <1>4, <1>5, <1>6, <1>9, <2>2, FadesQuiet, StillKeeps
<1>10. PICK over, reusable : /\ over = (mgr.closed \/ StaleVersion(j) \/ Moot(j) \/ Denied(j))
                             /\ reusable = (ex # None /\ t[ex].st = "live" /\ ~t[ex].closing)
  OBVIOUS
<1>11. PICK jb : jb = [job[j] EXCEPT !.sg = mgr.slotGen[job[j].chat], !.ex = ex,
                             !.ver = IF job[j].kind = "reconcile" /\ job[j].try = 1
                                     THEN store[job[j].chat].ver ELSE @]
  OBVIOUS
<1>12. \/ Finish(j, Moot(j)) /\ UNCHANGED <<mgr, ses>>
       \/ /\ mgr' = m /\ reusable
          /\ ses' = [t EXCEPT ![ex].held = @ \/ job[j].kind # "media"]
          /\ job' = [job EXCEPT ![j] = [jb EXCEPT !.pc = "hydrate", !.s = ex]]
       \/ mgr' = m /\ ~reusable /\ ses' = t /\ job' = [job EXCEPT ![j] = [jb EXCEPT !.pc = "slot"]]
       \/ mgr' = m /\ ses' = t /\ Finish(j, FALSE)
  BY <1>2, <1>10, <1>11 DEF Check
<1>13. CASE /\ mgr' = m /\ reusable
            /\ ses' = [t EXCEPT ![ex].held = @ \/ job[j].kind # "media"]
            /\ job' = [job EXCEPT ![j] = [jb EXCEPT !.pc = "hydrate", !.s = ex]]
  <2>1. PICK h : ses' = [t EXCEPT ![ex].held = h]
    BY <1>13
  <2>2. Fades(ses')
    BY <1>4, <2>1 DEF Fades, SesFields
  <2>3. PICK r : r = [jb EXCEPT !.pc = "hydrate", !.s = ex]
    OBVIOUS
  <2>4. r.pc = "hydrate" /\ job' = [job EXCEPT ![j] = r]
    BY <1>11, <1>13, <2>3, JobIs DEF JobFields
  <2> QED
    BY <1>8, <1>13, <2>2, <2>4
<1>14. CASE mgr' = m /\ ~reusable /\ ses' = t /\ job' = [job EXCEPT ![j] = [jb EXCEPT !.pc = "slot"]]
  <2>1. PICK r : r = [jb EXCEPT !.pc = "slot"]
    OBVIOUS
  <2>2. r.pc = "slot" /\ r.ex = ex /\ job' = [job EXCEPT ![j] = r]
    BY <1>11, <1>14, <2>1, JobIs DEF JobFields
  <2>3. ex = None \/ \E s \in DOMAIN ses : s = ex /\ ~Serves(s)'
    BY <1>3, <1>10, <1>14 DEF Serves, Routable
  <2> QED
    BY <1>4, <1>8, <1>14, <2>2, <2>3
<1> QED
  BY <1>7, <1>9, <1>12, <1>13, <1>14


LEMMA HydrateKeeps == ASSUME ManagerInv, RouteInv, NEW j \in Jobs, Hydrate(j) PROVE RouteInv'
<1>1. job[j].pc \notin Asks \cup Carries
  BY DEF Hydrate, Turn, Carries, Asks
<1>2. PICK s : s = job[j].s
  OBVIOUS
<1>3. UNCHANGED <<ops, calls, wire, eng, last, net>>
  BY DEF Hydrate
<1>4. ASSUME NEW ok, Finish(j, ok) PROVE \A i \in Jobs : QuietJob(i)
  BY <1>1, <1>4, EndsQuiet DEF Finish
<1>5. CASE Finish(j, TRUE) /\ UNCHANGED <<mgr, ses>>
  <2>1. PICK ok : ok = TRUE /\ Finish(j, ok)
    BY <1>5
  <2> QED
    BY <1>3, <1>4, <1>5, <2>1, JobKeeps
<1>6. CASE /\ \A x \in eng.live : x.route # ses[s].route
           /\ ses' = (IF ses[s].st = "live" THEN [ses EXCEPT ![s].st = "resumable"] ELSE ses)
           /\ AgainOrOver(j) /\ UNCHANGED mgr
  <2>1. \A i \in Jobs : QuietJob(i)
    BY <1>1, <1>6, AgainQuiet
  <2>2. Fades(ses')
    <3>1. CASE ses' = ses
      BY <3>1, SameFades
    <3>2. CASE ses' = [ses EXCEPT ![s].st = "resumable"]
      BY <1>6, <3>2, SesIs DEF Fades, SesFields, GoneRoute
    <3> QED
      BY <1>6, <3>1, <3>2
  <2> QED
    BY <1>3, <1>6, <2>1, <2>2, MgrQuiet, FadesQuiet, StillKeeps
<1>7. CASE /\ ~EpochCurrent(ses[s].ep) /\ mgr' = Detach(mgr, ses[s].ep) /\ ses' = Invalidated(mgr, ses[s].ep)
           /\ Finish(j, FALSE)
  <2>1. PICK ok : ok = FALSE /\ Finish(j, ok)
    BY <1>7
  <2>2. PICK e : ~EpochCurrent(e) /\ mgr' = Detach(mgr, e) /\ ses' = Invalidated(mgr, e)
    BY <1>7
  <2> QED
    BY <1>3, <1>4, <2>1, <2>2, DetachQuiet, InvalidatedQuiet, StillKeeps
<1> QED
  BY <1>2, <1>5, <1>6, <1>7 DEF Hydrate

-----------------------------------------------------------------------------
(* Quiet steps of calls of open that stay *)

LEMMA LastGraceKeeps == ASSUME ManagerInv, RouteInv, NEW o \in ops, LastGrace(o) PROVE RouteInv'
<1>1. PICK p : p = [o EXCEPT !.owner = "residual"]
  OBVIOUS
<1>2. p.id = o.id /\ p.rt = o.rt /\ p.owner = "residual"
  BY <1>1 DEF ManagerInv, OpsOwned, OpFields
<1>3. ops' = (ops \ {o}) \cup {p} /\ o.owner = "final"
  BY <1>1 DEF LastGrace, Put
<1>4. QuietOps
  BY <1>2, <1>3 DEF QuietOps, Special
<1>5. UNCHANGED <<mgr, ses, job, calls, wire, eng, last, net>>
  BY DEF LastGrace
<1> QED
  BY <1>4, <1>5, MgrQuiet, SesQuiet, JobsQuiet, NetSame, QuietKeeps DEF QuietStep, RouteInv

-----------------------------------------------------------------------------
(***************************************************************************)
(* A session is closed.                                                    *)
(***************************************************************************)

\* m is the manager but for its slots and new cleanup markers.
Alike(m) ==
    /\ DOMAIN m = MgrFields /\ m.byRoute = mgr.byRoute /\ mgr.cleanup \subseteq m.cleanup
    /\ m.retiring = mgr.retiring /\ m.refused = mgr.refused /\ m.retired = mgr.retired

\* Call d is a new one.
Fresh(d) ==
    /\ DOMAIN d = CallFields /\ d.id = last + 1 /\ d.res = "none" /\ d.got = <<>>
    /\ d.ep \in Nat /\ d.ep <= net.ep /\ last' = last + 1

\* Nobody but a session that owns a route could serve a chat with it.
LEMMA OwnedBySes ==
    ASSUME OwnersInv, NEW s \in DOMAIN ses, EpochCurrent(ses[s].ep), InUse(ses[s].route)
    PROVE  Serves(s)
BY DEF OwnersInv, InUse, SesNow, OkNow, JobNow, Carries, Serves

LEMMA CloseBegins ==
    ASSUME ManagerInv, RouteInv, NEW j \in Jobs, NEW s \in DOMAIN ses, NEW d,
           job[j].pc \notin Carries \cup Asks, job[j].kind = "shutdown" => job[j].pc = "sweep",
           UNCHANGED <<ops, eng, net>>, ~ses[s].closing, ses' = [ses EXCEPT ![s].closing = TRUE],
           job' = [job EXCEPT ![j].pc = "closing", ![j].s = s],
           Alike(mgr'),
           calls' = calls \cup {d}, Fresh(d), d.k = "close", d.arg = <<ses[s].route>>, d.by = <<"ses", s>>,
           \/ /\ EpochCurrent(ses[s].ep) /\ d.ep = ses[s].ep /\ wire' = wire \cup {Req(d)}
           \/ /\ ~EpochCurrent(ses[s].ep) /\ d.ep = NotSent /\ wire' = wire /\ MayFallback(s)
              /\ [route |-> ses[s].route, by |-> d.by] \in mgr'.cleanup
    PROVE  RouteInv'
<1> USE DEF RouteInv
<1>1. /\ DOMAIN ses' = DOMAIN ses
      /\ \A t \in DOMAIN ses : /\ ses'[t].route = ses[t].route /\ ses'[t].ep = ses[t].ep /\ ses'[t].st = ses[t].st
                               /\ ses'[t].closing = (IF t = s THEN TRUE ELSE ses[t].closing)
  BY SesIs DEF SesFields
<1>2. SesStand /\ Steady
  BY <1>1, NetSame DEF SesStand
<1>3. RoutesLess
  BY DEF Alike, RoutesLess, Holder
<1>4. /\ job'[j].pc = "closing" /\ job'[j].rs = job[j].rs /\ job'[j].kind = job[j].kind
      /\ \A i \in Jobs \ {j} : job'[i] = job[i]
  BY JobIs DEF JobFields
<1>5. OwnersLess
  <2>1. \A t \in DOMAIN ses : Serves(t)' => Serves(t)
    BY <1>1 DEF Serves, Routable, EpochCurrent
  <2>2. \A i \in Jobs : job'[i].pc \in Carries => job[i].pc \in Carries /\ job'[i].got = job[i].got
    BY <1>4 DEF Carries
  <2>3. \A i \in Jobs : job'[i].pc = "publish" => job[i].pc = "publish"
    BY <1>4
  <2> QED
    BY <1>1, <2>1, <2>2, <2>3 DEF OwnersLess, OwnersInv
<1>6. last \in Nat
  BY DEF ManagerInv, Shaped
<1>7. SesKnown(s)
  BY DEF OwnersInv
<1>8. SesWaits(s, d)'
  BY <1>1, <1>2, <1>7 DEF SesWaits, SesKnown, EpochCurrent, Steady
<1>9. CallOk(d)'
  <2>1. Waits(d)'
    BY <1>1, <1>8 DEF Waits
  <2>2. d.ep = NotSent => Fallback(d)'
    BY <1>1, <1>7 DEF Fallback, SesKnown
  <2> QED
    BY <1>2, <1>6, <2>1, <2>2 DEF CallOk, Fresh, Steady
<1>10. ASSUME NEW c \in calls PROVE c.by # d.by
  BY BySes DEF SesWaits
<1>11. CallsInv'
  <2>1. PICK A, D : A = {} /\ D = {d}
    OBVIOUS
  <2>2. CallsEdit(A, D)
    BY <1>6, <1>9, <1>10, <1>7, <2>1 DEF CallsEdit, Fresh, SesKnown
  <2>3. ASSUME NEW c \in calls PROVE Waits(c)'
    <3>1. Waits(c)
      BY DEF CallsInv, CallOk
    <3>2. JobsKeep(c)
      <4>1. ASSUME c.by = <<"job", j>> PROVE FALSE
        BY <4>1, ByJob DEF JobWaits
      <4> QED
        BY <1>4, <4>1 DEF JobsKeep
    <3>3. SesKeep(c)
      <4>1. ASSUME NEW t \in DOMAIN ses, c.by = <<"ses", t>> PROVE ses'[t].closing = ses[t].closing
        BY <1>1, <1>10, <4>1
      <4> QED
        BY <4>1 DEF SesKeep, Alike
    <3>4. OpsKeep(c)
      BY ByRec DEF OpsKeep
    <3> QED
      BY <1>2, <3>1, <3>2, <3>3, <3>4, WaitsKept
  <2>4. \A c \in calls \ A : Waits(c)'
    BY <2>3
  <2> QED
    BY <1>2, <1>6, <2>2, <2>4, CallsStand
<1>12. d.ep = ses[s].ep => ~Fallback(d)'
  BY <1>1 DEF Fallback
<1>13. OwnersInv'
  <2>1. CallKnown(d)'
    <3>1. CASE EpochCurrent(ses[s].ep) /\ d.ep = ses[s].ep
      BY <1>7, <3>1 DEF CallKnown, OkNow, SesKnown, SesNow, Known
    <3>2. CASE d.ep = NotSent
      BY <3>2 DEF CallKnown, OkNow, EpochCurrent, CallsInv
    <3> QED
      BY <3>1, <3>2
  <2> QED
    BY <1>2, <1>5, <2>1, OwnersStand
<1>14. CallSpares(d)'
  <2>1. CASE MayFallback(s) /\ ~EpochCurrent(ses[s].ep)
    <3>1. ~Serves(s)'
      BY <1>1, <2>1 DEF Serves, EpochCurrent
    <3>2. Holder(mgr', ses[s].route) \in {None, s}
      BY <2>1 DEF MayFallback, Route, Alike, Holder
    <3> QED
      BY <3>1, <3>2 DEF CallSpares, Unserved, Holder, Serves, Routable, EpochCurrent
  <2>2. CASE d.ep = ses[s].ep
    BY <1>12, <2>2 DEF CallSpares
  <2> QED
    BY <2>1, <2>2
<1>15. DoomsInv'
  <2>1. ASSUME NEW w \in wire', w \notin wire PROVE WireDoomed(w)'
    <3>1. EpochCurrent(ses[s].ep) /\ d.ep = ses[s].ep /\ w = Req(d)
      BY <2>1
    <3>2. PICK r : r = ses[s].route /\ r = w.arg[1]
      BY <3>1 DEF Req
    <3>3. Known(r)'
      BY <1>7, <3>1, <3>2 DEF SesKnown, SesNow, Known
    <3>4. ASSUME InUse(r)' PROVE FALSE
      <4>1. ASSUME NEW c \in calls', OkNow(c)', c.got[1] = r PROVE FALSE
        BY <4>1, <3>1, <3>2 DEF OkNow, OwnersInv, SesNow, EpochCurrent
      <4>2. ASSUME NEW i \in Jobs, job'[i].pc = "publish", JobNow(i)', job'[i].got[1] = r PROVE FALSE
        <5>1. job'[i] = job[i]
          BY <4>2, <1>4
        <5>2. JobNow(i) /\ job[i].got[1] = r
          BY <4>2, <5>1 DEF JobNow, EpochCurrent
        <5> QED
          BY <5>2, <3>1, <3>2 DEF OwnersInv, SesNow
      <4>3. ASSUME NEW t \in DOMAIN ses', Serves(t)', ses'[t].route = r PROVE FALSE
        <5>1. t \in DOMAIN ses /\ SesNow(t) /\ ses[t].route = r
          BY <4>3, <1>1 DEF Serves, SesNow, EpochCurrent
        <5>2. t = s
          BY <5>1, <3>1, <3>2 DEF OwnersInv, SesNow
        <5> QED
          BY <4>3, <5>2, <1>1 DEF Serves, Routable
      <4> QED
        BY <3>4, <4>1, <4>2, <4>3 DEF InUse
    <3>5. Doomed(r)'
      BY <3>3, <3>4 DEF Doomed
    <3> QED
      BY <3>2, <3>5 DEF WireDoomed
  <2>2. DoomsEdit
    <3>1. \A i \in Jobs : job'[i].pc \in Drains => job[i].pc \in Drains /\ job'[i].rs = job[i].rs
      BY <1>4 DEF Drains
    <3>2. \A i \in Jobs : job'[i].pc = "draining" => job[i].pc = "draining" /\ job'[i].got = job[i].got
      BY <1>4
    <3> QED
      BY <1>14, <2>1, <3>1, <3>2 DEF DoomsEdit, Alike
  <2> QED
    BY <1>2, <1>3, <1>5, <2>2, DoomsStand
<1>16. SeenInv'
  <2>1. CallTrue(d)'
    BY DEF CallTrue, Fresh
  <2>2. SeenMore
    <3>1. \A t \in DOMAIN ses : ses[t].closing \/ Routable(t) => ses'[t].closing \/ Routable(t)'
      BY <1>1 DEF Routable
    <3>2. \A i \in Jobs : job[i].pc \in Carries => job'[i].pc \in Carries /\ job'[i].got = job[i].got
      BY <1>4
    <3> QED
      BY <3>1, <3>2 DEF SeenMore, Alike
  <2>3. ReplacesEdit
    BY <1>4 DEF ReplacesEdit, Sweeps, Acquiring
  <2> QED
    BY <1>2, <1>5, <2>1, <2>2, <2>3, SeenStand
<1> QED
  BY <1>11, <1>13, <1>15, <1>16

\* completeClose of a session with no route on the connection is quiet.
LEMMA RetireQuiet ==
    ASSUME ManagerInv, NEW m, Alike(m), m.cleanup = mgr.cleanup, NEW s, mgr' = Retire(m, s)
    PROVE  QuietMgr
<1>1. PICK n : n = WithoutRoute(m, s)
  OBVIOUS
<1>2. /\ DOMAIN n = MgrFields /\ n.cleanup = mgr.cleanup /\ n.retiring = mgr.retiring
      /\ n.refused = mgr.refused /\ n.retired = mgr.retired
      /\ n.byRoute = mgr.byRoute \/ n.byRoute = [mgr.byRoute EXCEPT ![Route(s)] = None]
  <2>1. CASE n = m
    BY <2>1 DEF Alike
  <2>2. CASE n = [m EXCEPT !.byRoute[Route(s)] = None]
    BY <2>2 DEF Alike, MgrFields
  <2> QED
    BY <1>1, <2>1, <2>2 DEF WithoutRoute
<1>3. /\ mgr'.cleanup = n.cleanup /\ mgr'.retiring = n.retiring
      /\ mgr'.refused = n.refused /\ mgr'.retired = n.retired /\ mgr'.byRoute = n.byRoute
  <2>1. CASE mgr' = n
    BY <2>1
  <2>2. CASE mgr' = [n EXCEPT !.byChat[ses[s].chat] = None, !.slotGen[ses[s].chat] = @ + 1]
    BY <1>2, <2>2 DEF MgrFields
  <2> QED
    BY <1>1, <2>1, <2>2 DEF Retire
<1>4. RoutesLess
  BY <1>2, <1>3 DEF RoutesLess, Holder
<1> QED
  BY <1>2, <1>3, <1>4 DEF QuietMgr

LEMMA AlikeQuiet == ASSUME NEW m, Alike(m), m.cleanup = mgr.cleanup, mgr' = m PROVE QuietMgr
BY MgrQuiet DEF Alike

\* An operation waits for the session to be closed.
LEMMA ClosingQuiet ==
    ASSUME ManagerInv, NEW j \in Jobs, NEW s, job[j].pc \notin Carries \cup Asks,
           job[j].kind = "shutdown" => job[j].pc = "sweep",
           job' = [job EXCEPT ![j].pc = "closing", ![j].s = s]
    PROVE  \A i \in Jobs : QuietJob(i)
<1>1. PICK r : r = [job[j] EXCEPT !.pc = "closing", !.s = s]
  OBVIOUS
<1>2. job' = [job EXCEPT ![j] = r] /\ r.pc = "closing" /\ r.rs = job[j].rs /\ r.kind = job[j].kind
  BY <1>1, JobIs DEF JobFields
<1> QED
  BY <1>2, JobQuiet DEF Carries, Asks, Acquiring, Drains, Sweeps

\* closeContext, with the manager as m
LEMMA CloseKeeps ==
    ASSUME ManagerInv, RouteInv, NEW j \in Jobs, NEW s \in DOMAIN ses, NEW m, Alike(m), m.cleanup = mgr.cleanup,
           job[j].pc \notin Carries \cup Asks, job[j].kind = "shutdown" => job[j].pc = "sweep",
           CloseSession(j, s, m), UNCHANGED <<ops, eng, net>>
    PROVE  RouteInv'
<1>1. CASE ses[s].closing
  <2>1. job' = [job EXCEPT ![j].pc = "closing", ![j].s = s] /\ mgr' = m /\ UNCHANGED <<ses, calls, wire, last>>
    BY <1>1 DEF CloseSession
  <2> QED
    BY <2>1, ClosingQuiet, AlikeQuiet, SesQuiet, StillKeeps
<1>2. CASE ~ses[s].closing /\ EpochCurrent(ses[s].ep)
  <2>1. PICK d : d = [Call(last + 1, "close", ses[s].chat, <<Route(s)>>, <<"ses", s>>) EXCEPT !.ep = ses[s].ep]
    OBVIOUS
  <2>2. /\ calls' = calls \cup {d} /\ wire' = wire \cup {Req(d)} /\ last' = d.id
        /\ ses' = [ses EXCEPT ![s].closing = TRUE] /\ mgr' = m
        /\ job' = [job EXCEPT ![j].pc = "closing", ![j].s = s]
    BY <1>2, <2>1 DEF CloseSession, WriteNow
  <2>3. /\ DOMAIN d = CallFields /\ d.id = last + 1 /\ d.k = "close" /\ d.arg = <<Route(s)>>
        /\ d.by = <<"ses", s>> /\ d.ep = ses[s].ep /\ d.res = "none" /\ d.got = <<>>
    BY <2>1 DEF Call, CallFields
  <2>4. Fresh(d)
    BY <2>2, <2>3 DEF Fresh, RouteInv, OwnersInv, SesKnown
  <2> QED
    BY <1>2, <2>2, <2>3, <2>4, CloseBegins DEF Alike, Route
<1>3. CASE /\ ~ses[s].closing /\ ~EpochCurrent(ses[s].ep)
           /\ MayFallback(s) /\ ses[s].st = "resumable"
  <2>1. PICK d : d = Call(last + 1, "close", ses[s].chat, <<Route(s)>>, <<"ses", s>>)
    OBVIOUS
  <2>2. /\ calls' = calls \cup {d} /\ wire' = wire /\ last' = last + 1
        /\ ses' = [ses EXCEPT ![s].closing = TRUE]
        /\ mgr' = [m EXCEPT !.cleanup = @ \cup {[route |-> Route(s), by |-> <<"ses", s>>]}]
        /\ job' = [job EXCEPT ![j].pc = "closing", ![j].s = s]
    BY <1>3, <2>1 DEF CloseSession
  <2>3. /\ DOMAIN d = CallFields /\ d.id = last + 1 /\ d.k = "close" /\ d.arg = <<Route(s)>>
        /\ d.by = <<"ses", s>> /\ d.ep = NotSent /\ d.res = "none" /\ d.got = <<>>
    BY <2>1 DEF Call, CallFields
  <2>4. Fresh(d)
    BY <2>2, <2>3 DEF Fresh, RouteInv, CallsInv, NotSent
  <2>5. Alike(mgr') /\ [route |-> ses[s].route, by |-> d.by] \in mgr'.cleanup
    BY <2>2, <2>3 DEF Alike, MgrFields, Route
  <2> QED
    BY <1>3, <2>2, <2>3, <2>4, <2>5, CloseBegins DEF Route
<1>4. CASE /\ ~ses[s].closing /\ ~EpochCurrent(ses[s].ep)
           /\ ~(MayFallback(s) /\ ses[s].st = "resumable")
  <2>1. /\ mgr' = (IF m.closed THEN Retire(m, s) ELSE m)
        /\ ses' = (IF m.closed THEN [ses EXCEPT ![s].st = "closed", ![s].closing = FALSE] ELSE ses)
        /\ UNCHANGED <<calls, wire, last>>
        /\ IF job[j].kind = "shutdown"
           THEN job' = [job EXCEPT ![j].ok = FALSE, ![j].rs = @ \ {s}]
           ELSE job' = [job EXCEPT ![j] = Over(@, FALSE)]
    BY <1>4 DEF CloseSession, ClosedSes, Finish
  <2>2. QuietMgr
    BY <2>1, RetireQuiet, AlikeQuiet
  <2>3. Fades(ses')
    <3>1. CASE ses' = ses
      BY <3>1, SameFades
    <3>2. CASE ses' = [ses EXCEPT ![s].st = "closed", ![s].closing = FALSE]
      BY <1>4, <3>2, SesIs DEF Fades, SesFields
    <3> QED
      BY <2>1, <3>1, <3>2
  <2>4. \A i \in Jobs : QuietJob(i)
    <3>1. CASE job[j].kind = "shutdown"
      <4>1. PICK ok, rs : ok = FALSE /\ rs = job[j].rs \ {s}
        OBVIOUS
      <4>2. PICK r : r = [job[j] EXCEPT !.ok = ok, !.rs = rs]
        OBVIOUS
      <4>3. job' = [job EXCEPT ![j] = r] /\ r.pc = job[j].pc /\ r.rs \subseteq job[j].rs /\ job[j].pc = "sweep"
        BY <2>1, <3>1, <4>1, <4>2, JobIs DEF JobFields
      <4> QED
        BY <4>3, JobQuiet DEF Carries, Asks, Acquiring, Drains, Sweeps
    <3>2. CASE job[j].kind # "shutdown"
      <4>1. PICK ok : ok = FALSE /\ job' = [job EXCEPT ![j] = Over(@, ok)]
        BY <2>1, <3>2
      <4> QED
        BY <4>1, EndsQuiet
    <3> QED
      BY <3>1, <3>2
  <2> QED
    BY <2>1, <2>2, <2>3, <2>4, FadesQuiet, StillKeeps
<1> QED
  BY <1>1, <1>2, <1>3, <1>4

LEMMA StopKeeps == ASSUME ManagerInv, RouteInv, NEW j \in Jobs, Stop(j) PROVE RouteInv'
<1>1. job[j].pc \notin Carries \cup Asks /\ job[j].kind # "shutdown"
  BY DEF Stop, Turn, Carries, Asks
<1>2. PICK s, m : s = mgr.byChat[job[j].chat] /\ m = [mgr EXCEPT !.slotGen[job[j].chat] = @ + 1]
  OBVIOUS
<1>3. Alike(m) /\ m.cleanup = mgr.cleanup
  BY <1>2, MgrIs DEF Alike, MgrFields
<1>4. s # None => s \in DOMAIN ses
  BY <1>2, MgrIs, JobIs
<1>5. UNCHANGED <<ops, eng, net>>
  BY DEF Stop
<1>6. CASE s # None /\ CloseSession(j, s, m)
  BY <1>1, <1>3, <1>4, <1>5, <1>6, CloseKeeps
<1>7. CASE /\ mgr' = m /\ job' = [job EXCEPT ![j].pc = "drain", ![j].rs = Retirings(job[j].chat)]
           /\ UNCHANGED <<ses, calls, wire, last>>
  <2>1. PICK r : r = [job[j] EXCEPT !.pc = "drain", !.rs = Retirings(job[j].chat)]
    OBVIOUS
  <2>2. job' = [job EXCEPT ![j] = r] /\ r.pc = "drain" /\ r.rs \subseteq mgr.retiring
    BY <1>7, <2>1, JobIs DEF JobFields, Retirings
  <2>3. \A i \in Jobs : QuietJob(i)
    BY <1>1, <2>2, JobQuiet DEF Carries, Asks, Acquiring, Sweeps
  <2> QED
    BY <1>3, <1>5, <1>7, <2>3, AlikeQuiet, SesQuiet, StillKeeps
<1> QED
  BY <1>2, <1>6, <1>7 DEF Stop

LEMMA SweepKeeps == ASSUME ManagerInv, RouteInv, NEW j \in Jobs, Sweep(j) PROVE RouteInv'
<1>1. job[j].pc = "sweep" /\ job[j].pc \notin Carries \cup Asks
  BY DEF Sweep, Turn, Carries, Asks
<1>2. job[j].rs \subseteq DOMAIN ses
  BY <1>1 DEF RouteInv, SeenInv, JobSweeps, Sweeps
<1>3. UNCHANGED <<ops, eng, net>>
  BY DEF Sweep
<1>4. Alike(mgr)
  BY MgrIs DEF Alike
<1>5. CASE \E s \in job[j].rs : CloseSession(j, s, mgr)
  <2>1. PICK s \in job[j].rs : CloseSession(j, s, mgr)
    BY <1>5
  <2> QED
    BY <1>1, <1>2, <1>3, <1>4, <2>1, CloseKeeps
<1>6. CASE \E r : /\ job' = [job EXCEPT ![j] = r]
                  /\ \/ r.pc = "drain" /\ r.rs = mgr.retiring
                     \/ r.pc = "sweep" /\ r.rs \subseteq job[j].rs
                  /\ UNCHANGED <<mgr, ses, calls, wire, last>>
  <2>1. PICK r : /\ job' = [job EXCEPT ![j] = r]
                 /\ \/ r.pc = "drain" /\ r.rs = mgr.retiring
                    \/ r.pc = "sweep" /\ r.rs \subseteq job[j].rs
                 /\ UNCHANGED <<mgr, ses, calls, wire, last>>
    BY <1>6
  <2>2. \A i \in Jobs : QuietJob(i)
    BY <1>1, <2>1, JobQuiet DEF Carries, Asks, Acquiring, Drains, Sweeps
  <2> QED
    BY <1>3, <2>1, <2>2, JobKeeps
<1>7. CASE job' = [job EXCEPT ![j].pc = "drain", ![j].rs = mgr.retiring] /\ UNCHANGED <<mgr, ses, calls, wire, last>>
  <2>1. PICK r : r = [job[j] EXCEPT !.pc = "drain", !.rs = mgr.retiring]
    OBVIOUS
  <2>2. job' = [job EXCEPT ![j] = r] /\ r.pc = "drain" /\ r.rs = mgr.retiring
    BY <1>7, <2>1, JobIs DEF JobFields
  <2> QED
    BY <1>6, <1>7, <2>2
<1>8. CASE (\E s : job' = [job EXCEPT ![j].rs = @ \ {s}]) /\ UNCHANGED <<mgr, ses, calls, wire, last>>
  <2>1. PICK s : job' = [job EXCEPT ![j].rs = @ \ {s}]
    BY <1>8
  <2>2. PICK rs, r : rs = job[j].rs \ {s} /\ r = [job[j] EXCEPT !.rs = rs]
    OBVIOUS
  <2>3. job' = [job EXCEPT ![j] = r] /\ r.pc = "sweep" /\ r.rs \subseteq job[j].rs
    BY <1>1, <2>1, <2>2, JobIs DEF JobFields
  <2> QED
    BY <1>6, <1>8, <2>3
<1> QED
  BY <1>5, <1>7, <1>8 DEF Sweep

-----------------------------------------------------------------------------
(***************************************************************************)
(* An operation closes routes.                                             *)
(***************************************************************************)

\* Operation j asks the engine to close route x, which nobody will publish.
LEMMA JobAsks ==
    ASSUME ManagerInv, RouteInv, NEW j \in Jobs, NEW x, NEW d,
           UNCHANGED <<ops, eng, net, ses>>, calls' = calls \cup {d}, wire' = wire \cup {Req(d)},
           Fresh(d), d.k = "close", d.arg = <<x.route>>, d.ep = x.ep, d.by = <<"job", j>>,
           EpochCurrent(x.ep), DoomedAt(x), job[j].pc \notin Asks, JobWaits(j, d)',
           \A i \in Jobs \ {j} : job'[i] = job[i],
           \/ /\ job[j].pc = "drain" /\ x \in job[j].rs /\ mgr' = mgr
              /\ job'[j].pc = "draining" /\ job'[j].rs = job[j].rs /\ job'[j].got = <<x>>
           \/ /\ job[j].pc = "discard" /\ x.route = job[j].got[1] /\ x.ep = job[j].got[2]
              /\ mgr' = Remember(mgr, x) /\ job'[j].pc = "discarding" /\ job'[j].rs = {x}
    PROVE  RouteInv'
<1> USE DEF RouteInv
<1>1. SesStand /\ Steady
  BY NetSame DEF SesStand
<1>2. /\ mgr'.byRoute = mgr.byRoute /\ mgr'.cleanup = mgr.cleanup /\ mgr'.refused = mgr.refused
      /\ mgr'.retired = mgr.retired
      /\ mgr'.retiring = mgr.retiring \/ mgr'.retiring = mgr.retiring \cup {x}
      /\ job[j].pc = "discard" => x \in mgr'.retiring
  <2>1. CASE mgr' = mgr /\ job[j].pc = "drain"
    BY <2>1
  <2>2. CASE mgr' = Remember(mgr, x)
    BY <2>2, MgrIs DEF Remember, MgrFields
  <2> QED
    BY <2>1, <2>2
<1>3. RoutesLess
  BY <1>2 DEF RoutesLess, Holder
<1>4. OwnersLess
  <2>1. \A t \in DOMAIN ses : Serves(t)' => Serves(t)
    BY DEF Serves, Routable, EpochCurrent
  <2>2. \A i \in Jobs : job'[i].pc \notin Carries \/ job'[i] = job[i]
    BY DEF Carries
  <2> QED
    BY <2>1, <2>2 DEF OwnersLess, OwnersInv, Carries
<1>5. last \in Nat
  BY DEF ManagerInv, Shaped
<1>6. ~Fallback(d)'
  BY DEF Fallback
<1>7. CallOk(d)'
  <2>1. Waits(d)'
    BY DEF Waits
  <2>2. d.ep # NotSent
    BY DEF EpochCurrent, CallsInv
  <2> QED
    BY <1>1, <1>5, <2>1, <2>2 DEF CallOk, Fresh, Steady
<1>8. ASSUME NEW c \in calls PROVE c.by # d.by
  BY ByJob DEF JobWaits
<1>9. CallsInv'
  <2>1. PICK A, D : A = {} /\ D = {d}
    OBVIOUS
  <2>2. CallsEdit(A, D)
    BY <1>5, <1>7, <1>8, <2>1 DEF CallsEdit, Fresh, EpochCurrent, CallsInv
  <2>3. ASSUME NEW c \in calls PROVE Waits(c)'
    <3>1. Waits(c)
      BY DEF CallsInv, CallOk
    <3>2. JobsKeep(c)
      <4>1. ASSUME NEW i \in Jobs, c.by = <<"job", i>> PROVE job'[i] = job[i]
        BY <1>8, <4>1
      <4> QED
        BY <4>1 DEF JobsKeep
    <3>3. SesKeep(c)
      BY <1>2 DEF SesKeep
    <3>4. OpsKeep(c)
      BY ByRec DEF OpsKeep
    <3> QED
      BY <1>1, <3>1, <3>2, <3>3, <3>4, WaitsKept
  <2>4. \A c \in calls \ A : Waits(c)'
    BY <2>3
  <2> QED
    BY <1>1, <1>5, <2>2, <2>4, CallsStand
<1>10. OwnersInv'
  <2>1. CallKnown(d)'
    BY DEF CallKnown, OkNow, DoomedAt, Doomed, Known
  <2> QED
    BY <1>1, <1>4, <2>1, OwnersStand
<1>11. DoomsInv'
  <2>1. HoldersKnown
    BY DEF DoomsInv
  <2>2. DoomedAt(x)'
    BY <1>1, <1>3, <1>4, <2>1, DoomedAtStays
  <2>3. WireDoomed(Req(d))'
    <3>1. PICK w, r : w = Req(d) /\ r = x.route
      OBVIOUS
    <3>2. w.arg[1] = r
      BY <3>1 DEF Req
    <3>3. Doomed(r)
      BY <3>1 DEF DoomedAt
    <3>4. Doomed(r)'
      BY <1>1, <1>3, <1>4, <2>1, <3>3, DoomedStays DEF EpochCurrent
    <3>5. WireDoomed(w)'
      BY <3>2, <3>4 DEF WireDoomed
    <3> QED
      BY <3>1, <3>5
  <2>4. CallSpares(d)'
    BY <1>6 DEF CallSpares
  <2>5. DoomsEdit
    <3>1. ASSUME NEW i \in Jobs, job'[i].pc \in Drains, NEW y \in job'[i].rs
          PROVE  (job[i].pc \in Drains /\ y \in job[i].rs) \/ DoomedAt(y)'
      BY <2>2, <3>1 DEF Drains
    <3>2. ASSUME NEW i \in Jobs, job'[i].pc = "draining"
          PROVE  \/ job[i].pc = "draining" /\ job'[i].got = job[i].got
                 \/ job[i].pc \in Drains /\ job'[i].got[1] \in job[i].rs
      BY <3>2 DEF Drains
    <3>3. \A y \in mgr'.retiring : y \in mgr.retiring \/ DoomedAt(y)'
      BY <1>2, <2>2
    <3>4. \A w \in wire' : w \in wire \/ WireDoomed(w)'
      BY <2>3
    <3> QED
      BY <2>4, <3>1, <3>2, <3>3, <3>4 DEF DoomsEdit
  <2> QED
    BY <1>1, <1>3, <1>4, <2>5, DoomsStand
<1>12. SeenInv'
  <2>1. CallTrue(d)'
    BY DEF CallTrue, Fresh
  <2>2. SeenMore
    <3>1. \A t \in DOMAIN ses : ses[t].closing \/ Routable(t) => ses'[t].closing \/ Routable(t)'
      BY DEF Routable
    <3>2. ASSUME NEW i \in Jobs, job[i].pc \in Carries
          PROVE  \/ job'[i].pc \in Carries /\ job'[i].got = job[i].got
                 \/ SeenElse(job[i].got[1], job[i].got[2])
      <4>1. CASE i = j
        <5>1. x \in mgr'.retiring /\ x.route = job[i].got[1] /\ x.ep = job[i].got[2]
          BY <1>2, <3>2, <4>1 DEF Carries
        <5>2. SeenElse(x.route, x.ep)
          BY <5>1 DEF SeenElse, SeenBy
        <5> QED
          BY <5>1, <5>2
      <4>2. CASE i # j
        BY <3>2, <4>2
      <4> QED
        BY <4>1, <4>2
    <3> QED
      BY <1>2, <3>1, <3>2 DEF SeenMore
  <2>3. ReplacesEdit
    <3>1. ASSUME NEW i \in Jobs PROVE job'[i] = job[i] \/ job'[i].pc \notin Acquiring \cup {"sweep", "closing"}
      BY DEF Acquiring
    <3> QED
      BY <3>1 DEF ReplacesEdit, Sweeps
  <2> QED
    BY <1>1, <1>4, <2>1, <2>2, <2>3, SeenStand
<1> QED
  BY <1>9, <1>10, <1>11, <1>12

\* The owner of a route is no other than the one it was published to.
LEMMA OwnedByJob ==
    ASSUME OwnersInv, NEW j \in Jobs, JobNow(j), InUse(job[j].got[1])
    PROVE  job[j].pc = "publish"
BY DEF OwnersInv, InUse, SesNow, OkNow, JobNow, Carries, Serves

LEMMA DiscardKeeps == ASSUME ManagerInv, RouteInv, NEW j \in Jobs, Discard(j) PROVE RouteInv'
<1>1. job[j].pc = "discard" /\ UNCHANGED <<ses, ops, eng, net>>
  BY DEF Discard, Turn
<1>2. PICK x : x = Retiring(job[j].chat, job[j].got[1], job[j].got[2])
  OBVIOUS
<1>3. x.route = job[j].got[1] /\ x.ep = job[j].got[2]
  BY <1>2 DEF Retiring
<1>4. CASE ~EpochCurrent(x.ep)
  <2>1. PICK ok : ok = FALSE
    OBVIOUS
  <2>2. job' = [job EXCEPT ![j] = Over(@, ok)] /\ UNCHANGED <<mgr, calls, wire, last>>
    BY <1>2, <1>4, <2>1 DEF Discard, Finish
  <2>3. \A i \in Jobs : QuietJob(i)
    BY <1>1, <1>3, <1>4, <2>2, OverQuiet DEF Asks
  <2> QED
    BY <1>1, <2>2, <2>3, JobKeeps
<1>5. CASE EpochCurrent(x.ep)
  <2>1. PICK d : d = [Call(last + 1, "close", x.chat, <<x.route>>, <<"job", j>>) EXCEPT !.ep = x.ep]
    OBVIOUS
  <2>2. /\ calls' = calls \cup {d} /\ wire' = wire \cup {Req(d)} /\ last' = d.id
        /\ mgr' = Remember(mgr, x) /\ job' = [job EXCEPT ![j].pc = "discarding", ![j].rs = {x}]
    BY <1>2, <1>5, <2>1 DEF Discard, WriteNow
  <2>3. /\ DOMAIN d = CallFields /\ d.id = last + 1 /\ d.k = "close" /\ d.arg = <<x.route>>
        /\ d.by = <<"job", j>> /\ d.ep = x.ep /\ d.res = "none" /\ d.got = <<>>
    BY <2>1 DEF Call, CallFields
  <2>4. job'[j].pc = "discarding" /\ job'[j].rs = {x} /\ \A i \in Jobs \ {j} : job'[i] = job[i]
    BY <2>2, JobIs DEF JobFields
  <2>5. Fresh(d)
    BY <1>1, <1>3, <2>2, <2>3 DEF Fresh, RouteInv, OwnersInv, JobKnown, Carries
  <2>6. DoomedAt(x)
    <3>1. JobNow(j) /\ JobKnown(j)
      BY <1>1, <1>3, <1>5 DEF JobNow, Carries, RouteInv, OwnersInv
    <3>2. ~InUse(x.route)
      BY <1>1, <1>3, <3>1, OwnedByJob DEF RouteInv
    <3> QED
      BY <1>1, <1>3, <3>1, <3>2 DEF DoomedAt, Doomed, JobKnown, Carries
  <2>7. JobWaits(j, d)'
    BY <2>3, <2>4 DEF JobWaits, Asks
  <2> QED
    BY <1>1, <1>3, <1>5, <2>2, <2>3, <2>4, <2>5, <2>6, <2>7, JobAsks DEF Asks
<1> QED
  BY <1>4, <1>5

LEMMA DrainKeeps == ASSUME ManagerInv, RouteInv, NEW j \in Jobs, Drain(j) PROVE RouteInv'
<1>1. job[j].pc = "drain" /\ UNCHANGED <<ses, ops, eng, net>>
  BY DEF Drain, Turn
<1>2. CASE Finish(j, job[j].ok) /\ UNCHANGED <<mgr, calls, wire, last>>
  <2>1. PICK ok : ok = job[j].ok
    OBVIOUS
  <2>2. job' = [job EXCEPT ![j] = Over(@, ok)]
    BY <1>2, <2>1 DEF Finish
  <2>3. \A i \in Jobs : QuietJob(i)
    BY <1>1, <2>2, EndsQuiet DEF Asks, Carries
  <2> QED
    BY <1>1, <1>2, <2>3, JobKeeps
<1>3. ASSUME NEW x \in job[j].rs, ~EpochCurrent(x.ep), mgr' = Forget(mgr, x), job' = [job EXCEPT ![j].rs = @ \ {x}],
             UNCHANGED <<calls, wire, last>>
      PROVE  RouteInv'
  <2>1. PICK rs, r : rs = job[j].rs \ {x} /\ r = [job[j] EXCEPT !.rs = rs]
    OBVIOUS
  <2>2. job' = [job EXCEPT ![j] = r] /\ r.pc = "drain" /\ r.rs \subseteq job[j].rs
    BY <1>1, <1>3, <2>1, JobIs DEF JobFields
  <2>3. \A i \in Jobs : QuietJob(i)
    BY <1>1, <2>2, JobQuiet DEF Carries, Asks, Acquiring, Drains, Sweeps
  <2>4. /\ mgr'.byRoute = mgr.byRoute /\ mgr'.cleanup = mgr.cleanup /\ mgr'.refused = mgr.refused
        /\ mgr'.retired = mgr.retired /\ mgr'.retiring = mgr.retiring \ {x}
    BY <1>3, MgrIs DEF Forget, MgrFields
  <2>5. QuietMgr
    BY <1>3, <2>4 DEF QuietMgr, RoutesLess, Holder
  <2> QED
    BY <1>1, <1>3, <2>3, <2>5, SesQuiet, StillKeeps
<1>4. ASSUME NEW x \in job[j].rs, EpochCurrent(x.ep),
             WriteNow([Call(last + 1, "close", x.chat, <<x.route>>, <<"job", j>>) EXCEPT !.ep = x.ep]),
             job' = [job EXCEPT ![j].pc = "draining", ![j].got = <<x>>], mgr' = mgr
      PROVE  RouteInv'
  <2>1. PICK d : d = [Call(last + 1, "close", x.chat, <<x.route>>, <<"job", j>>) EXCEPT !.ep = x.ep]
    OBVIOUS
  <2>2. calls' = calls \cup {d} /\ wire' = wire \cup {Req(d)} /\ last' = d.id
    BY <1>4, <2>1 DEF WriteNow
  <2>3. /\ DOMAIN d = CallFields /\ d.id = last + 1 /\ d.k = "close" /\ d.arg = <<x.route>>
        /\ d.by = <<"job", j>> /\ d.ep = x.ep /\ d.res = "none" /\ d.got = <<>>
    BY <2>1 DEF Call, CallFields
  <2>4. /\ job'[j].pc = "draining" /\ job'[j].rs = job[j].rs /\ job'[j].got = <<x>>
        /\ \A i \in Jobs \ {j} : job'[i] = job[i]
    BY <1>4, JobIs DEF JobFields
  <2>5. DoomedAt(x)
    BY <1>1 DEF RouteInv, DoomsInv, JobDoomed, Drains
  <2>6. Fresh(d)
    BY <2>2, <2>3, <2>5 DEF Fresh, DoomedAt
  <2>7. JobWaits(j, d)'
    BY <2>3, <2>4 DEF JobWaits, Asks
  <2> QED
    BY <1>1, <1>4, <2>2, <2>3, <2>4, <2>5, <2>6, <2>7, JobAsks DEF Asks
<1> QED
  BY <1>2, <1>3, <1>4 DEF Drain

-----------------------------------------------------------------------------
(***************************************************************************)
(* A call ends.                                                            *)
(***************************************************************************)

DrainsLess == \A j \in Jobs :
    /\ job'[j].pc \in Drains => job[j].pc \in Drains /\ job'[j].rs \subseteq job[j].rs
    /\ job'[j].pc = "draining" => job[j].pc = "draining" /\ job'[j].got = job[j].got

LEMMA EndKeeps ==
    ASSUME ManagerInv, RouteInv, NEW a \in calls, calls' = calls \ {a}, UNCHANGED <<wire, eng, last, net>>,
           SesStand, OwnersLess, RoutesLess, SeenMore, ReplacesEdit, DrainsLess,
           mgr'.retiring \subseteq mgr.retiring,
           a.k = "open" /\ a.res = "none" => a.ep = NotSent, a.res = "none" => ~Fallback(a),
           \A c \in calls \ {a} : OpsKeep(c) /\ JobsKeep(c) /\ SesKeep(c)
    PROVE  RouteInv'
<1> USE DEF RouteInv
<1>1. Steady
  BY NetSame
<1>2. last \in Nat
  BY DEF ManagerInv, Shaped
<1>3. CallsInv'
  <2>1. PICK A, D : A = {a} /\ D = {}
    OBVIOUS
  <2>2. CallsEdit(A, D)
    BY <1>2, <2>1 DEF CallsEdit
  <2>3. \A c \in calls \ A : Waits(c)'
    BY <1>1, <2>1, WaitsKept DEF CallsInv, CallOk
  <2> QED
    BY <1>1, <1>2, <2>2, <2>3, CallsStand
<1>4. OwnersInv'
  BY <1>1, OwnersStand
<1>5. DoomsInv'
  <2>1. DoomsEdit
    BY DEF DoomsEdit, DrainsLess
  <2> QED
    BY <1>1, <2>1, DoomsStand
<1>6. SeenInv'
  BY <1>1, SeenStand
<1> QED
  BY <1>3, <1>4, <1>5, <1>6

\* A route whose close was answered is gone.
LEMMA Gone ==
    ASSUME RouteInv, NEW a \in calls, NEW x, a.k = "close", a.res \in {"ok", "unknown"}, ~Fallback(a),
           a.arg = <<x.route>>, a.ep = x.ep, eng' = eng
    PROVE  ~EpochCurrent(x.ep) \/ SeenElse(x.route, x.ep)
BY DEF RouteInv, SeenInv, CallTrue, GoneRoute, SeenElse

\* What closeRetiringRoute makes of the outcome a of the close of route x
LEMMA Outcome ==
    ASSUME ManagerInv, RouteInv, NEW a \in calls, NEW x, a.k = "close", ~Fallback(a),
           a.arg = <<x.route>>, a.ep = x.ep, eng' = eng,
           NEW m \in {mgr, Forget(mgr, x)}, CloseOutcome(m, x, a)
    PROVE  /\ DOMAIN m = MgrFields /\ m.byRoute = mgr.byRoute /\ m.cleanup = mgr.cleanup
           /\ m.refused = mgr.refused /\ m.retired = mgr.retired /\ m.retiring \subseteq mgr.retiring
           /\ \A y \in mgr.retiring : y \in m.retiring \/ ~EpochCurrent(y.ep) \/ SeenElse(y.route, y.ep)
<1>1. CASE m = mgr
  BY <1>1, MgrIs
<1>2. CASE m # mgr
  <2>1. m = Forget(mgr, x) /\ Settled(a.res)
    BY <1>2 DEF CloseOutcome
  <2>2. a.res \in {"ok", "unknown"}
    BY <2>1 DEF Settled, RouteInv, CallsInv, CallOk
  <2>3. /\ DOMAIN m = MgrFields /\ m.byRoute = mgr.byRoute /\ m.cleanup = mgr.cleanup
        /\ m.refused = mgr.refused /\ m.retired = mgr.retired /\ m.retiring = mgr.retiring \ {x}
    BY <2>1, MgrIs DEF Forget, MgrFields
  <2>4. ~EpochCurrent(x.ep) \/ SeenElse(x.route, x.ep)
    BY <2>2, Gone
  <2> QED
    BY <2>3, <2>4
<1> QED
  BY <1>1, <1>2

\* Operation j has waited for the close of route x.
LEMMA JobClosed ==
    ASSUME ManagerInv, RouteInv, NEW j \in Jobs, NEW x, NEW a \in calls, NEW m \in {mgr, Forget(mgr, x)},
           a.by = <<"job", j>>, a.arg = <<x.route>>, a.ep = x.ep, CloseOutcome(m, x, a), mgr' = m,
           calls' = calls \ {a}, UNCHANGED <<ses, ops, wire, eng, net, last>>,
           \A i \in Jobs \ {j} : job'[i] = job[i],
           job'[j].pc \notin Carries \cup Asks \cup Acquiring, ~Sweeps(job'[j]),
           job'[j].pc \in Drains => job[j].pc \in Drains /\ job'[j].rs \subseteq job[j].rs
    PROVE  RouteInv'
<1>1. a.k = "close" /\ job[j].pc \in Asks
  BY ByJob DEF JobWaits, RouteInv
<1>2. ~Fallback(a)
  BY DEF Fallback
<1>3. /\ mgr'.byRoute = mgr.byRoute /\ mgr'.cleanup = mgr.cleanup
      /\ mgr'.refused = mgr.refused /\ mgr'.retired = mgr.retired /\ mgr'.retiring \subseteq mgr.retiring
      /\ \A y \in mgr.retiring : y \in mgr'.retiring \/ ~EpochCurrent(y.ep) \/ SeenElse(y.route, y.ep)
  BY <1>1, <1>2, Outcome
<1>4. SesStand
  BY DEF SesStand
<1>5. OwnersLess
  <2>1. \A t \in DOMAIN ses : Serves(t)' => Serves(t)
    BY DEF Serves, Routable, EpochCurrent
  <2>2. \A i \in Jobs : job'[i].pc \notin Carries \/ job'[i] = job[i]
    OBVIOUS
  <2> QED
    BY <2>1, <2>2 DEF OwnersLess, OwnersInv, RouteInv, Carries
<1>6. RoutesLess
  BY <1>3 DEF RoutesLess, Holder
<1>7. SeenMore
  <2>1. \A t \in DOMAIN ses : ses[t].closing \/ Routable(t) => ses'[t].closing \/ Routable(t)'
    BY DEF Routable
  <2>2. \A i \in Jobs : job[i].pc \in Carries => job'[i] = job[i]
    BY <1>1 DEF Carries, Asks
  <2> QED
    BY <1>1, <1>3, <2>1, <2>2 DEF SeenMore
<1>8. ReplacesEdit
  BY DEF ReplacesEdit
<1>9. DrainsLess
  BY DEF DrainsLess, Asks
<1>10. ASSUME NEW c \in calls \ {a} PROVE OpsKeep(c) /\ JobsKeep(c) /\ SesKeep(c)
  <2>1. c.by # a.by
    BY <1>10 DEF RouteInv, CallsInv
  <2>2. JobsKeep(c)
    <3>1. ASSUME NEW i \in Jobs, c.by = <<"job", i>> PROVE job'[i] = job[i]
      BY <2>1, <3>1
    <3> QED
      BY <3>1 DEF JobsKeep
  <2> QED
    BY <1>3, <2>2 DEF OpsKeep, SesKeep
<1> QED
  BY <1>1, <1>2, <1>3, <1>4, <1>5, <1>6, <1>7, <1>8, <1>9, <1>10, EndKeeps

LEMMA DiscardedKeeps == ASSUME ManagerInv, RouteInv, NEW j \in Jobs, Discarded(j) PROVE RouteInv'
<1>1. job[j].pc = "discarding" /\ UNCHANGED <<ses, ops, wire, eng, net, last>>
  BY DEF Discarded, Turn
<1>2. PICK a \in calls, x \in job[j].rs : /\ a.by = <<"job", j>>
        /\ \E m \in {mgr, Forget(mgr, x)} : CloseOutcome(m, x, a) /\ mgr' = m /\ calls' = calls \ {a}
  BY DEF Discarded, CallsBy
<1>3. PICK m \in {mgr, Forget(mgr, x)} : CloseOutcome(m, x, a) /\ mgr' = m /\ calls' = calls \ {a}
  BY <1>2
<1>4. a.arg = <<x.route>> /\ a.ep = x.ep
  BY <1>1, <1>2, ByJob DEF JobWaits, RouteInv
<1>5. job'[j].pc \in {"commit", "done"} /\ \A i \in Jobs \ {j} : job'[i] = job[i]
  <2>1. PICK ok : ok = FALSE /\ job' = [job EXCEPT ![j] = Over(@, ok)]
    BY DEF Discarded, Finish
  <2> QED
    BY <2>1, JobIs DEF Over, JobFields
<1> QED
  BY <1>1, <1>2, <1>3, <1>4, <1>5, JobClosed DEF Carries, Asks, Acquiring, Drains, Sweeps

LEMMA DrainedKeeps == ASSUME ManagerInv, RouteInv, NEW j \in Jobs, Drained(j) PROVE RouteInv'
<1>1. job[j].pc = "draining" /\ UNCHANGED <<ses, ops, wire, eng, net, last>>
  BY DEF Drained, Turn
<1>2. PICK x : x = job[j].got[1]
  OBVIOUS
<1>3. PICK a \in calls : /\ a.by = <<"job", j>>
        /\ \E m \in {mgr, Forget(mgr, x)} :
              /\ CloseOutcome(m, x, a) /\ mgr' = m /\ calls' = calls \ {a}
              /\ job' = [job EXCEPT ![j].pc = "drain", ![j].rs = @ \ {x}, ![j].ok = @ /\ Settled(a.res)]
  BY <1>2 DEF Drained, CallsBy
<1>4. PICK m \in {mgr, Forget(mgr, x)} :
              /\ CloseOutcome(m, x, a) /\ mgr' = m /\ calls' = calls \ {a}
              /\ job' = [job EXCEPT ![j].pc = "drain", ![j].rs = @ \ {x}, ![j].ok = @ /\ Settled(a.res)]
  BY <1>3
<1>5. a.arg = <<x.route>> /\ a.ep = x.ep
  BY <1>1, <1>2, <1>3, ByJob DEF JobWaits, RouteInv
<1>6. job'[j].pc = "drain" /\ job'[j].rs \subseteq job[j].rs /\ \A i \in Jobs \ {j} : job'[i] = job[i]
  <2>1. PICK rs, ok : rs = job[j].rs \ {x} /\ ok = (job[j].ok /\ Settled(a.res))
    OBVIOUS
  <2>2. job' = [job EXCEPT ![j].pc = "drain", ![j].rs = rs, ![j].ok = ok]
    BY <1>4, <2>1, JobIs DEF JobFields
  <2> QED
    BY <2>1, <2>2, JobIs DEF JobFields
<1> QED
  BY <1>1, <1>3, <1>4, <1>5, <1>6, JobClosed DEF Carries, Asks, Acquiring, Drains, Sweeps

-----------------------------------------------------------------------------
(***************************************************************************)
(* A call of an open_session ends.                                         *)
(***************************************************************************)

\* The manager's markers are the same but for those of open o, and for routes
\* that are closed.
MarkersLess(o) ==
    /\ mgr'.byRoute = mgr.byRoute /\ mgr'.refused = mgr.refused /\ mgr'.retired = mgr.retired
    /\ mgr'.retiring \subseteq mgr.retiring
    /\ \A y \in mgr.retiring : y \in mgr'.retiring \/ ~EpochCurrent(y.ep) \/ SeenElse(y.route, y.ep)
    /\ \A k \in mgr.cleanup : k \in mgr'.cleanup \/ k.by = Rec(o)

\* An operation goes on without its open.
Parts(i) ==
    /\ job[i].pc \in Opening /\ job'[i].pc \in {"commit", "done", "slot"}
    /\ job'[i].pc = "slot" => job[i].pc = "opening" /\ job'[i].ex = job[i].ex

LEMMA OpEnds ==
    ASSUME ManagerInv, RouteInv, NEW o \in ops, NEW a \in calls, calls' = calls \ {a},
           UNCHANGED <<ses, wire, eng, net, last>>, MarkersLess(o),
           a.k = "open" /\ a.res = "none" => a.ep = NotSent,
           a.k = "open" /\ a.res = "ok" => ~EpochCurrent(a.ep),
           \A i \in Jobs : job'[i] = job[i] \/ Parts(i),
           \/ a.by = By(o) /\ o.owner \notin {"listing", "purging"} /\ ops' = ops \ {o}
           \/ /\ a.by = Rec(o) /\ o.owner \in {"listing", "purging"}
              /\ \E p \in ops' : p.id = o.id /\ p.owner = "final"
              /\ \A q \in ops \ {o} : q \in ops'
    PROVE  RouteInv'
<1>1. SesStand
  BY DEF SesStand
<1>2. OwnersLess
  <2>1. \A t \in DOMAIN ses : Serves(t)' => Serves(t)
    BY DEF Serves, Routable, EpochCurrent
  <2>2. \A i \in Jobs : job'[i].pc \notin Carries \/ job'[i] = job[i]
    BY DEF Parts, Carries
  <2> QED
    BY <2>1, <2>2 DEF OwnersLess, OwnersInv, RouteInv, Carries
<1>3. RoutesLess
  BY DEF MarkersLess, RoutesLess, Holder
<1>4. SeenMore
  <2>1. \A t \in DOMAIN ses : ses[t].closing \/ Routable(t) => ses'[t].closing \/ Routable(t)'
    BY DEF Routable
  <2>2. \A i \in Jobs : job[i].pc \in Carries => job'[i] = job[i]
    BY DEF Parts, Opening, Carries
  <2> QED
    BY <2>1, <2>2 DEF SeenMore, MarkersLess
<1>5. ReplacesEdit
  BY DEF ReplacesEdit, Parts, Acquiring, Sweeps
<1>6. DrainsLess
  BY DEF DrainsLess, Parts, Drains
<1>7. ~Fallback(a)
  BY DEF Fallback, By, Rec
<1>8. ASSUME NEW c \in calls \ {a} PROVE OpsKeep(c) /\ JobsKeep(c) /\ SesKeep(c)
  <2>1. c.by # a.by
    BY <1>8 DEF RouteInv, CallsInv
  <2>2. JobsKeep(c)
    <3>1. ASSUME NEW i \in Jobs, c.by = <<"job", i>> PROVE job'[i] = job[i]
      <4>1. job[i].pc \in Asks
        BY <3>1, ByJob DEF RouteInv, JobWaits
      <4> QED
        BY <4>1 DEF Asks, Parts, Opening
    <3> QED
      BY <3>1 DEF JobsKeep
  <2>3. SesKeep(c)
    <3>1. ASSUME NEW t \in DOMAIN ses, c.by = <<"ses", t>>, NEW k \in mgr.cleanup, k.by = c.by
          PROVE  k \in mgr'.cleanup
      BY <3>1 DEF MarkersLess, Rec
    <3> QED
      BY <3>1 DEF SesKeep
  <2>4. OpsKeep(c)
    <3>1. ASSUME NEW q \in ops \ {o} PROVE q \in ops'
      BY <3>1
    <3>2. ASSUME a.by = By(o), o.owner \notin {"listing", "purging"}, c.by \in {By(o), Rec(o)} PROVE FALSE
      <4>1. c.by = Rec(o)
        BY <2>1, <3>2
      <4> QED
        BY <3>2, <4>1, ByRec DEF RecWaits, RouteInv
    <3>3. ASSUME a.by = Rec(o), o.owner \in {"listing", "purging"}, c.by \in {By(o), Rec(o)},
                 NEW p \in ops', p.id = o.id, p.owner = "final"
          PROVE  /\ c.by = By(o) => (p.owner = "settling" <=> o.owner = "settling")
                 /\ c.by # Rec(o)
                 /\ p.owner \notin {"settling", "listing", "purging"}
      BY <2>1, <3>3
    <3> QED
      BY <3>1, <3>2, <3>3 DEF OpsKeep
  <2> QED
    BY <2>2, <2>3, <2>4
<1>9. mgr'.retiring \subseteq mgr.retiring
  BY DEF MarkersLess
<1> QED
  BY <1>1, <1>2, <1>3, <1>4, <1>5, <1>6, <1>7, <1>8, <1>9, EndKeeps

\* clearPendingOpenMarker and recoverOpenFence leave the routes alone.
LEMMA MarkerIs ==
    ASSUME NEW m, DOMAIN m = MgrFields, NEW o, NEW n, n = ClearMarker(m, o) \/ n = RecoverFence(m, o)
    PROVE  /\ DOMAIN n = MgrFields /\ n.byRoute = m.byRoute /\ n.cleanup = m.cleanup
           /\ n.refused = m.refused /\ n.retired = m.retired /\ n.retiring = m.retiring
<1>1. \/ n = m
      \/ n = [m EXCEPT !.fence[o.chat] = None, !.slots = @ - 1]
      \/ n = [m EXCEPT !.slots = @ - 1]
      \/ n = [m EXCEPT !.fence[o.chat] = None]
  BY DEF ClearMarker, RecoverFence
<1> QED
  BY <1>1 DEF MgrFields

LEMMA MarkersKept ==
    ASSUME ManagerInv, NEW o, NEW p, mgr' = ClearMarker(mgr, p) \/ mgr' = RecoverFence(mgr, p)
    PROVE  MarkersLess(o) /\ Alike(mgr') /\ mgr'.cleanup = mgr.cleanup
<1>1. DOMAIN mgr = MgrFields
  BY MgrIs
<1>2. /\ DOMAIN mgr' = MgrFields /\ mgr'.byRoute = mgr.byRoute /\ mgr'.cleanup = mgr.cleanup
      /\ mgr'.refused = mgr.refused /\ mgr'.retired = mgr.retired /\ mgr'.retiring = mgr.retiring
  BY <1>1, MarkerIs
<1> QED
  BY <1>2 DEF MarkersLess, Alike

LEMMA LateClosedKeeps == ASSUME ManagerInv, RouteInv, NEW o \in ops, LateClosed(o) PROVE RouteInv'
<1>1. o.owner = "settling" /\ UNCHANGED <<ses, job, wire, eng, net, last>>
  BY DEF LateClosed
<1>2. PICK a \in calls : /\ a.by = By(o)
        /\ \E m \in {mgr, Forget(mgr, o.rt)} :
              /\ CloseOutcome(m, o.rt, a)
              /\ mgr' = ClearMarker(m, o) /\ ops' = ops \ {o} /\ calls' = calls \ {a}
  BY DEF LateClosed, CallsBy
<1>3. PICK m \in {mgr, Forget(mgr, o.rt)} :
              /\ CloseOutcome(m, o.rt, a)
              /\ mgr' = ClearMarker(m, o) /\ ops' = ops \ {o} /\ calls' = calls \ {a}
  BY <1>2
<1>4. a.k = "close" /\ a.arg = <<o.rt.route>> /\ a.ep = o.rt.ep
  BY <1>1, <1>2, ByOp DEF OpWaits, RouteInv
<1>5. ~Fallback(a)
  BY <1>2 DEF Fallback, By
<1>6. PICK x : x = o.rt
  OBVIOUS
<1>7. /\ DOMAIN m = MgrFields /\ m.byRoute = mgr.byRoute /\ m.cleanup = mgr.cleanup
      /\ m.refused = mgr.refused /\ m.retired = mgr.retired /\ m.retiring \subseteq mgr.retiring
      /\ \A y \in mgr.retiring : y \in m.retiring \/ ~EpochCurrent(y.ep) \/ SeenElse(y.route, y.ep)
  BY <1>1, <1>3, <1>4, <1>5, <1>6, Outcome
<1>8. /\ mgr'.byRoute = m.byRoute /\ mgr'.cleanup = m.cleanup
      /\ mgr'.refused = m.refused /\ mgr'.retired = m.retired /\ mgr'.retiring = m.retiring
  BY <1>3, <1>7, MarkerIs
<1>9. MarkersLess(o)
  BY <1>7, <1>8 DEF MarkersLess
<1> QED
  BY <1>1, <1>2, <1>3, <1>4, <1>9, OpEnds

LEMMA PurgedKeeps == ASSUME ManagerInv, RouteInv, NEW o \in ops, Purged(o) PROVE RouteInv'
<1>1. o.owner = "purging" /\ UNCHANGED <<ses, job, wire, eng, net, last>>
  BY DEF Purged
<1>2. PICK a \in calls : /\ a.by = Rec(o)
        /\ \E m \in {mgr, Forget(mgr, o.rt)} :
              /\ CloseOutcome(m, o.rt, a)
              /\ mgr' = RecoverFence([m EXCEPT !.cleanup = {k \in @ : k.by # Rec(o)}], o)
              /\ calls' = calls \ {a} /\ ops' = Put(o, [o EXCEPT !.owner = "final"])
  BY DEF Purged, CallsBy
<1>3. PICK m \in {mgr, Forget(mgr, o.rt)} :
              /\ CloseOutcome(m, o.rt, a)
              /\ mgr' = RecoverFence([m EXCEPT !.cleanup = {k \in @ : k.by # Rec(o)}], o)
              /\ calls' = calls \ {a} /\ ops' = Put(o, [o EXCEPT !.owner = "final"])
  BY <1>2
<1>4. a.k = "close" /\ a.arg = <<o.rt.route>> /\ a.ep = o.rt.ep
  BY <1>1, <1>2, ByRec DEF RecWaits, RouteInv
<1>5. ~Fallback(a)
  BY <1>2 DEF Fallback, Rec
<1>6. PICK x : x = o.rt
  OBVIOUS
<1>7. /\ DOMAIN m = MgrFields /\ m.byRoute = mgr.byRoute /\ m.cleanup = mgr.cleanup
      /\ m.refused = mgr.refused /\ m.retired = mgr.retired /\ m.retiring \subseteq mgr.retiring
      /\ \A y \in mgr.retiring : y \in m.retiring \/ ~EpochCurrent(y.ep) \/ SeenElse(y.route, y.ep)
  BY <1>1, <1>3, <1>4, <1>5, <1>6, Outcome
<1>8. PICK n : n = [m EXCEPT !.cleanup = {k \in @ : k.by # Rec(o)}]
  OBVIOUS
<1>9. /\ DOMAIN n = MgrFields /\ n.byRoute = m.byRoute /\ n.cleanup = {k \in m.cleanup : k.by # Rec(o)}
      /\ n.refused = m.refused /\ n.retired = m.retired /\ n.retiring = m.retiring
  BY <1>7, <1>8 DEF MgrFields
<1>10. /\ mgr'.byRoute = n.byRoute /\ mgr'.cleanup = n.cleanup
       /\ mgr'.refused = n.refused /\ mgr'.retired = n.retired /\ mgr'.retiring = n.retiring
  <2>1. mgr' = RecoverFence(n, o)
    BY <1>3, <1>8
  <2> QED
    BY <1>9, <2>1, MarkerIs
<1>11. MarkersLess(o)
  BY <1>7, <1>9, <1>10 DEF MarkersLess
<1>12. PICK p : p = [o EXCEPT !.owner = "final"]
  OBVIOUS
<1>13. p.id = o.id /\ p.owner = "final" /\ p \in ops' /\ \A q \in ops \ {o} : q \in ops'
  BY <1>3, <1>12, OpIs DEF OpFields, Put
<1> QED
  BY <1>1, <1>2, <1>3, <1>4, <1>11, <1>13, OpEnds

\* Open o asks the engine to close route x, and its call a ends.
LEMMA OpAsks ==
    ASSUME ManagerInv, RouteInv, NEW o \in ops, NEW a \in calls, NEW x, NEW d,
           UNCHANGED <<job, eng, net, ses>>, calls' = (calls \ {a}) \cup {d}, wire' = wire \cup {Req(d)},
           Fresh(d), d.k = "close", d.arg = <<x.route>>, d.ep = x.ep, d.by = a.by, Waits(d)',
           EpochCurrent(x.ep), DoomedAt(x)',
           a.k = "open" => a.res = "ok" /\ x.route = a.got[1] /\ x.ep = a.ep,
           mgr'.byRoute = mgr.byRoute, mgr'.refused = mgr.refused, mgr.retired \subseteq mgr'.retired,
           mgr.cleanup \subseteq mgr'.cleanup, mgr'.retiring = mgr.retiring \cup {x},
           \/ a.by = By(o) /\ o.owner \notin {"listing", "purging"}
           \/ a.by = Rec(o) /\ o.owner \in {"listing", "purging"},
           NEW p \in ops', p.id = o.id,
           a.by = Rec(o) => p.owner # "settling",
           \A q \in ops \ {o} : q \in ops'
    PROVE  RouteInv'
<1> USE DEF RouteInv
<1>1. SesStand /\ Steady
  BY NetSame DEF SesStand
<1>2. RoutesLess
  BY DEF RoutesLess, Holder
<1>3. OwnersLess
  <2>1. \A t \in DOMAIN ses : Serves(t)' => Serves(t)
    BY DEF Serves, Routable, EpochCurrent
  <2> QED
    BY <2>1 DEF OwnersLess, OwnersInv, Fresh
<1>4. last \in Nat
  BY DEF ManagerInv, Shaped
<1>5. ~Fallback(d)' /\ ~Fallback(a)
  BY DEF Fallback, By, Rec
<1>6. d.ep # NotSent
  BY DEF EpochCurrent, CallsInv
<1>7. CallOk(d)'
  BY <1>1, <1>4, <1>6 DEF CallOk, Fresh, Steady
<1>8. ASSUME NEW c \in calls \ {a} PROVE c.by # d.by
  BY <1>8 DEF CallsInv
<1>9. CallsInv'
  <2>1. PICK A, D : A = {a} /\ D = {d}
    OBVIOUS
  <2>2. CallsEdit(A, D)
    BY <1>4, <1>6, <1>7, <1>8, <2>1 DEF CallsEdit, Fresh
  <2>3. ASSUME NEW c \in calls \ {a} PROVE Waits(c)'
    <3>1. Waits(c)
      BY DEF CallsInv, CallOk
    <3>2. JobsKeep(c) /\ SesKeep(c)
      BY DEF JobsKeep, SesKeep
    <3>3. OpsKeep(c)
      <4>1. ASSUME NEW q \in ops \ {o} PROVE q \in ops'
        BY <4>1
      <4>2. ASSUME a.by = By(o), o.owner \notin {"listing", "purging"}, c.by \in {By(o), Rec(o)} PROVE FALSE
        <5>1. c.by = Rec(o)
          BY <1>8, <4>2
        <5> QED
          BY <4>2, <5>1, ByRec DEF RecWaits
      <4>3. ASSUME a.by = Rec(o), o.owner \in {"listing", "purging"}, c.by \in {By(o), Rec(o)}
            PROVE  c.by = By(o) /\ c.k = "open"
        <5>1. c.by = By(o)
          BY <1>8, <4>3
        <5> QED
          BY <4>3, <5>1, ByOp DEF OpWaits
      <4> QED
        BY <4>1, <4>2, <4>3 DEF OpsKeep, By, Rec
    <3> QED
      BY <1>1, <3>1, <3>2, <3>3, WaitsKept
  <2>4. \A c \in calls \ A : Waits(c)'
    BY <2>1, <2>3
  <2> QED
    BY <1>1, <1>4, <2>2, <2>4, CallsStand
<1>10. OwnersInv'
  <2>1. CallKnown(d)'
    BY DEF CallKnown, OkNow, DoomedAt, Doomed, Known, EpochCurrent
  <2> QED
    BY <1>1, <1>3, <2>1, OwnersStand
<1>11. DoomsInv'
  <2>1. WireDoomed(Req(d))'
    <3>1. PICK w, r : w = Req(d) /\ r = x.route
      OBVIOUS
    <3>2. w.arg[1] = r
      BY <3>1 DEF Req
    <3>3. Doomed(r)'
      BY <3>1 DEF DoomedAt, EpochCurrent
    <3>4. WireDoomed(w)'
      BY <3>2, <3>3 DEF WireDoomed
    <3> QED
      BY <3>1, <3>4
  <2>2. CallSpares(d)'
    BY <1>5 DEF CallSpares
  <2>3. DoomsEdit
    <3>1. \A i \in Jobs : job'[i] = job[i]
      OBVIOUS
    <3>2. \A w \in wire' : w \in wire \/ WireDoomed(w)'
      BY <2>1
    <3> QED
      BY <1>5, <2>2, <3>1, <3>2 DEF DoomsEdit
  <2> QED
    BY <1>1, <1>2, <1>3, <2>3, DoomsStand
<1>12. SeenInv'
  <2>1. CallTrue(d)'
    BY DEF CallTrue, Fresh
  <2>2. SeenMore
    <3>1. \A t \in DOMAIN ses : ses[t].closing \/ Routable(t) => ses'[t].closing \/ Routable(t)'
      BY DEF Routable
    <3>2. SeenElse(x.route, x.ep)
      BY DEF SeenElse, SeenBy
    <3>3. \A c \in calls : c.k = "open" /\ c.res = "ok" => c \in calls' \/ SeenElse(c.got[1], c.ep)
      BY <3>2
    <3> QED
      BY <3>1, <3>3 DEF SeenMore
  <2>3. ReplacesEdit
    BY DEF ReplacesEdit
  <2> QED
    BY <1>1, <1>3, <2>1, <2>2, <2>3, SeenStand
<1> QED
  BY <1>9, <1>10, <1>11, <1>12

LEMMA SettleKeeps == ASSUME ManagerInv, RouteInv, NEW o \in ops, Settle(o) PROVE RouteInv'
<1> USE DEF RouteInv
<1>1. o.owner \in Idle /\ UNCHANGED <<ses, job, eng, net>>
  BY DEF Settle
<1>2. o.owner \notin {"settling", "listing", "purging"}
  BY <1>1 DEF Idle
<1>3. PICK a \in calls : /\ a.by = By(o) /\ a.res # "none"
        /\ LET x == Retiring(o.chat, IF a.res = "ok" THEN a.got[1] ELSE None, a.ep)
               n == last + 1
           IN  \/ /\ a.res = "ok" /\ EpochCurrent(a.ep)
                  /\ mgr' = Remember(mgr, x)
                  /\ LET d == [Call(n, "close", o.chat, <<x.route>>, By(o)) EXCEPT !.ep = x.ep]
                     IN  calls' = (calls \ {a}) \cup {d} /\ wire' = wire \cup {Req(d)}
                  /\ ops' = Put(o, [o EXCEPT !.owner = "settling", !.rt = x]) /\ last' = n
               \/ /\ ~(a.res = "ok" /\ EpochCurrent(a.ep))
                  /\ mgr' = ClearMarker(mgr, o) /\ ops' = ops \ {o} /\ calls' = calls \ {a}
                  /\ UNCHANGED <<wire, last>>
  BY DEF Settle, Answered, CallsBy
<1>4. a.k = "open"
  BY <1>2, <1>3, ByOp DEF OpWaits
<1>5. CASE /\ ~(a.res = "ok" /\ EpochCurrent(a.ep))
           /\ mgr' = ClearMarker(mgr, o) /\ ops' = ops \ {o} /\ calls' = calls \ {a}
           /\ UNCHANGED <<wire, last>>
  BY <1>1, <1>2, <1>3, <1>5, MarkersKept, OpEnds
<1>6. CASE a.res = "ok" /\ EpochCurrent(a.ep)
  <2>1. PICK x : x = Retiring(o.chat, a.got[1], a.ep)
    OBVIOUS
  <2>2. PICK d : d = [Call(last + 1, "close", o.chat, <<x.route>>, By(o)) EXCEPT !.ep = x.ep]
    OBVIOUS
  <2>3. PICK p : p = [o EXCEPT !.owner = "settling", !.rt = x]
    OBVIOUS
  <2>4. /\ mgr' = Remember(mgr, x) /\ calls' = (calls \ {a}) \cup {d} /\ wire' = wire \cup {Req(d)}
        /\ ops' = Put(o, p) /\ last' = last + 1
    BY <1>3, <1>6, <2>1, <2>2, <2>3
  <2>5. x.route = a.got[1] /\ x.ep = a.ep
    BY <2>1 DEF Retiring
  <2>6. /\ DOMAIN d = CallFields /\ d.id = last + 1 /\ d.k = "close" /\ d.arg = <<x.route>>
        /\ d.by = By(o) /\ d.ep = x.ep /\ d.res = "none" /\ d.got = <<>>
    BY <2>2 DEF Call, CallFields
  <2>7. Fresh(d)
    BY <2>4, <2>5, <2>6 DEF Fresh, CallsInv, CallOk
  <2>8. p.id = o.id /\ p.owner = "settling" /\ p.rt = x /\ p \in ops' /\ \A q \in ops \ {o} : q \in ops'
    BY <2>3, <2>4, OpIs DEF OpFields, Put
  <2>9. Waits(d)'
    <3>1. OpWaits(p, d)'
      BY <2>6, <2>8 DEF OpWaits, By
    <3> QED
      BY <2>8, <3>1 DEF Waits
  <2>10. DoomedAt(x)'
    <3>1. Known(a.got[1]) /\ a.ep \in Nat /\ a.ep <= net.ep
      BY <1>4, <1>6 DEF OwnersInv, CallKnown, OkNow, CallsInv, CallOk
    <3>2. PICK r : r = x.route
      OBVIOUS
    <3>3. ~InUse(r)'
      <4>1. ASSUME NEW c \in calls', OkNow(c)', c.got[1] = r PROVE FALSE
        <5>1. c \in calls \ {a} /\ OkNow(c)
          BY <1>1, <2>4, <2>6, <4>1 DEF OkNow, EpochCurrent
        <5> QED
          BY <1>4, <1>6, <2>5, <3>2, <4>1, <5>1 DEF OwnersInv, OkNow
      <4>2. ~(\E j \in Jobs : job'[j].pc = "publish" /\ JobNow(j)' /\ job'[j].got[1] = r)
        BY <1>1, <1>4, <1>6, <2>5, <3>2 DEF OwnersInv, OkNow, JobNow, EpochCurrent
      <4>3. ~(\E s \in DOMAIN ses' : Serves(s)' /\ ses'[s].route = r)
        BY <1>1, <1>4, <1>6, <2>5, <3>2 DEF OwnersInv, OkNow, SesNow, Serves, EpochCurrent
      <4> QED
        BY <4>1, <4>2, <4>3 DEF InUse
    <3>4. Doomed(r)'
      BY <1>1, <2>5, <3>1, <3>2, <3>3 DEF Doomed, Known
    <3> QED
      BY <1>1, <2>5, <3>1, <3>2, <3>4 DEF DoomedAt
  <2>11. /\ mgr'.byRoute = mgr.byRoute /\ mgr'.refused = mgr.refused /\ mgr'.retired = mgr.retired
         /\ mgr'.cleanup = mgr.cleanup /\ mgr'.retiring = mgr.retiring \cup {x}
    BY <2>4, MgrIs DEF Remember, MgrFields
  <2>12. a.by # Rec(o) /\ EpochCurrent(x.ep)
    BY <1>3, <1>6, <2>5 DEF By, Rec
  <2> QED
    BY <1>1, <1>2, <1>3, <1>4, <1>6, <2>4, <2>5, <2>6, <2>7, <2>8, <2>9, <2>10, <2>11, <2>12, OpAsks
<1> QED
  BY <1>3, <1>5, <1>6

LEMMA ListedKeeps == ASSUME ManagerInv, RouteInv, NEW o \in ops, Listed(o) PROVE RouteInv'
<1> USE DEF RouteInv
<1>1. o.owner = "listing" /\ UNCHANGED <<ses, job, eng, net>>
  BY DEF Listed
<1>2. PICK a \in calls : /\ a.by = Rec(o)
        /\ \/ \E n \in DOMAIN a.got :
                LET r == a.got[n]
                    x == Retiring(o.chat, r, a.ep)
                    d == [Call(last + 1, "close", o.chat, <<r>>, Rec(o)) EXCEPT !.ep = a.ep]
                IN  /\ Admit(r, a.ep)
                    /\ mgr' = [Remember(mgr, x) EXCEPT !.retired = @ \cup {[route |-> r, ep |-> a.ep]},
                                                      !.cleanup = @ \cup {[route |-> r, by |-> Rec(o)]}]
                    /\ calls' = (calls \ {a}) \cup {d} /\ wire' = wire \cup {Req(d)}
                    /\ ops' = Put(o, [o EXCEPT !.owner = "purging", !.rt = x]) /\ last' = last + 1
           \/ /\ mgr' = RecoverFence(mgr, o) /\ calls' = calls \ {a}
              /\ ops' = Put(o, [o EXCEPT !.owner = "final"])
              /\ UNCHANGED <<wire, last>>
  BY DEF Listed, CallsBy
<1>3. a.k = "list"
  BY <1>1, <1>2, ByRec DEF RecWaits
<1>4. CASE /\ mgr' = RecoverFence(mgr, o) /\ calls' = calls \ {a}
           /\ ops' = Put(o, [o EXCEPT !.owner = "final"])
           /\ UNCHANGED <<wire, last>>
  <2>1. PICK p : p = [o EXCEPT !.owner = "final"]
    OBVIOUS
  <2>2. p.id = o.id /\ p.owner = "final" /\ p \in ops' /\ \A q \in ops \ {o} : q \in ops'
    BY <1>4, <2>1, OpIs DEF OpFields, Put
  <2> QED
    BY <1>1, <1>2, <1>3, <1>4, <2>2, MarkersKept, OpEnds
<1>5. ASSUME NEW r, NEW x, NEW d, r \in {a.got[n] : n \in DOMAIN a.got},
             x = Retiring(o.chat, r, a.ep),
             d = [Call(last + 1, "close", o.chat, <<r>>, Rec(o)) EXCEPT !.ep = a.ep],
             Admit(r, a.ep),
             mgr' = [Remember(mgr, x) EXCEPT !.retired = @ \cup {[route |-> r, ep |-> a.ep]},
                                            !.cleanup = @ \cup {[route |-> r, by |-> Rec(o)]}],
             calls' = (calls \ {a}) \cup {d}, wire' = wire \cup {Req(d)},
             ops' = Put(o, [o EXCEPT !.owner = "purging", !.rt = x]), last' = last + 1
      PROVE  RouteInv'
  <2>1. EpochCurrent(a.ep) /\ Holder(mgr, r) = None
    BY <1>5 DEF Admit
  <2>2. x.route = r /\ x.ep = a.ep
    BY <1>5 DEF Retiring
  <2>3. PICK p : p = [o EXCEPT !.owner = "purging", !.rt = x]
    OBVIOUS
  <2>4. /\ DOMAIN d = CallFields /\ d.id = last + 1 /\ d.k = "close" /\ d.arg = <<x.route>>
        /\ d.by = Rec(o) /\ d.ep = x.ep /\ d.res = "none" /\ d.got = <<>>
    BY <1>5, <2>2 DEF Call, CallFields
  <2>5. Fresh(d)
    BY <1>5, <2>2, <2>4 DEF Fresh, CallsInv, CallOk
  <2>6. p.id = o.id /\ p.owner = "purging" /\ p.rt = x /\ p \in ops' /\ \A q \in ops \ {o} : q \in ops'
    BY <1>5, <2>3, OpIs DEF OpFields, Put
  <2>7. Waits(d)'
    <3>1. RecWaits(p, d)'
      BY <2>4, <2>6 DEF RecWaits, Rec
    <3> QED
      BY <2>6, <3>1 DEF Waits
  <2>8. /\ mgr'.byRoute = mgr.byRoute /\ mgr'.refused = mgr.refused
        /\ mgr'.retired = mgr.retired \cup {[route |-> r, ep |-> a.ep]}
        /\ mgr'.cleanup = mgr.cleanup \cup {[route |-> r, by |-> Rec(o)]}
        /\ mgr'.retiring = mgr.retiring \cup {x}
    <3>1. PICK m : m = Remember(mgr, x)
      OBVIOUS
    <3>2. /\ DOMAIN m = MgrFields /\ m.byRoute = mgr.byRoute /\ m.refused = mgr.refused
          /\ m.retired = mgr.retired /\ m.cleanup = mgr.cleanup /\ m.retiring = mgr.retiring \cup {x}
      BY <3>1, MgrIs DEF Remember, MgrFields
    <3>3. PICK p1, q1 : /\ p1 = m.retired \cup {[route |-> r, ep |-> a.ep]}
                        /\ q1 = m.cleanup \cup {[route |-> r, by |-> Rec(o)]}
      OBVIOUS
    <3>4. mgr' = [m EXCEPT !.retired = p1, !.cleanup = q1]
      <4>1. m.cleanup = [m EXCEPT !.retired = p1].cleanup
        BY <3>2 DEF MgrFields
      <4> QED
        BY <1>5, <3>1, <3>3, <4>1
    <3> QED
      BY <3>2, <3>3, <3>4 DEF MgrFields
  <2>9. DoomedAt(x)'
    <3>1. Known(r) /\ a.ep \in Nat /\ a.ep <= net.ep /\ a.ep = net.ep
      BY <1>3, <1>5, <2>1 DEF OwnersInv, CallKnown, CallsInv, CallOk, EpochCurrent
    <3>2. Unserved(r)'
      BY <2>1, <2>8 DEF Unserved, Holder
    <3>3. Doomed(r)'
      BY <1>1, <2>8, <3>1, <3>2 DEF Doomed, Known
    <3> QED
      BY <1>1, <2>2, <3>1, <3>3 DEF DoomedAt
  <2>10. EpochCurrent(x.ep)
    BY <2>1, <2>2
  <2>11. d.by = a.by
    BY <1>2, <2>4
  <2>12. a.by = Rec(o) /\ calls' = (calls \ {a}) \cup {d} /\ wire' = wire \cup {Req(d)}
    BY <1>2, <1>5
  <2> QED
    BY <1>1, <1>3, <2>4, <2>5, <2>6, <2>7, <2>8, <2>9, <2>10, <2>11, <2>12, OpAsks
<1>6. CASE \E n \in DOMAIN a.got :
                LET r == a.got[n]
                    x == Retiring(o.chat, r, a.ep)
                    d == [Call(last + 1, "close", o.chat, <<r>>, Rec(o)) EXCEPT !.ep = a.ep]
                IN  /\ Admit(r, a.ep)
                    /\ mgr' = [Remember(mgr, x) EXCEPT !.retired = @ \cup {[route |-> r, ep |-> a.ep]},
                                                      !.cleanup = @ \cup {[route |-> r, by |-> Rec(o)]}]
                    /\ calls' = (calls \ {a}) \cup {d} /\ wire' = wire \cup {Req(d)}
                    /\ ops' = Put(o, [o EXCEPT !.owner = "purging", !.rt = x]) /\ last' = last + 1
  BY <1>5, <1>6
<1> QED
  BY <1>2, <1>4, <1>6

-----------------------------------------------------------------------------
(* The caller of an open gives up, or gets an answer without a route. *)

LEMMA PutQuiet ==
    ASSUME ManagerInv, NEW o \in ops, NEW w, {w, o.owner} \cap Special = {}, ops' = Put(o, [o EXCEPT !.owner = w])
    PROVE  QuietOps
<1>1. PICK p : p = [o EXCEPT !.owner = w]
  OBVIOUS
<1>2. p.id = o.id /\ p.rt = o.rt /\ p.owner = w /\ p \in ops'
  BY <1>1, OpIs DEF OpFields, Put
<1>3. \A q \in ops \ {o} : q \in ops'
  BY DEF Put
<1> QED
  BY <1>2, <1>3 DEF QuietOps

\* An operation that waits for its open ends.
LEMMA OverParts ==
    ASSUME ManagerInv, NEW j \in Jobs, job[j].pc \in Opening, NEW ok, job' = [job EXCEPT ![j] = Over(@, ok)]
    PROVE  \A i \in Jobs : job'[i] = job[i] \/ Parts(i)
<1>1. job'[j].pc \in {"commit", "done"}
  BY JobIs DEF Over, JobFields
<1>2. \A i \in Jobs \ {j} : job'[i] = job[i]
  BY JobIs
<1> QED
  BY <1>1, <1>2 DEF Parts

LEMMA LeaveTimeoutKeeps == ASSUME ManagerInv, RouteInv, NEW j \in Jobs, LeaveTimeout(j) PROVE RouteInv'
<1>1. job[j].pc \in Opening /\ UNCHANGED <<ses, wire, eng, net, last>>
  BY DEF LeaveTimeout, Turn, Opening
<1>2. PICK ok : ok = FALSE /\ job' = [job EXCEPT ![j] = Over(@, ok)]
  BY DEF LeaveTimeout, Finish
<1>3. PICK o : o = Op(j)
  OBVIOUS
<1>4. o \in ops /\ o.owner = "job"
  BY <1>1, <1>3, OwnOp
<1>5. PICK c \in calls : /\ c.by = By(o) /\ c.res = "none"
        /\ \/ c.ep # NotSent /\ ops' = Put(o, [o EXCEPT !.owner = "await"]) /\ UNCHANGED <<mgr, calls>>
           \/ c.ep = NotSent /\ ops' = ops \ {o} /\ mgr' = ClearMarker(mgr, o) /\ calls' = calls \ {c}
  BY <1>3 DEF LeaveTimeout, CallsBy
<1>6. CASE ops' = Put(o, [o EXCEPT !.owner = "await"]) /\ UNCHANGED <<mgr, calls>>
  <2>1. PICK w : w = "await"
    OBVIOUS
  <2>2. QuietOps
    BY <1>4, <1>6, <2>1, PutQuiet DEF Special
  <2>3. \A i \in Jobs : QuietJob(i)
    BY <1>1, <1>2, EndsQuiet DEF Opening, Asks, Carries
  <2>4. QuietMgr /\ Steady
    BY <1>1, <1>6, MgrQuiet, NetSame DEF RouteInv
  <2> QED
    BY <1>1, <1>6, <2>2, <2>3, <2>4, SesQuiet, QuietKeeps DEF QuietStep
<1>7. CASE c.ep = NotSent /\ ops' = ops \ {o} /\ mgr' = ClearMarker(mgr, o) /\ calls' = calls \ {c}
  <2>1. \A i \in Jobs : job'[i] = job[i] \/ Parts(i)
    BY <1>1, <1>2, OverParts
  <2>2. MarkersLess(o)
    BY <1>7, MarkersKept
  <2>3. o.owner \notin {"listing", "purging"}
    BY <1>4
  <2> QED
    BY <1>1, <1>4, <1>5, <1>7, <2>1, <2>2, <2>3, OpEnds
<1> QED
  BY <1>5, <1>6, <1>7

\* An answer without a route of the connection
LEMMA AnswerLost ==
    ASSUME ManagerInv, RouteInv, NEW j \in Jobs, job[j].pc \in Opening, NEW a \in calls,
           a.by = By(Op(j)), a.res \notin {"none", "ok"},
           UNCHANGED <<ses, wire, eng, net, last>>,
           mgr' = ClearMarker(mgr, Op(j)), ops' = ops \ {Op(j)}, calls' = calls \ {a},
           \A i \in Jobs : job'[i] = job[i] \/ Parts(i)
    PROVE  RouteInv'
<1>1. PICK o : o = Op(j)
  OBVIOUS
<1>2. o \in ops /\ o.owner = "job"
  BY <1>1, OwnOp
<1>3. MarkersLess(o)
  BY <1>1, MarkersKept
<1>4. o.owner \notin {"listing", "purging"}
  BY <1>2
<1> QED
  BY <1>1, <1>2, <1>3, <1>4, OpEnds

\* The route of an answer passes to the operation that waited for it.
LEMMA AnswerCarried ==
    ASSUME ManagerInv, RouteInv, NEW j \in Jobs, job[j].pc \in Opening, NEW a \in calls,
           a.by = By(Op(j)), a.res = "ok", UNCHANGED <<ses, wire, eng, net, last>>,
           mgr' = ClearMarker(mgr, Op(j)), ops' = ops \ {Op(j)}, calls' = calls \ {a},
           \A i \in Jobs \ {j} : job'[i] = job[i],
           job'[j].got[1] = a.got[1], job'[j].got[2] = a.ep, job'[j].pc \in Carries,
           job'[j].pc = "publish" => job[j].pc = "opening" /\ job'[j].ex = job[j].ex
    PROVE  RouteInv'
<1> USE DEF RouteInv
<1>1. PICK o : o = Op(j)
  OBVIOUS
<1>2. o \in ops /\ o.owner = "job" /\ a.by = By(o) /\ ops' = ops \ {o}
  BY <1>1, OwnOp
<1>3. a.k = "open"
  BY <1>2, ByOp DEF OpWaits
<1>4. /\ mgr'.byRoute = mgr.byRoute /\ mgr'.cleanup = mgr.cleanup
      /\ mgr'.refused = mgr.refused /\ mgr'.retired = mgr.retired /\ mgr'.retiring = mgr.retiring
  BY <1>1, MarkersKept DEF Alike
<1>5. SesStand /\ Steady
  BY NetSame DEF SesStand
<1>6. last \in Nat
  BY DEF ManagerInv, Shaped
<1>7. \A e : EpochCurrent(e)' <=> EpochCurrent(e)
  BY DEF EpochCurrent
<1>8. CallsInv'
  <2>1. PICK A, D : A = {a} /\ D = {}
    OBVIOUS
  <2>2. CallsEdit(A, D)
    BY <1>6, <2>1 DEF CallsEdit
  <2>3. ASSUME NEW c \in calls \ {a} PROVE Waits(c)'
    <3>1. Waits(c) /\ c.by # a.by
      BY <2>3 DEF CallsInv, CallOk
    <3>2. JobsKeep(c)
      <4>1. ASSUME NEW i \in Jobs, c.by = <<"job", i>> PROVE job'[i] = job[i]
        <5>1. job[i].pc \in Asks
          BY <4>1, ByJob DEF JobWaits
        <5> QED
          BY <5>1 DEF Asks, Opening
      <4> QED
        BY <4>1 DEF JobsKeep
    <3>3. SesKeep(c)
      BY <1>4 DEF SesKeep
    <3>4. OpsKeep(c)
      <4>1. ASSUME NEW q \in ops \ {o} PROVE q \in ops'
        BY <1>2, <4>1
      <4>2. ASSUME c.by \in {By(o), Rec(o)} PROVE FALSE
        <5>1. c.by = Rec(o)
          BY <1>2, <3>1, <4>2
        <5> QED
          BY <1>2, <5>1, ByRec DEF RecWaits
      <4> QED
        BY <4>1, <4>2 DEF OpsKeep
    <3> QED
      BY <1>5, <3>1, <3>2, <3>3, <3>4, WaitsKept
  <2>4. \A c \in calls \ A : Waits(c)'
    BY <2>1, <2>3
  <2> QED
    BY <1>5, <1>6, <2>2, <2>4, CallsStand
<1>9. \A i \in Jobs \ {j} : JobNow(i)' <=> JobNow(i)
  BY <1>7 DEF JobNow
<1>10. JobNow(j)' => OkNow(a)
  BY <1>3, <1>7 DEF JobNow, OkNow
<1>11. \A c \in calls : OkNow(c)' <=> OkNow(c)
  BY <1>7 DEF OkNow
<1>12. \A s \in DOMAIN ses : SesNow(s)' <=> SesNow(s)
  BY <1>7 DEF SesNow
<1>13. OwnersInv'
  <2>1. \A r : Known(r)' <=> Known(r)
    BY DEF Known
  <2>2. DOMAIN eng' = EngFields /\ eng'.next \in Nat /\ \A x \in eng'.live : LiveKnown(x)'
    BY <2>1 DEF OwnersInv, LiveKnown
  <2>3. ASSUME NEW c \in calls' PROVE CallKnown(c)'
    <3>1. Fallback(c)' <=> Fallback(c)
      BY DEF Fallback
    <3> QED
      BY <1>7, <2>1, <3>1 DEF OwnersInv, CallKnown, OkNow
  <2>4. ASSUME NEW i \in Jobs PROVE JobKnown(i)'
    <3>1. CASE i # j
      BY <1>7, <2>1, <3>1 DEF OwnersInv, JobKnown, JobNow
    <3>2. CASE i = j
      <4>1. a.ep \in Nat /\ a.ep # NotSent /\ a.ep <= net.ep
        BY DEF CallsInv, CallOk
      <4>2. OkNow(a) => Known(a.got[1])
        BY DEF OwnersInv, CallKnown
      <4> QED
        BY <1>10, <2>1, <3>2, <4>1, <4>2 DEF JobKnown
    <3> QED
      BY <3>1, <3>2
  <2>5. \A s \in DOMAIN ses' : SesKnown(s)'
    BY <1>7, <2>1 DEF OwnersInv, SesKnown, SesNow
  <2>6. \A c, d \in calls' : OkNow(c)' /\ OkNow(d)' /\ c.got[1] = d.got[1] => c = d
    BY <1>11 DEF OwnersInv
  <2>7. ASSUME NEW c \in calls', NEW i \in Jobs, OkNow(c)', JobNow(i)' PROVE c.got[1] # job'[i].got[1]
    BY <1>9, <1>10, <1>11, <2>7 DEF OwnersInv
  <2>8. \A c \in calls', s \in DOMAIN ses' : OkNow(c)' /\ SesNow(s)' => c.got[1] # ses'[s].route
    BY <1>11, <1>12 DEF OwnersInv
  <2>9. ASSUME NEW i \in Jobs, NEW k \in Jobs, JobNow(i)', JobNow(k)', job'[i].got[1] = job'[k].got[1] PROVE i = k
    BY <1>9, <1>10, <2>9 DEF OwnersInv
  <2>10. ASSUME NEW i \in Jobs, NEW s \in DOMAIN ses', JobNow(i)', SesNow(s)' PROVE job'[i].got[1] # ses'[s].route
    BY <1>9, <1>10, <1>12, <2>10 DEF OwnersInv
  <2>11. \A s, t \in DOMAIN ses' : SesNow(s)' /\ SesNow(t)' /\ ses'[s].route = ses'[t].route => s = t
    BY <1>12 DEF OwnersInv
  <2> QED
    BY <2>2, <2>3, <2>4, <2>5, <2>6, <2>7, <2>8, <2>9, <2>10, <2>11 DEF OwnersInv
<1>14. ASSUME NEW r, InUse(r)' PROVE InUse(r)
  <2>1. \A c \in calls' : OkNow(c)' => c \in calls /\ OkNow(c)
    BY <1>11
  <2>2. \A s \in DOMAIN ses' : Serves(s)' => s \in DOMAIN ses /\ Serves(s) /\ ses'[s].route = ses[s].route
    BY <1>7 DEF Serves, Routable
  <2>3. ASSUME NEW i \in Jobs, job'[i].pc = "publish", JobNow(i)', job'[i].got[1] = r PROVE InUse(r)
    <3>1. CASE i = j
      BY <1>10, <2>3, <3>1 DEF InUse
    <3>2. CASE i # j
      BY <1>9, <2>3, <3>2 DEF InUse
    <3> QED
      BY <3>1, <3>2
  <2> QED
    BY <1>14, <2>1, <2>2, <2>3 DEF InUse
<1>15. \A r : Unserved(r)' <=> Unserved(r)
  BY <1>4, <1>7 DEF Unserved, Holder, Serves, Routable
<1>16. DoomsInv'
  <2>1. HoldersKnown'
    BY <1>4 DEF DoomsInv, HoldersKnown
  <2>2. ASSUME NEW r, Doomed(r) PROVE Doomed(r)'
    BY <1>4, <1>14, <1>15, <2>2 DEF Doomed, Known
  <2>3. \A c \in calls : CallSpares(c) /\ c.k = "close" /\ c.res = "none" /\ Fallback(c) => Unserved(c.arg[1])'
    BY <1>15 DEF CallSpares
  <2>4. DoomsEdit
    <3>1. \A i \in Jobs : job'[i].pc \in Drains => job'[i] = job[i]
      BY DEF Carries, Drains
    <3>2. \A i \in Jobs : job'[i].pc = "draining" => job'[i] = job[i]
      BY DEF Carries
    <3> QED
      BY <1>4, <3>1, <3>2 DEF DoomsEdit
  <2> QED
    BY <1>5, <2>1, <2>2, <2>3, <2>4, DoomsHold
<1>17. SeenInv'
  <2>1. SeenMore
    <3>1. SeenElse(a.got[1], a.ep)
      BY DEF SeenElse, SeenBy
    <3>2. \A s \in DOMAIN ses : ses[s].closing \/ Routable(s) => ses'[s].closing \/ Routable(s)'
      BY DEF Routable
    <3>3. \A i \in Jobs : job[i].pc \in Carries => job'[i] = job[i]
      BY DEF Carries, Opening
    <3> QED
      BY <1>4, <3>1, <3>2, <3>3 DEF SeenMore
  <2>2. ASSUME NEW i \in Jobs PROVE JobReplaces(i)' /\ JobSweeps(i)'
    <3>1. JobReplaces(i) /\ JobSweeps(i)
      BY DEF SeenInv
    <3>2. \A s : Serves(s)' <=> Serves(s)
      BY <1>7 DEF Serves, Routable
    <3>3. CASE i # j
      BY <3>1, <3>2, <3>3 DEF JobReplaces, JobSweeps
    <3>4. CASE i = j
      BY <3>1, <3>2, <3>4 DEF JobReplaces, JobSweeps, Sweeps, Acquiring, Carries
    <3> QED
      BY <3>3, <3>4
  <2> QED
    BY <1>5, <2>1, <2>2, SeenHold
<1> QED
  BY <1>8, <1>13, <1>16, <1>17

LEMMA LeaveAnsweredKeeps == ASSUME ManagerInv, RouteInv, NEW j \in Jobs, LeaveAnswered(j) PROVE RouteInv'
<1>1. job[j].pc = "leaving" /\ job[j].pc \in Opening /\ UNCHANGED <<ses, wire, eng, net, last>>
  BY DEF LeaveAnswered, Turn, Opening
<1>2. PICK a \in calls : /\ a.by = By(Op(j)) /\ a.res # "none"
        /\ mgr' = ClearMarker(mgr, Op(j)) /\ ops' = ops \ {Op(j)} /\ calls' = calls \ {a}
        /\ \/ a.res = "ok" /\ job' = [job EXCEPT ![j].got = <<a.got[1], a.ep, a.got[2]>>, ![j].pc = "discard"]
           \/ a.res # "ok" /\ Finish(j, FALSE)
  BY DEF LeaveAnswered, Answered, CallsBy
<1>3. CASE a.res = "ok"
  <2>1. PICK g : g = <<a.got[1], a.ep, a.got[2]>>
    OBVIOUS
  <2>2. job' = [job EXCEPT ![j].got = g, ![j].pc = "discard"]
    BY <1>2, <1>3, <2>1
  <2>3. job'[j].got = g /\ job'[j].pc = "discard" /\ \A i \in Jobs \ {j} : job'[i] = job[i]
    BY <2>2, JobIs DEF JobFields
  <2>4. g[1] = a.got[1] /\ g[2] = a.ep
    BY <2>1
  <2> QED
    BY <1>1, <1>2, <1>3, <2>3, <2>4, AnswerCarried DEF Carries
<1>4. CASE a.res # "ok"
  <2>1. PICK ok : ok = FALSE /\ job' = [job EXCEPT ![j] = Over(@, ok)]
    BY <1>2, <1>4 DEF Finish
  <2>2. \A i \in Jobs : job'[i] = job[i] \/ Parts(i)
    BY <1>1, <2>1, OverParts
  <2> QED
    BY <1>1, <1>2, <1>4, <2>2, AnswerLost
<1> QED
  BY <1>3, <1>4

LEMMA OpenAnsweredKeeps == ASSUME ManagerInv, RouteInv, NEW j \in Jobs, OpenAnswered(j) PROVE RouteInv'
<1>1. job[j].pc = "opening" /\ job[j].pc \in Opening /\ UNCHANGED <<ses, wire, eng, net, last>>
  BY DEF OpenAnswered, Turn, Opening
<1>2. PICK pc : pc = IF store[job[j].chat].gone /\ ~job[j].fresh /\ Op(j).path = NoPath THEN "discard" ELSE "publish"
  OBVIOUS
<1>3. PICK f : f = (Op(j).path = NoPath)
  OBVIOUS
<1>4. PICK a \in calls : /\ a.by = By(Op(j)) /\ a.res # "none"
        /\ mgr' = ClearMarker(mgr, Op(j)) /\ ops' = ops \ {Op(j)} /\ calls' = calls \ {a}
        /\ \/ /\ a.res = "ok"
              /\ job' = [job EXCEPT ![j].got = <<a.got[1], a.ep, a.got[2]>>, ![j].fresh = f, ![j].pc = pc]
           \/ a.res \in {"error", "in_use"} /\ job' = [job EXCEPT ![j].pc = "slot", ![j].fresh = TRUE]
           \/ a.res \in {"lost", "error", "in_use"} /\ Finish(j, FALSE)
  BY <1>2, <1>3 DEF OpenAnswered, Answered, CallsBy
<1>5. CASE /\ a.res = "ok"
           /\ job' = [job EXCEPT ![j].got = <<a.got[1], a.ep, a.got[2]>>, ![j].fresh = f, ![j].pc = pc]
  <2>1. PICK g : g = <<a.got[1], a.ep, a.got[2]>>
    OBVIOUS
  <2>2. job' = [job EXCEPT ![j].got = g, ![j].fresh = f, ![j].pc = pc]
    BY <1>5, <2>1
  <2>3. job'[j].got = g /\ job'[j].pc = pc /\ job'[j].ex = job[j].ex /\ \A i \in Jobs \ {j} : job'[i] = job[i]
    BY <2>2, JobIs DEF JobFields
  <2>4. g[1] = a.got[1] /\ g[2] = a.ep
    BY <2>1
  <2> QED
    BY <1>1, <1>2, <1>4, <1>5, <2>3, <2>4, AnswerCarried DEF Carries
<1>6. CASE a.res \in {"error", "in_use"} /\ job' = [job EXCEPT ![j].pc = "slot", ![j].fresh = TRUE]
  <2>1. job'[j].pc = "slot" /\ job'[j].ex = job[j].ex /\ \A i \in Jobs \ {j} : job'[i] = job[i]
    BY <1>6, JobIs DEF JobFields
  <2>2. \A i \in Jobs : job'[i] = job[i] \/ Parts(i)
    BY <1>1, <2>1 DEF Parts
  <2>3. a.res \notin {"none", "ok"}
    BY <1>6
  <2> QED
    BY <1>1, <1>4, <2>2, <2>3, AnswerLost
<1>7. CASE a.res \in {"lost", "error", "in_use"} /\ Finish(j, FALSE)
  <2>1. PICK ok : ok = FALSE /\ job' = [job EXCEPT ![j] = Over(@, ok)]
    BY <1>7 DEF Finish
  <2>2. \A i \in Jobs : job'[i] = job[i] \/ Parts(i)
    BY <1>1, <2>1, OverParts
  <2>3. a.res \notin {"none", "ok"}
    BY <1>7
  <2> QED
    BY <1>1, <1>4, <2>2, <2>3, AnswerLost
<1> QED
  BY <1>4, <1>5, <1>6, <1>7

-----------------------------------------------------------------------------
(***************************************************************************)
(* A call is made that is not sent yet.                                    *)
(***************************************************************************)

\* The opens stay; one may begin to list.
OpsGrow == \A o \in ops : \E p \in ops' :
    /\ p.id = o.id /\ p.rt = o.rt
    /\ p.owner = o.owner \/ (o.owner \notin Special /\ p.owner # "settling")

LEMMA UnsentKeeps ==
    ASSUME ManagerInv, RouteInv, NEW A \in SUBSET calls, NEW d, calls' = (calls \ A) \cup {d},
           UNCHANGED <<wire, ses, eng, net>>, Fresh(d), d.ep = NotSent, d.k \in {"open", "list"}, Waits(d)',
           \A a \in A : a.k = "open" /\ a.res \notin {"none", "ok"},
           \A c \in calls \ A : c.by # d.by, OpsGrow,
           mgr'.byRoute = mgr.byRoute, mgr'.cleanup = mgr.cleanup, mgr'.refused = mgr.refused,
           mgr'.retired = mgr.retired, mgr'.retiring = mgr.retiring,
           \A i \in Jobs : job'[i] = job[i] \/ (job[i].pc = "slot" /\ job'[i].pc = "opening" /\ job'[i].ex = job[i].ex)
    PROVE  RouteInv'
<1> USE DEF RouteInv
<1>1. SesStand /\ Steady
  BY NetSame DEF SesStand
<1>2. RoutesLess
  BY DEF RoutesLess, Holder
<1>3. OwnersLess
  <2>1. \A t \in DOMAIN ses : Serves(t)' => Serves(t)
    BY DEF Serves, Routable, EpochCurrent
  <2>2. \A i \in Jobs : job'[i].pc \in Carries => job'[i] = job[i]
    BY DEF Carries
  <2>3. \A i \in Jobs : job'[i].pc = "publish" => job'[i] = job[i]
    OBVIOUS
  <2> QED
    BY <2>1, <2>2, <2>3 DEF OwnersLess, OwnersInv, Fresh
<1>4. last \in Nat /\ net.ep \in Nat /\ net.ep # NotSent
  BY DEF ManagerInv, Shaped, CallsInv
<1>5. CallOk(d)'
  BY <1>1, <1>4 DEF CallOk, Fresh, Steady
<1>6. CallsInv'
  <2>1. PICK D : D = {d}
    OBVIOUS
  <2>2. CallsEdit(A, D)
    BY <1>4, <1>5, <2>1 DEF CallsEdit, Fresh
  <2>3. ASSUME NEW c \in calls \ A PROVE Waits(c)'
    <3>1. Waits(c)
      BY DEF CallsInv, CallOk
    <3>2. SesKeep(c)
      BY DEF SesKeep
    <3>3. JobsKeep(c)
      <4>1. ASSUME NEW i \in Jobs, c.by = <<"job", i>> PROVE job'[i] = job[i]
        <5>1. job[i].pc \in Asks
          BY <4>1, ByJob DEF JobWaits
        <5> QED
          BY <5>1 DEF Asks
      <4> QED
        BY <4>1 DEF JobsKeep
    <3>4. OpsKeep(c)
      <4>1. ASSUME NEW o \in ops, c.by \in {By(o), Rec(o)} PROVE \E p \in ops' :
              /\ p.id = o.id
              /\ c.by = By(o) => (p.owner = "settling" <=> o.owner = "settling")
              /\ c.by = Rec(o) => p.owner = o.owner
              /\ c.by = Rec(o) \/ p.owner = "settling" => p.rt = o.rt
        <5>1. PICK p \in ops' : /\ p.id = o.id /\ p.rt = o.rt
                                /\ p.owner = o.owner \/ (o.owner \notin Special /\ p.owner # "settling")
          BY DEF OpsGrow
        <5>2. p.owner = "settling" <=> o.owner = "settling"
          BY <5>1 DEF Special
        <5>3. c.by = Rec(o) => o.owner \in Special
          BY ByRec DEF RecWaits, Special
        <5> QED
          BY <5>1, <5>2, <5>3
      <4> QED
        BY <4>1 DEF OpsKeep
    <3> QED
      BY <1>1, <3>1, <3>2, <3>3, <3>4, WaitsKept
  <2>4. \A c \in calls \ A : Waits(c)'
    BY <2>3
  <2> QED
    BY <1>1, <1>4, <2>2, <2>4, CallsStand
<1>7. OwnersInv'
  <2>1. CallKnown(d)'
    BY <1>4 DEF CallKnown, OkNow, Fresh, EpochCurrent
  <2> QED
    BY <1>1, <1>3, <2>1, OwnersStand
<1>8. DoomsInv'
  <2>1. CallSpares(d)'
    BY DEF CallSpares
  <2>2. \A c \in calls : c.res = "none" /\ Fallback(c) => c \in calls'
    OBVIOUS
  <2>3. \A i \in Jobs : job'[i].pc \in Drains => job'[i] = job[i]
    BY DEF Drains
  <2>4. \A i \in Jobs : job'[i].pc = "draining" => job'[i] = job[i]
    OBVIOUS
  <2>5. DoomsEdit
    BY <2>1, <2>2, <2>3, <2>4 DEF DoomsEdit
  <2> QED
    BY <1>1, <1>2, <1>3, <2>5, DoomsStand
<1>9. SeenInv'
  <2>1. CallTrue(d)'
    BY DEF CallTrue
  <2>2. SeenMore
    <3>1. \A t \in DOMAIN ses : ses[t].closing \/ Routable(t) => ses'[t].closing \/ Routable(t)'
      BY DEF Routable
    <3>2. \A i \in Jobs : job[i].pc \in Carries => job'[i] = job[i]
      BY DEF Carries
    <3> QED
      BY <3>1, <3>2 DEF SeenMore
  <2>3. ReplacesEdit
    BY DEF ReplacesEdit, Acquiring, Sweeps
  <2> QED
    BY <1>1, <1>3, <2>1, <2>2, <2>3, SeenStand
<1> QED
  BY <1>6, <1>7, <1>8, <1>9

LEMMA NewUnsent ==
    ASSUME NEW n, NEW k, NEW c, NEW arg, NEW by
    PROVE  LET d == Call(n, k, c, arg, by)
           IN  /\ DOMAIN d = CallFields /\ d.id = n /\ d.k = k
               /\ d.by = by /\ d.ep = NotSent /\ d.res = "none" /\ d.got = <<>>
BY DEF Call, CallFields

LEMMA RetryOpenKeeps == ASSUME ManagerInv, RouteInv, NEW o \in ops, RetryOpen(o) PROVE RouteInv'
<1> USE DEF RouteInv
<1>1. o.owner = "job" /\ UNCHANGED <<mgr, ses, job, wire, eng, net>>
  BY DEF RetryOpen
<1>2. PICK d : d = Call(last + 1, "open", o.chat, o.path, By(o))
  OBVIOUS
<1>3. PICK a \in calls : /\ a.by = By(o) /\ a.res = "in_use" /\ calls' = (calls \ {a}) \cup {d}
                         /\ ops' = Put(o, [o EXCEPT !.tries = @ + 1]) /\ last' = last + 1
  BY <1>2 DEF RetryOpen, Answered, CallsBy
<1>4. a.k = "open"
  BY <1>1, <1>3, ByOp DEF OpWaits
<1>5. /\ DOMAIN d = CallFields /\ d.id = last + 1 /\ d.k = "open"
      /\ d.by = By(o) /\ d.ep = NotSent /\ d.res = "none" /\ d.got = <<>>
  BY <1>2, NewUnsent
<1>6. Fresh(d)
  BY <1>3, <1>5 DEF Fresh, CallsInv, NotSent
<1>7. PICK p : p = [o EXCEPT !.tries = @ + 1]
  OBVIOUS
<1>8. p.id = o.id /\ p.rt = o.rt /\ p.owner = "job" /\ p \in ops' /\ \A q \in ops \ {o} : q \in ops'
  BY <1>1, <1>3, <1>7, OpIs DEF OpFields, Put
<1>9. Waits(d)'
  <2>1. OpWaits(p, d)'
    BY <1>5, <1>8 DEF OpWaits, By
  <2> QED
    BY <1>8, <2>1 DEF Waits
<1>10. OpsGrow
  BY <1>1, <1>8 DEF OpsGrow
<1>11. PICK A \in SUBSET calls : A = {a}
  OBVIOUS
<1>12. \A c \in calls \ A : c.by # d.by
  BY <1>3, <1>5, <1>11 DEF CallsInv
<1>13. \A b \in A : b.k = "open" /\ b.res \notin {"none", "ok"}
  BY <1>3, <1>4, <1>11
<1>14. calls' = (calls \ A) \cup {d} /\ d.k \in {"open", "list"}
  BY <1>3, <1>5, <1>11
<1> QED
  BY <1>1, <1>5, <1>6, <1>9, <1>10, <1>12, <1>13, <1>14, UnsentKeeps

LEMMA RecoverKeeps == ASSUME ManagerInv, RouteInv, NEW o \in ops, Recover(o) PROVE RouteInv'
<1> USE DEF RouteInv
<1>1. o.owner = "await" /\ UNCHANGED <<ses, job, wire, eng, net>>
  BY DEF Recover
<1>2. CASE mgr' = RecoverFence(mgr, o) /\ ops' = Put(o, [o EXCEPT !.owner = "final"]) /\ UNCHANGED <<calls, last>>
  <2>1. PICK w : w = "final"
    OBVIOUS
  <2>2. QuietOps
    BY <1>1, <1>2, <2>1, PutQuiet DEF Special
  <2>3. QuietMgr
    BY <1>2, MarkersKept, AlikeQuiet
  <2> QED
    BY <1>1, <1>2, <2>2, <2>3, NetSame, SesQuiet, JobsQuiet, QuietKeeps DEF QuietStep
<1>3. CASE ~(mgr' = RecoverFence(mgr, o) /\ ops' = Put(o, [o EXCEPT !.owner = "final"]) /\ UNCHANGED <<calls, last>>)
  <2>1. PICK d : d = Call(last + 1, "list", o.chat, o.path, Rec(o))
    OBVIOUS
  <2>2. /\ calls' = calls \cup {d} /\ ops' = Put(o, [o EXCEPT !.owner = "listing"]) /\ last' = last + 1
        /\ UNCHANGED mgr
    BY <1>3, <2>1 DEF Recover
  <2>3. /\ DOMAIN d = CallFields /\ d.id = last + 1 /\ d.k = "list"
        /\ d.by = Rec(o) /\ d.ep = NotSent /\ d.res = "none" /\ d.got = <<>>
    BY <2>1, NewUnsent
  <2>4. Fresh(d)
    BY <2>2, <2>3 DEF Fresh, CallsInv, NotSent
  <2>5. PICK p : p = [o EXCEPT !.owner = "listing"]
    OBVIOUS
  <2>6. p.id = o.id /\ p.rt = o.rt /\ p.owner = "listing" /\ p \in ops' /\ \A q \in ops \ {o} : q \in ops'
    BY <2>2, <2>5, OpIs DEF OpFields, Put
  <2>7. Waits(d)'
    <3>1. RecWaits(p, d)'
      BY <2>3, <2>6 DEF RecWaits, Rec
    <3> QED
      BY <2>6, <3>1 DEF Waits
  <2>8. OpsGrow
    BY <1>1, <2>6 DEF OpsGrow, Special
  <2>9. PICK A \in SUBSET calls : A = {}
    OBVIOUS
  <2>10. \A c \in calls \ A : c.by # d.by
    BY <1>1, <2>3, ByRec DEF RecWaits
  <2>11. /\ calls' = (calls \ A) \cup {d} /\ d.k \in {"open", "list"}
         /\ \A b \in A : b.k = "open" /\ b.res \notin {"none", "ok"}
    BY <2>2, <2>3, <2>9
  <2> QED
    BY <1>1, <2>2, <2>3, <2>4, <2>7, <2>8, <2>10, <2>11, UnsentKeeps
<1> QED
  BY <1>2, <1>3

LEMMA TakeSlotKeeps == ASSUME ManagerInv, RouteInv, NEW j \in Jobs, TakeSlot(j) PROVE RouteInv'
<1> USE DEF RouteInv
<1>1. job[j].pc = "slot" /\ UNCHANGED <<ses, wire, eng, net>>
  BY DEF TakeSlot, Turn
<1>2. CASE Finish(j, FALSE) /\ UNCHANGED <<mgr, ops, calls, last>>
  <2>1. PICK ok : ok = FALSE /\ job' = [job EXCEPT ![j] = Over(@, ok)]
    BY <1>2 DEF Finish
  <2>2. \A i \in Jobs : QuietJob(i)
    BY <1>1, <2>1, EndsQuiet DEF Asks, Carries
  <2> QED
    BY <1>1, <1>2, <2>2, JobKeeps
<1>3. CASE ~(Finish(j, FALSE) /\ UNCHANGED <<mgr, ops, calls, last>>)
  <2>1. PICK n : n = last + 1
    OBVIOUS
  <2>2. PICK c : c = job[j].chat
    OBVIOUS
  <2>3. PICK d : d = Call(n, "open", c, Target(j), <<"op", n>>)
    OBVIOUS
  <2>4. PICK p : p = [id |-> n, chat |-> c, path |-> Target(j), owner |-> "job",
                      tries |-> 1, rt |-> Retiring(c, None, NotSent)]
    OBVIOUS
  <2>5. /\ mgr' = [mgr EXCEPT !.slots = @ + 1, !.fence[c] = n] /\ ops' = ops \cup {p}
        /\ calls' = calls \cup {d} /\ job' = [job EXCEPT ![j].pc = "opening", ![j].got = <<n>>] /\ last' = n
    BY <1>3, <2>1, <2>2, <2>3, <2>4 DEF TakeSlot
  <2>6. /\ DOMAIN d = CallFields /\ d.id = n /\ d.k = "open"
        /\ d.by = <<"op", n>> /\ d.ep = NotSent /\ d.res = "none" /\ d.got = <<>>
    BY <2>3, NewUnsent
  <2>7. Fresh(d)
    BY <2>1, <2>5, <2>6 DEF Fresh, CallsInv, NotSent
  <2>8. p.id = n /\ p.owner = "job" /\ p \in ops'
    BY <2>4, <2>5
  <2>9. Waits(d)'
    <3>1. OpWaits(p, d)'
      BY <2>6, <2>8 DEF OpWaits, By
    <3> QED
      BY <2>8, <3>1 DEF Waits
  <2>10. OpsGrow
    BY <2>5 DEF OpsGrow
  <2>11. ASSUME NEW b \in calls, b.by = d.by PROVE FALSE
    <3>1. Waits(b) /\ b.by = <<"op", n>>
      BY <2>6, <2>11 DEF CallsInv, CallOk
    <3>2. PICK o \in ops : OpWaits(o, b)
      BY <3>1 DEF Waits, RecWaits, JobWaits, SesWaits, Rec
    <3>3. o.id = n
      BY <3>1, <3>2 DEF OpWaits, By
    <3> QED
      BY <2>1, <3>3, OpIs DEF ManagerInv, Shaped
  <2>12. PICK A \in SUBSET calls : A = {}
    OBVIOUS
  <2>13. /\ calls' = (calls \ A) \cup {d} /\ d.k \in {"open", "list"}
         /\ \A b \in A : b.k = "open" /\ b.res \notin {"none", "ok"}
         /\ \A b \in calls \ A : b.by # d.by
    BY <2>5, <2>6, <2>11, <2>12
  <2>14. /\ mgr'.byRoute = mgr.byRoute /\ mgr'.cleanup = mgr.cleanup
         /\ mgr'.refused = mgr.refused /\ mgr'.retired = mgr.retired /\ mgr'.retiring = mgr.retiring
    BY <2>5, MgrIs DEF MgrFields
  <2>15. job'[j].pc = "opening" /\ job'[j].ex = job[j].ex /\ \A i \in Jobs \ {j} : job'[i] = job[i]
    BY <2>5, JobIs DEF JobFields
  <2> QED
    BY <1>1, <2>6, <2>7, <2>9, <2>10, <2>13, <2>14, <2>15, UnsentKeeps
<1> QED
  BY <1>2, <1>3

-----------------------------------------------------------------------------
(***************************************************************************)
(* The close of a session was answered.                                    *)
(***************************************************************************)

\* m is the manager but for its slots, markers, and routes taken out of the
\* index.
Lighter(m) ==
    /\ DOMAIN m = MgrFields /\ m.retiring = mgr.retiring /\ m.refused = mgr.refused
    /\ \A r : Holder(m, r) # None => Holder(m, r) = Holder(mgr, r)
    /\ \A x \in mgr.retired : EpochCurrent(x.ep) => x \in m.retired

LEMMA LighterDetach ==
    ASSUME ManagerInv, NEW e, ~EpochCurrent(e), NEW m, m = Detach(mgr, e)
    PROVE  Lighter(m) /\ m.cleanup = mgr.cleanup
<1>1. /\ DOMAIN m = MgrFields /\ m.cleanup = mgr.cleanup /\ m.refused = mgr.refused /\ m.retiring = mgr.retiring
      /\ m.byRoute = [r \in DOMAIN mgr.byRoute |-> IF mgr.byRoute[r] \in OfEpoch(mgr, e) THEN None ELSE mgr.byRoute[r]]
      /\ m.retired = {x \in mgr.retired : x.ep # e}
  BY MgrIs DEF Detach, MgrFields
<1> QED
  BY <1>1 DEF Lighter, Holder

LEMMA LighterRetire ==
    ASSUME NEW m, Lighter(m), NEW s, NEW k, k = Retire(m, s)
    PROVE  Lighter(k) /\ k.cleanup = m.cleanup
<1>1. PICK n : n = WithoutRoute(m, s)
  OBVIOUS
<1>2. /\ DOMAIN n = MgrFields /\ n.cleanup = m.cleanup /\ n.retiring = m.retiring
      /\ n.refused = m.refused /\ n.retired = m.retired
      /\ n.byRoute = m.byRoute \/ n.byRoute = [m.byRoute EXCEPT ![Route(s)] = None]
  <2>1. CASE n = m
    BY <2>1 DEF Lighter
  <2>2. CASE n = [m EXCEPT !.byRoute[Route(s)] = None]
    BY <2>2 DEF Lighter, MgrFields
  <2> QED
    BY <1>1, <2>1, <2>2 DEF WithoutRoute
<1>3. /\ DOMAIN k = MgrFields /\ k.cleanup = n.cleanup /\ k.retiring = n.retiring
      /\ k.refused = n.refused /\ k.retired = n.retired /\ k.byRoute = n.byRoute
  <2>1. CASE k = n
    BY <1>2, <2>1
  <2>2. CASE k = [n EXCEPT !.byChat[ses[s].chat] = None, !.slotGen[ses[s].chat] = @ + 1]
    BY <1>2, <2>2 DEF MgrFields
  <2> QED
    BY <1>1, <2>1, <2>2 DEF Retire
<1>4. \A r : Holder(k, r) # None => Holder(k, r) = Holder(m, r)
  BY <1>2, <1>3 DEF Holder
<1> QED
  BY <1>2, <1>3, <1>4 DEF Lighter

LEMMA SesClosedKeeps == ASSUME ManagerInv, RouteInv, NEW s, SesClosed(s) PROVE RouteInv'
<1> USE DEF RouteInv
<1>1. UNCHANGED <<job, ops, wire, eng, net, last>>
  BY DEF SesClosed
<1>2. PICK a \in calls : /\ a.by = <<"ses", s>> /\ a.res # "none"
        /\ LET m == [(IF a.res = "lost" THEN Detach(mgr, ses[s].ep) ELSE mgr)
                       EXCEPT !.cleanup = {k \in @ : k.by # <<"ses", s>>}]
               t == IF a.res = "lost" THEN Invalidated(mgr, ses[s].ep) ELSE ses
               gone == Settled(a.res) \/ mgr.closed
           IN  /\ calls' = calls \ {a}
               /\ mgr' = IF gone THEN ClosedSes(m, t, s)[1] ELSE m
               /\ ses' = IF gone THEN ClosedSes(m, t, s)[2] ELSE [t EXCEPT ![s].closing = FALSE]
  BY DEF SesClosed, Answered, CallsBy
<1>3. s \in DOMAIN ses /\ SesWaits(s, a)
  BY <1>2, BySes
<1>4. a.k = "close" /\ a.arg = <<ses[s].route>> /\ (a.ep # ses[s].ep => ~EpochCurrent(ses[s].ep))
  BY <1>3 DEF SesWaits
<1>5. a.res \in {"ok", "unknown", "lost"}
  BY <1>2, <1>4 DEF CallsInv, CallOk
<1>6. a.res = "lost" => ~EpochCurrent(ses[s].ep)
  BY <1>4 DEF CallsInv, CallOk
<1>7. PICK k : k = (IF a.res = "lost" THEN Detach(mgr, ses[s].ep) ELSE mgr)
  OBVIOUS
<1>8. PICK t : t = (IF a.res = "lost" THEN Invalidated(mgr, ses[s].ep) ELSE ses)
  OBVIOUS
<1>9. Lighter(k) /\ k.cleanup = mgr.cleanup
  <2>1. CASE a.res = "lost"
    <3>1. PICK e : e = ses[s].ep
      OBVIOUS
    <3>2. ~EpochCurrent(e) /\ k = Detach(mgr, e)
      BY <1>6, <1>7, <2>1, <3>1
    <3> QED
      BY <3>2, LighterDetach
  <2>2. CASE a.res # "lost"
    BY <1>7, <2>2, MgrIs DEF Lighter
  <2> QED
    BY <2>1, <2>2
<1>10. Fades(t)
  <2>1. CASE a.res = "lost"
    <3>1. PICK e : e = ses[s].ep
      OBVIOUS
    <3>2. ~EpochCurrent(e) /\ t = Invalidated(mgr, e)
      BY <1>6, <1>8, <2>1, <3>1
    <3> QED
      BY <3>2, InvalidatedFades
  <2>2. CASE a.res # "lost"
    BY <1>8, <2>2, SameFades
  <2> QED
    BY <2>1, <2>2
<1>11. PICK m : m = [k EXCEPT !.cleanup = {y \in @ : y.by # <<"ses", s>>}]
  OBVIOUS
<1>12. Lighter(m) /\ m.cleanup = {y \in mgr.cleanup : y.by # <<"ses", s>>}
  <2>1. /\ DOMAIN m = MgrFields /\ m.retiring = k.retiring /\ m.refused = k.refused
        /\ m.byRoute = k.byRoute /\ m.retired = k.retired /\ m.cleanup = {y \in k.cleanup : y.by # <<"ses", s>>}
    BY <1>9, <1>11 DEF Lighter, MgrFields
  <2> QED
    BY <1>9, <2>1 DEF Lighter, Holder
<1>13. PICK gone : gone = (Settled(a.res) \/ mgr.closed)
  OBVIOUS
<1>14. /\ calls' = calls \ {a}
       /\ mgr' = IF gone THEN Retire(m, s) ELSE m
       /\ ses' = IF gone THEN [t EXCEPT ![s].st = "closed", ![s].closing = FALSE] ELSE [t EXCEPT ![s].closing = FALSE]
  BY <1>2, <1>7, <1>8, <1>11, <1>13 DEF ClosedSes
<1>15. Lighter(mgr') /\ mgr'.cleanup = {y \in mgr.cleanup : y.by # <<"ses", s>>}
  <2>1. CASE gone
    <3>1. PICK n : n = Retire(m, s)
      OBVIOUS
    <3>2. Lighter(n) /\ n.cleanup = m.cleanup
      BY <1>12, <3>1, LighterRetire
    <3> QED
      BY <1>12, <1>14, <2>1, <3>1, <3>2
  <2>2. CASE ~gone
    BY <1>12, <1>14, <2>2
  <2> QED
    BY <2>1, <2>2
<1>16. RoutesLess
  BY <1>15 DEF RoutesLess, Lighter
<1>17. /\ DOMAIN ses' = DOMAIN ses /\ ses'[s].route = ses[s].route /\ ses'[s].ep = ses[s].ep
       /\ gone => ses'[s].st = "closed"
       /\ \A x \in DOMAIN ses \ {s} : ses'[x] = t[x]
  BY <1>3, <1>10, <1>14 DEF Fades, SesFields
<1>18. /\ SesStand
       /\ \A x \in DOMAIN ses \ {s} : /\ ses'[x].closing <=> ses[x].closing
                                      /\ ses'[x].st = "live" => ses[x].st = "live"
                                      /\ ses[x].st = "live" =>
                                            ses'[x].st = "live" \/ ~EpochCurrent(ses[x].ep) \/ GoneRoute(ses[x].route)
  BY <1>10, <1>17 DEF SesStand, Fades
<1>19. ~gone => ~EpochCurrent(ses[s].ep)
  BY <1>5, <1>6, <1>13 DEF Settled
<1>20. OwnersLess
  <2>1. ASSUME NEW x \in DOMAIN ses, Serves(x)' PROVE Serves(x)
    <3>1. CASE x = s
      BY <1>1, <1>3, <1>17, <1>19, <2>1, <3>1 DEF Serves, Routable, EpochCurrent
    <3>2. CASE x # s
      BY <1>1, <1>18, <2>1, <3>2 DEF Serves, Routable, EpochCurrent, SesStand
    <3> QED
      BY <3>1, <3>2
  <2> QED
    BY <1>1, <1>14, <1>17, <2>1 DEF OwnersLess, OwnersInv
<1>21. SeenMore
  <2>1. ASSUME NEW x \in DOMAIN ses, ses[x].closing \/ Routable(x)
        PROVE  \/ ses'[x].closing \/ Routable(x)'
               \/ ~EpochCurrent(ses[x].ep) \/ SeenElse(ses[x].route, ses[x].ep)
    <3>1. CASE x = s
      <4>1. ASSUME EpochCurrent(ses[s].ep) PROVE SeenElse(ses[s].route, ses[s].ep)
        <5>1. a.ep = ses[s].ep /\ a.res \in {"ok", "unknown"}
          BY <1>4, <1>5, <1>6, <4>1
        <5>2. ~Fallback(a)
          BY <1>2, <5>1 DEF Fallback
        <5>3. GoneRoute(ses[s].route)
          BY <1>4, <4>1, <5>1, <5>2 DEF SeenInv, CallTrue
        <5> QED
          BY <1>1, <5>3 DEF GoneRoute, SeenElse
      <4> QED
        BY <3>1, <4>1
    <3>2. CASE x # s
      <4>1. GoneRoute(ses[x].route) => SeenElse(ses[x].route, ses[x].ep)
        BY <1>1 DEF GoneRoute, SeenElse
      <4> QED
        BY <1>18, <2>1, <3>2, <4>1 DEF Routable
    <3> QED
      BY <3>1, <3>2
  <2>2. ASSUME NEW c \in calls, c.k = "open" PROVE c \in calls'
    BY <1>4, <1>14, <2>2
  <2>3. mgr'.refused = mgr.refused /\ mgr'.retiring = mgr.retiring /\ job' = job
    BY <1>1, <1>15 DEF Lighter
  <2> QED
    BY <2>1, <2>2, <2>3 DEF SeenMore
<1>22. ReplacesEdit /\ DrainsLess
  BY <1>1 DEF ReplacesEdit, DrainsLess
<1>23. ASSUME NEW c \in calls \ {a} PROVE OpsKeep(c) /\ JobsKeep(c) /\ SesKeep(c)
  <2>1. c.by # <<"ses", s>>
    BY <1>2, <1>23 DEF CallsInv
  <2>2. SesKeep(c)
    BY <1>15, <1>18, <2>1 DEF SesKeep
  <2>3. OpsKeep(c)
    BY <1>1, ByRec DEF OpsKeep
  <2>4. JobsKeep(c)
    BY <1>1 DEF JobsKeep
  <2> QED
    BY <2>2, <2>3, <2>4
<1>24. mgr'.retiring \subseteq mgr.retiring
  BY <1>15 DEF Lighter
<1>25. calls' = calls \ {a} /\ (a.k = "open" /\ a.res = "none" => a.ep = NotSent) /\ (a.res = "none" => ~Fallback(a))
  BY <1>2, <1>14
<1> QED
  BY <1>1, <1>16, <1>18, <1>20, <1>21, <1>22, <1>23, <1>24, <1>25, EndKeeps

-----------------------------------------------------------------------------
(***************************************************************************)
(* An acquisition publishes its route, or does not.                        *)
(***************************************************************************)

LEMMA RouteInstalled ==
    ASSUME NEW m, DOMAIN m = MgrFields, NEW j, NEW x, NEW b \in BOOLEAN, NEW k, k = Install(m, j, x, b)
    PROVE  /\ k.cleanup = m.cleanup /\ k.retiring = m.retiring /\ k.refused = m.refused /\ k.retired = m.retired
           /\ b => Holder(k, job[j].got[1]) = x
           /\ \A q : Holder(k, q) # None => Holder(k, q) = Holder(m, q) \/ (b /\ q = job[j].got[1])
<1>1. PICK w : w = IF job[j].ex # None THEN WithoutRoute(m, job[j].ex) ELSE m
  OBVIOUS
<1>2. /\ DOMAIN w = MgrFields /\ w.cleanup = m.cleanup /\ w.retiring = m.retiring
      /\ w.refused = m.refused /\ w.retired = m.retired
      /\ w.byRoute = m.byRoute \/ w.byRoute = [m.byRoute EXCEPT ![Route(job[j].ex)] = None]
  <2>1. CASE w = m
    BY <2>1
  <2>2. CASE w = [m EXCEPT !.byRoute[Route(job[j].ex)] = None]
    BY <2>2 DEF MgrFields
  <2> QED
    BY <1>1, <2>1, <2>2 DEF WithoutRoute
<1>3. PICK v : v = [w EXCEPT !.byChat[job[j].chat] = x]
  OBVIOUS
<1>4. /\ DOMAIN v = MgrFields /\ v.cleanup = w.cleanup /\ v.retiring = w.retiring
      /\ v.refused = w.refused /\ v.retired = w.retired /\ v.byRoute = w.byRoute
  BY <1>2, <1>3 DEF MgrFields
<1>5. k = IF b THEN WithRoute(v, job[j].got[1], x) ELSE v
  BY <1>1, <1>3 DEF Install
<1>6. \A q : Holder(v, q) # None => Holder(v, q) = Holder(m, q)
  BY <1>2, <1>4 DEF Holder
<1>7. CASE b
  <2>1. /\ k.cleanup = v.cleanup /\ k.retiring = v.retiring /\ k.refused = v.refused /\ k.retired = v.retired
        /\ k.byRoute = [n \in DOMAIN v.byRoute \cup {job[j].got[1]} |-> IF n = job[j].got[1] THEN x ELSE v.byRoute[n]]
    BY <1>4, <1>5, <1>7 DEF WithRoute, MgrFields
  <2>2. Holder(k, job[j].got[1]) = x
    BY <2>1 DEF Holder
  <2>3. \A q : q # job[j].got[1] => Holder(k, q) = Holder(v, q)
    BY <2>1 DEF Holder
  <2> QED
    BY <1>2, <1>4, <1>6, <1>7, <2>1, <2>2, <2>3
<1>8. CASE ~b
  BY <1>2, <1>4, <1>5, <1>6, <1>8
<1> QED
  BY <1>7, <1>8

\* What publication makes of the sessions
LEMMA SessionCreated ==
    ASSUME ManagerInv, NEW ex, NEW new, NEW s, s = Cardinality(DOMAIN ses) + 1, ses' = Created(ex, s, new)
    PROVE  /\ s \notin DOMAIN ses /\ s # None /\ DOMAIN ses' = DOMAIN ses \cup {s} /\ ses'[s] = new
           /\ \A x \in DOMAIN ses : /\ ses'[x].route = ses[x].route /\ ses'[x].ep = ses[x].ep
                                    /\ ses'[x].closing = ses[x].closing
                                    /\ ses'[x].st = (IF x = ex /\ ex # None THEN "closed" ELSE ses[x].st)
<1>1. PICK n \in Nat : DOMAIN ses = 1..n
  BY DEF ManagerInv, Shaped, SesShaped
<1>2. s = n + 1
  BY <1>1, FS_Interval
<1>3. PICK t : t = Retired(ex)
  OBVIOUS
<1>4. \A x \in DOMAIN ses : /\ t[x].route = ses[x].route /\ t[x].ep = ses[x].ep /\ t[x].closing = ses[x].closing
                            /\ t[x].st = (IF x = ex /\ ex # None THEN "closed" ELSE ses[x].st)
  BY <1>3, SesIs DEF Retired, SesFields
<1>5. ses' = [k \in 1..(n + 1) |-> IF k = n + 1 THEN new ELSE t[k]]
  BY <1>2, <1>3 DEF Created
<1>6. DOMAIN ses' = 1..(n + 1) /\ ses'[n + 1] = new
  BY <1>5
<1>7. \A x \in DOMAIN ses : x # s /\ ses'[x] = t[x]
  BY <1>1, <1>2, <1>5
<1>8. DOMAIN ses' = DOMAIN ses \cup {s} /\ s \notin DOMAIN ses /\ s # None
  <2>1. 1..(n + 1) = 1..n \cup {n + 1} /\ n + 1 \notin 1..n /\ n + 1 # 0
    OBVIOUS
  <2> QED
    BY <1>1, <1>2, <1>6, <2>1 DEF None
<1> QED
  BY <1>2, <1>4, <1>6, <1>7, <1>8

\* Session s takes the route of acquisition j, to serve its chat only if the
\* route may be published.
LEMMA Published ==
    ASSUME ManagerInv, RouteInv, NEW j \in Jobs, job[j].pc = "publish",
           NEW r, NEW e, r = job[j].got[1], e = job[j].got[2],
           UNCHANGED <<ops, calls, wire, eng, net, last>>,
           \A i \in Jobs \ {j} : job'[i] = job[i],
           job'[j].pc \in {"hydrate", "line", "done", "commit"},
           NEW s, s \notin DOMAIN ses, s # None, DOMAIN ses' = DOMAIN ses \cup {s},
           ses'[s].route = r, ses'[s].ep = e, ~ses'[s].closing,
           \A x \in DOMAIN ses : /\ ses'[x].route = ses[x].route /\ ses'[x].ep = ses[x].ep
                                 /\ ses'[x].closing = ses[x].closing
                                 /\ ses'[x].st = (IF x = job[j].ex /\ job[j].ex # None THEN "closed" ELSE ses[x].st),
           mgr'.cleanup = mgr.cleanup, mgr'.retiring = mgr.retiring, mgr'.retired = mgr.retired,
           mgr.refused \subseteq mgr'.refused,
           \A q : Holder(mgr', q) # None => Holder(mgr', q) = Holder(mgr, q)
                                            \/ (MayPublish(j) /\ q = r /\ Holder(mgr', q) = s),
           \/ MayPublish(j) /\ ses'[s].st = "live"
           \/ ~MayPublish(j) /\ ses'[s].st # "live" /\ [route |-> r, ep |-> e] \in mgr'.refused
    PROVE  RouteInv'
<1> USE DEF RouteInv
<1>1. SesStand /\ Steady
  BY NetSame DEF SesStand
<1>2. last \in Nat /\ last' = last
  BY DEF ManagerInv, Shaped
<1>3. \A f : EpochCurrent(f)' <=> EpochCurrent(f)
  BY DEF EpochCurrent
<1>4. MayPublish(j) => JobNow(j) /\ ~Cleaning(r) /\ [route |-> r, ep |-> net.ep] \notin mgr.retired
  BY DEF MayPublish, Blocked, EpochCurrent, JobNow, Carries
<1>5. \A x \in DOMAIN ses : x # s /\ (Serves(x)' => Serves(x))
  BY <1>3 DEF Serves, Routable
<1>6. CallsInv'
  <2>1. PICK A, D : A = {} /\ D = {}
    OBVIOUS
  <2>2. CallsEdit(A, D)
    BY <1>2, <2>1 DEF CallsEdit
  <2>3. ASSUME NEW c \in calls PROVE Waits(c)'
    <3>1. Waits(c)
      BY DEF CallsInv, CallOk
    <3>2. OpsKeep(c)
      BY ByRec DEF OpsKeep
    <3>3. JobsKeep(c)
      <4>1. ASSUME NEW i \in Jobs, c.by = <<"job", i>> PROVE job'[i] = job[i]
        <5>1. job[i].pc \in Asks
          BY <4>1, ByJob DEF JobWaits
        <5> QED
          BY <5>1 DEF Asks
      <4> QED
        BY <4>1 DEF JobsKeep
    <3>4. SesKeep(c)
      BY DEF SesKeep
    <3> QED
      BY <1>1, <3>1, <3>2, <3>3, <3>4, WaitsKept
  <2>4. \A c \in calls \ A : Waits(c)'
    BY <2>3
  <2> QED
    BY <1>1, <1>2, <2>2, <2>4, CallsStand
<1>7. \A i \in Jobs : JobNow(i)' => i # j /\ JobNow(i) /\ job'[i] = job[i]
  BY <1>3 DEF JobNow, Carries
<1>8. \A c : OkNow(c)' <=> OkNow(c)
  BY <1>3 DEF OkNow
<1>9. \A x \in DOMAIN ses : SesNow(x)' <=> SesNow(x)
  BY <1>3 DEF SesNow
<1>10. SesNow(s)' => JobNow(j)
  BY <1>3 DEF SesNow, JobNow, Carries
<1>11. OwnersInv'
  <2>1. \A q : Known(q)' <=> Known(q)
    BY DEF Known
  <2>2. DOMAIN eng' = EngFields /\ eng'.next \in Nat /\ \A x \in eng'.live : LiveKnown(x)'
    BY <2>1 DEF OwnersInv, LiveKnown
  <2>3. ASSUME NEW c \in calls' PROVE CallKnown(c)'
    <3>1. Fallback(c)' <=> Fallback(c)
      BY <1>1, FallbackSame
    <3> QED
      BY <1>3, <2>1, <3>1 DEF OwnersInv, CallKnown, OkNow
  <2>4. ASSUME NEW i \in Jobs PROVE JobKnown(i)'
    <3>1. CASE i # j
      BY <1>3, <2>1, <3>1 DEF OwnersInv, JobKnown, JobNow
    <3>2. CASE i = j
      BY <3>2 DEF JobKnown, Carries
    <3> QED
      BY <3>1, <3>2
  <2>5. ASSUME NEW x \in DOMAIN ses' PROVE SesKnown(x)'
    <3>1. CASE x # s
      BY <1>3, <2>1, <3>1 DEF OwnersInv, SesKnown, SesNow
    <3>2. CASE x = s
      <4>1. JobKnown(j)
        BY DEF OwnersInv
      <4>2. e \in Nat /\ e # NotSent /\ e <= net.ep /\ (JobNow(j) => Known(r))
        BY <4>1 DEF JobKnown, Carries
      <4> QED
        BY <1>10, <2>1, <3>2, <4>2 DEF SesKnown
    <3> QED
      BY <3>1, <3>2
  <2>6. \A c, d \in calls' : OkNow(c)' /\ OkNow(d)' /\ c.got[1] = d.got[1] => c = d
    BY <1>8 DEF OwnersInv
  <2>7. ASSUME NEW c \in calls', NEW i \in Jobs, OkNow(c)', JobNow(i)' PROVE c.got[1] # job'[i].got[1]
    BY <1>7, <1>8, <2>7 DEF OwnersInv
  <2>8. ASSUME NEW c \in calls', NEW x \in DOMAIN ses', OkNow(c)', SesNow(x)' PROVE c.got[1] # ses'[x].route
    <3>1. CASE x = s
      BY <1>8, <1>10, <2>8, <3>1 DEF OwnersInv
    <3>2. CASE x # s
      BY <1>8, <1>9, <2>8, <3>2 DEF OwnersInv
    <3> QED
      BY <3>1, <3>2
  <2>9. ASSUME NEW i \in Jobs, NEW k \in Jobs, JobNow(i)', JobNow(k)', job'[i].got[1] = job'[k].got[1] PROVE i = k
    BY <1>7, <2>9 DEF OwnersInv
  <2>10. ASSUME NEW i \in Jobs, NEW x \in DOMAIN ses', JobNow(i)', SesNow(x)' PROVE job'[i].got[1] # ses'[x].route
    <3>1. CASE x = s
      BY <1>7, <1>10, <2>10, <3>1 DEF OwnersInv
    <3>2. CASE x # s
      BY <1>7, <1>9, <2>10, <3>2 DEF OwnersInv
    <3> QED
      BY <3>1, <3>2
  <2>11. ASSUME NEW x \in DOMAIN ses', NEW y \in DOMAIN ses', SesNow(x)', SesNow(y)',
                ses'[x].route = ses'[y].route
         PROVE  x = y
    <3>1. ASSUME NEW z \in DOMAIN ses, SesNow(z)', SesNow(s)', ses'[z].route = ses'[s].route PROVE FALSE
      BY <1>9, <1>10, <3>1 DEF OwnersInv
    <3>2. CASE x # s /\ y # s
      BY <1>9, <2>11, <3>2 DEF OwnersInv
    <3> QED
      BY <2>11, <3>1, <3>2
  <2> QED
    BY <2>2, <2>3, <2>4, <2>5, <2>6, <2>7, <2>8, <2>9, <2>10, <2>11 DEF OwnersInv
<1>12. ASSUME NEW q, InUse(q)' PROVE InUse(q)
  <2>1. \A c \in calls' : OkNow(c)' => c \in calls /\ OkNow(c)
    BY <1>8
  <2>2. \A i \in Jobs : job'[i].pc = "publish" /\ JobNow(i)' =>
            job[i].pc = "publish" /\ JobNow(i) /\ job'[i].got = job[i].got
    BY <1>7
  <2>3. ASSUME NEW x \in DOMAIN ses', Serves(x)', ses'[x].route = q PROVE InUse(q)
    <3>1. CASE x = s
      <4>1. JobNow(j)
        BY <1>4, <2>3, <3>1 DEF Serves, Routable
      <4> QED
        BY <2>3, <3>1, <4>1 DEF InUse
    <3>2. CASE x # s
      BY <1>5, <2>3, <3>2 DEF InUse
    <3> QED
      BY <3>1, <3>2
  <2> QED
    BY <1>12, <2>1, <2>2, <2>3 DEF InUse
<1>13. HoldersKnown /\ HoldersKnown'
  <2>1. HoldersKnown
    BY DEF DoomsInv
  <2>2. ASSUME NEW q \in DOMAIN mgr'.byRoute, mgr'.byRoute[q] # None
        PROVE  mgr'.byRoute[q] \in DOMAIN ses' /\ ses'[mgr'.byRoute[q]].route = q
    <3>1. PICK h : h = mgr'.byRoute[q] /\ h = Holder(mgr', q)
      BY <2>2 DEF Holder
    <3>2. CASE h = Holder(mgr, q)
      <4>1. q \in DOMAIN mgr.byRoute /\ mgr.byRoute[q] = h
        BY <2>2, <3>1, <3>2 DEF Holder
      <4>2. h \in DOMAIN ses /\ ses[h].route = q
        BY <2>1, <2>2, <3>1, <4>1 DEF HoldersKnown
      <4> QED
        BY <3>1, <4>2
    <3>3. CASE q = r /\ h = s
      BY <3>1, <3>3
    <3> QED
      BY <2>2, <3>1, <3>2, <3>3
  <2> QED
    BY <2>1, <2>2 DEF HoldersKnown
<1>14. ASSUME NEW q, Unserved(q), MayPublish(j) => q # r PROVE Unserved(q)'
  <2>1. PICK h : h = Holder(mgr', q)
    OBVIOUS
  <2>2. CASE h # None
    <3>1. h = Holder(mgr, q)
      BY <1>14, <2>1, <2>2
    <3>2. h \in DOMAIN ses /\ ~Serves(h)
      BY <1>13, <1>14, <2>2, <3>1 DEF HoldersKnown, Holder, Unserved
    <3>3. ~Serves(h)'
      BY <1>5, <3>2
    <3> QED
      BY <2>1, <3>3 DEF Unserved, Holder, Serves, Routable, EpochCurrent
  <2>3. CASE h = None
    BY <2>1, <2>3 DEF Unserved, Holder
  <2> QED
    BY <2>2, <2>3
<1>15. DoomsInv'
  <2>1. ASSUME NEW q, Doomed(q) PROVE Doomed(q)'
    <3>1. [route |-> q, ep |-> net.ep] \in mgr.retired => (MayPublish(j) => q # r)
      BY <1>4
    <3> QED
      BY <1>12, <1>14, <2>1, <3>1 DEF Doomed, Known
  <2>2. ASSUME NEW c \in calls, CallSpares(c), c.k = "close", c.res = "none", Fallback(c)
        PROVE  Unserved(c.arg[1])'
    <3>1. PICK x \in DOMAIN ses : c.by = <<"ses", x>> /\ c.ep # ses[x].ep
      BY <2>2 DEF Fallback
    <3>2. SesWaits(x, c)
      BY <3>1, BySes
    <3>3. PICK q : q = c.arg[1] /\ q = ses[x].route /\ [route |-> q, by |-> c.by] \in mgr.cleanup
      BY <2>2, <3>1, <3>2 DEF SesWaits
    <3>4. MayPublish(j) => q # r
      BY <1>4, <3>3 DEF Cleaning
    <3>5. Unserved(q)
      BY <2>2, <3>3 DEF CallSpares
    <3>6. Unserved(q)'
      BY <1>14, <3>4, <3>5
    <3> QED
      BY <3>3, <3>6
  <2>3. DoomsEdit
    <3>1. \A i \in Jobs : job'[i].pc \in Drains => job'[i] = job[i]
      BY DEF Drains
    <3>2. \A i \in Jobs : job'[i].pc = "draining" => job'[i] = job[i]
      OBVIOUS
    <3> QED
      BY <3>1, <3>2 DEF DoomsEdit
  <2> QED
    BY <1>1, <1>13, <2>1, <2>2, <2>3, DoomsHold
<1>16. SeenInv'
  <2>1. SeenMore
    <3>1. SeenElse(r, e)
      <4>1. CASE MayPublish(j)
        BY <4>1 DEF SeenElse, SeenBy, Routable
      <4>2. CASE ~MayPublish(j)
        <5>1. PICK y \in mgr'.refused : y.route = r /\ y.ep = e
          BY <4>2
        <5> QED
          BY <5>1 DEF SeenElse, SeenBy
      <4> QED
        BY <4>1, <4>2
    <3>2. ASSUME NEW x \in DOMAIN ses, ses[x].closing \/ Routable(x)
          PROVE  ses'[x].closing \/ Routable(x)' \/ ~EpochCurrent(ses[x].ep)
      <4>1. CASE x = job[j].ex /\ job[j].ex # None
        <5>1. ~Serves(x)
          BY <4>1 DEF SeenInv, JobReplaces, Acquiring
        <5> QED
          BY <3>2, <5>1 DEF Serves, Routable
      <4>2. CASE ~(x = job[j].ex /\ job[j].ex # None)
        BY <3>2, <4>2 DEF Routable
      <4> QED
        BY <4>1, <4>2
    <3>3. \A i \in Jobs : job[i].pc \in Carries => i = j \/ job'[i] = job[i]
      OBVIOUS
    <3> QED
      BY <3>1, <3>2, <3>3 DEF SeenMore
  <2>2. ASSUME NEW i \in Jobs PROVE JobReplaces(i)' /\ JobSweeps(i)'
    <3>1. CASE i = j
      BY <3>1 DEF JobReplaces, JobSweeps, Sweeps, Acquiring
    <3>2. CASE i # j
      <4>1. job'[i] = job[i] /\ JobReplaces(i) /\ JobSweeps(i)
        BY <3>2 DEF SeenInv
      <4>2. JobSweeps(i)'
        BY <4>1 DEF JobSweeps
      <4>3. PICK x : x = job[i].ex
        OBVIOUS
      <4>4. ASSUME job[i].pc \in Acquiring, x # None PROVE x \in DOMAIN ses' /\ ~Serves(x)'
        BY <1>5, <4>1, <4>3, <4>4 DEF JobReplaces
      <4>5. JobReplaces(i)'
        BY <4>1, <4>3, <4>4 DEF JobReplaces, Serves, Routable, EpochCurrent
      <4> QED
        BY <4>2, <4>5
    <3> QED
      BY <3>1, <3>2
  <2> QED
    BY <1>1, <2>1, <2>2, SeenHold
<1> QED
  BY <1>6, <1>11, <1>15, <1>16

\* The acquisition goes on without the route.
LEMMA PublisherGoes ==
    ASSUME ManagerInv, NEW j \in Jobs, NEW ok, ok = TRUE,
           \/ \E x : job' = [job EXCEPT ![j].pc = "hydrate", ![j].s = x]
           \/ Finish(j, ok)
           \/ AgainOrOver(j)
    PROVE  /\ \A i \in Jobs \ {j} : job'[i] = job[i]
           /\ job'[j].pc \in {"hydrate", "line", "done", "commit"}
<1>1. ASSUME NEW f, job' = [job EXCEPT ![j] = Over(@, f)]
      PROVE  /\ \A i \in Jobs \ {j} : job'[i] = job[i]
             /\ job'[j].pc \in {"done", "commit"}
  <2>1. PICK r : r = Over(job[j], f)
    OBVIOUS
  <2>2. r.pc \in {"commit", "done"}
    BY <2>1, JobIs DEF Over, JobFields
  <2>3. job'[j] = r /\ \A i \in Jobs \ {j} : job'[i] = job[i]
    BY <1>1, <2>1, JobIs
  <2> QED
    BY <2>2, <2>3
<1>2. CASE \E x : job' = [job EXCEPT ![j].pc = "hydrate", ![j].s = x]
  <2>1. PICK x : job' = [job EXCEPT ![j].pc = "hydrate", ![j].s = x]
    BY <1>2
  <2>2. PICK r : r = [job[j] EXCEPT !.pc = "hydrate", !.s = x]
    OBVIOUS
  <2>3. job' = [job EXCEPT ![j] = r] /\ r.pc = "hydrate"
    BY <2>1, <2>2, JobIs DEF JobFields
  <2> QED
    BY <2>3, JobIs
<1>3. CASE Finish(j, ok)
  BY <1>1, <1>3 DEF Finish
<1>4. CASE job' = [job EXCEPT ![j].pc = "line", ![j].try = 2, ![j].only = TRUE, ![j].fresh = FALSE]
  BY <1>4, JobIs DEF JobFields
<1>5. CASE AgainOrOver(j) /\ ~(job' = [job EXCEPT ![j].pc = "line", ![j].try = 2, ![j].only = TRUE, ![j].fresh = FALSE])
  <2>1. PICK f : f = FALSE
    OBVIOUS
  <2>2. job' = [job EXCEPT ![j] = Over(@, f)]
    BY <1>5, <2>1 DEF AgainOrOver, Finish
  <2> QED
    BY <1>1, <2>2
<1> QED
  BY <1>2, <1>3, <1>4, <1>5

LEMMA PublishKeeps == ASSUME ManagerInv, RouteInv, NEW j \in Jobs, Publish(j) PROVE RouteInv'
<1>1. job[j].pc = "publish" /\ UNCHANGED <<ops, calls, wire, eng, net, last>>
  BY DEF Publish, Turn
<1>2. CASE Refuse(j)
  <2>1. PICK r : r = [job[j] EXCEPT !.pc = "discard"]
    OBVIOUS
  <2>2. job' = [job EXCEPT ![j] = r] /\ r.pc = "discard" /\ r.got = job[j].got
    BY <1>2, <2>1, JobIs DEF JobFields, Refuse
  <2>3. job'[j] = r /\ \A i \in Jobs \ {j} : job'[i] = job[i]
    BY <2>2, JobIs
  <2>4. QuietJob(j)
    BY <1>1, <2>2, <2>3 DEF QuietJob, Carries, Asks, Acquiring, Drains, Sweeps
  <2>5. \A i \in Jobs : QuietJob(i)
    BY <2>3, <2>4, SameQuiet
  <2> QED
    BY <1>1, <1>2, <2>5, JobKeeps DEF Refuse
<1>3. CASE ~Refuse(j)
  <2> DEFINE checked == job[j].kind # "media"
             z == Cardinality(DOMAIN ses) + 1
             fresh == [NewSes(job[j].chat, job[j].got[1], job[j].got[2], job[j].got[3], checked)
                          EXCEPT !.checked = checked, !.st = IF MayPublish(j) THEN "live" ELSE "resumable"]
             n == [mgr EXCEPT !.refused = @ \cup {[route |-> job[j].got[1], ep |-> fresh.ep]}]
  <2>1. PICK r, e : r = job[j].got[1] /\ e = job[j].got[2]
    OBVIOUS
  <2>2. /\ fresh.route = r /\ fresh.ep = e /\ fresh.closing = FALSE
        /\ fresh.st = (IF MayPublish(j) THEN "live" ELSE "resumable")
    BY <2>1 DEF NewSes
  <2>3. PICK s, new, m : s = z /\ new = fresh /\ m = n
    OBVIOUS
  <2>4. /\ new.route = r /\ new.ep = e /\ new.closing = FALSE
        /\ new.st = (IF MayPublish(j) THEN "live" ELSE "resumable")
    BY <2>2, <2>3
  <2>5. PICK y : y = [route |-> r, ep |-> e]
    OBVIOUS
  <2>6. m = [mgr EXCEPT !.refused = @ \cup {y}]
    BY <2>1, <2>2, <2>3, <2>5
  <2>7. \/ ~MayPublish(j) /\ ses' = ses /\ mgr' = m /\ AgainOrOver(j)
        \/ MayPublish(j) /\ ses' = Created(job[j].ex, s, new) /\ mgr' = Install(mgr, j, s, TRUE)
        \/ ~MayPublish(j) /\ ses' = Created(job[j].ex, s, new) /\ mgr' = Install(m, j, s, FALSE)
    BY <1>3, <2>3 DEF Publish, Created
  <2>8. /\ \A i \in Jobs \ {j} : job'[i] = job[i]
        /\ job'[j].pc \in {"hydrate", "line", "done", "commit"}
    <3>1. PICK ok : ok = TRUE
      OBVIOUS
    <3>2. \/ \E x : job' = [job EXCEPT ![j].pc = "hydrate", ![j].s = x]
          \/ Finish(j, ok)
          \/ AgainOrOver(j)
      BY <1>3, <3>1 DEF Publish
    <3> QED
      BY <3>1, <3>2, PublisherGoes
  <2> HIDE DEF z, fresh, n
  <2>9. DOMAIN mgr = MgrFields /\ DOMAIN m = MgrFields
    BY <2>6, MgrIs DEF MgrFields
  <2>10. /\ m.cleanup = mgr.cleanup /\ m.retiring = mgr.retiring /\ m.retired = mgr.retired
         /\ m.byRoute = mgr.byRoute /\ m.refused = mgr.refused \cup {y}
    BY <2>6, <2>9 DEF MgrFields
  <2>11. CASE ~MayPublish(j) /\ ses' = ses /\ mgr' = m /\ AgainOrOver(j)
    <3>1. QuietMgr
      BY <2>10, <2>11, MgrQuiet
    <3>2. SeenElse(r, e)
      BY <2>5, <2>10, <2>11 DEF SeenElse, SeenBy
    <3>3. \A i \in Jobs : QuietJob(i)
      BY <1>1, <2>1, <2>11, <3>2, AgainQuiet DEF Asks
    <3> QED
      BY <1>1, <2>11, <3>1, <3>3, SesQuiet, StillKeeps
  <2>12. CASE ses' = Created(job[j].ex, s, new)
    <3>1. PICK ex : ex = job[j].ex
      OBVIOUS
    <3>2. s = Cardinality(DOMAIN ses) + 1
      BY <2>3 DEF z
    <3>3. /\ s \notin DOMAIN ses /\ s # None /\ DOMAIN ses' = DOMAIN ses \cup {s} /\ ses'[s] = new
          /\ \A x \in DOMAIN ses : /\ ses'[x].route = ses[x].route /\ ses'[x].ep = ses[x].ep
                                   /\ ses'[x].closing = ses[x].closing
                                   /\ ses'[x].st = (IF x = ex /\ ex # None THEN "closed" ELSE ses[x].st)
      BY <2>12, <3>1, <3>2, SessionCreated
    <3>4. CASE MayPublish(j)
      <4>1. PICK b \in BOOLEAN : b = TRUE
        OBVIOUS
      <4>0. mgr' = Install(mgr, j, s, TRUE)
        BY <2>7, <3>4
      <4>2. PICK g, k : g = mgr /\ k = Install(g, j, s, b) /\ mgr' = k
        BY <4>0, <4>1, Zenon
      <4>3. /\ k.cleanup = g.cleanup /\ k.retiring = g.retiring /\ k.refused = g.refused /\ k.retired = g.retired
            /\ b => Holder(k, job[j].got[1]) = s
            /\ \A q : Holder(k, q) # None => Holder(k, q) = Holder(g, q) \/ (b /\ q = job[j].got[1])
        <5>1. DOMAIN g = MgrFields /\ k = Install(g, j, s, b)
          BY <2>9, <4>2
        <5> HIDE <4>1
        <5> QED
          BY <5>1, RouteInstalled
      <4>8. /\ Holder(k, r) = s
            /\ \A q : Holder(k, q) # None => Holder(k, q) = Holder(g, q) \/ (q = r /\ Holder(k, q) = s)
        BY <2>1, <4>1, <4>3
      <4>4. /\ mgr'.cleanup = mgr.cleanup /\ mgr'.retiring = mgr.retiring /\ mgr'.retired = mgr.retired
            /\ mgr.refused \subseteq mgr'.refused
            /\ \A q : Holder(mgr', q) # None => Holder(mgr', q) = Holder(mgr, q)
                                                \/ (MayPublish(j) /\ q = r /\ Holder(mgr', q) = s)
        BY <3>4, <4>2, <4>3, <4>8
      <4>5. ses'[s].route = r /\ ses'[s].ep = e /\ ~ses'[s].closing /\ ses'[s].st = "live"
        BY <2>4, <3>3, <3>4
      <4>6. \/ MayPublish(j) /\ ses'[s].st = "live"
            \/ ~MayPublish(j) /\ ses'[s].st # "live" /\ [route |-> r, ep |-> e] \in mgr'.refused
        BY <3>4, <4>5
      <4>7. \A x \in DOMAIN ses : /\ ses'[x].route = ses[x].route /\ ses'[x].ep = ses[x].ep
                                   /\ ses'[x].closing = ses[x].closing
                                   /\ ses'[x].st = (IF x = job[j].ex /\ job[j].ex # None THEN "closed" ELSE ses[x].st)
        BY <3>1, <3>3
      <4>9. s \notin DOMAIN ses /\ s # None /\ DOMAIN ses' = DOMAIN ses \cup {s}
        BY <3>3
      <4> QED
        BY <1>1, <2>1, <2>5, <2>8, <4>4, <4>5, <4>6, <4>7, <4>9, Published
    <3>5. CASE ~MayPublish(j)
      <4>1. PICK b \in BOOLEAN : b = FALSE
        OBVIOUS
      <4>2. CASE mgr' = Install(m, j, s, FALSE)
        <5>1. PICK k : k = Install(m, j, s, b) /\ mgr' = k
          BY <4>1, <4>2
        <5>2. /\ k.cleanup = m.cleanup /\ k.retiring = m.retiring /\ k.refused = m.refused /\ k.retired = m.retired
              /\ \A q : Holder(k, q) # None => Holder(k, q) = Holder(m, q)
          BY <2>9, <4>1, <5>1, RouteInstalled
        <5>3. \A q : Holder(m, q) = Holder(mgr, q)
          BY <2>10 DEF Holder
        <5>4. /\ mgr'.cleanup = mgr.cleanup /\ mgr'.retiring = mgr.retiring /\ mgr'.retired = mgr.retired
              /\ mgr.refused \subseteq mgr'.refused /\ y \in mgr'.refused
              /\ \A q : Holder(mgr', q) # None => Holder(mgr', q) = Holder(mgr, q)
                                                  \/ (MayPublish(j) /\ q = r /\ Holder(mgr', q) = s)
          BY <2>10, <5>1, <5>2, <5>3
        <5>5. ses'[s].route = r /\ ses'[s].ep = e /\ ~ses'[s].closing /\ ses'[s].st # "live"
          BY <2>4, <3>3, <3>5
        <5> QED
          BY <1>1, <2>1, <2>5, <2>8, <3>1, <3>3, <3>5, <5>4, <5>5, Published
      <4> QED
        BY <2>7, <2>11, <3>5, <4>2
    <3> QED
      BY <3>4, <3>5
  <2> QED
    BY <2>7, <2>11, <2>12
<1> QED
  BY <1>2, <1>3

-----------------------------------------------------------------------------
(***************************************************************************)
(* The engine answers, the connection breaks: calls get their results.     *)
(***************************************************************************)

\* f is what becomes of the calls.
Mapped(f) ==
    /\ calls' = {f[c] : c \in calls}
    /\ \A c \in calls :
        /\ DOMAIN f[c] = CallFields
        /\ f[c].id = c.id /\ f[c].k = c.k /\ f[c].chat = c.chat /\ f[c].arg = c.arg
        /\ f[c].by = c.by /\ f[c].ep = c.ep
        /\ f[c] # c => c.res = "none"

LEMMA WaitsMapped ==
    ASSUME CallsInv, UNCHANGED <<mgr, ses, job, ops>>, NEW c \in calls, NEW d,
           d.k = c.k, d.arg = c.arg, d.by = c.by, d.ep = c.ep, d # c => c.res = "none",
           \A s \in DOMAIN ses : ~EpochCurrent(ses[s].ep) => ~EpochCurrent(ses[s].ep)'
    PROVE  Waits(d)'
<1>1. Waits(c)
  BY DEF CallsInv, CallOk
<1>2. ASSUME NEW o \in ops, OpWaits(o, c) \/ RecWaits(o, c) PROVE (OpWaits(o, d) \/ RecWaits(o, d))'
  BY <1>2 DEF OpWaits, RecWaits, By, Rec
<1>3. ASSUME NEW j \in Jobs, JobWaits(j, c) PROVE JobWaits(j, d)'
  BY <1>3 DEF JobWaits
<1>4. ASSUME NEW s \in DOMAIN ses, SesWaits(s, c) PROVE SesWaits(s, d)'
  <2>1. d.res = "none" => c.res = "none"
    OBVIOUS
  <2>2. ~EpochCurrent(ses[s].ep) => ~EpochCurrent(ses[s].ep)'
    OBVIOUS
  <2> QED
    BY <1>4, <2>1, <2>2 DEF SesWaits
<1> QED
  BY <1>1, <1>2, <1>3, <1>4 DEF Waits

LEMMA CallsMapped ==
    ASSUME ManagerInv, CallsInv, UNCHANGED <<mgr, ses, job, ops, last>>, NEW f, Mapped(f), wire' \subseteq wire,
           DOMAIN net' = NetFields, net'.ep \in Nat, net.ep <= net'.ep,
           \A c \in calls : f[c].res = "lost" => ~EpochCurrent(c.ep)',
           \A c \in calls : c.ep = NotSent => f[c].res \in {"none", "lost"} /\ f[c].got = <<>>,
           \A c \in calls : c.k = "close" => f[c].res \in {"none", "ok", "unknown", "lost"},
           \A s \in DOMAIN ses : ~EpochCurrent(ses[s].ep) => ~EpochCurrent(ses[s].ep)',
           \A w \in wire' : w.k = "open" /\ EpochCurrent(w.ep)' => \E c \in calls : c.id = w.id /\ f[c].res = "none"
    PROVE  CallsInv'
<1>1. last \in Nat
  BY DEF ManagerInv, Shaped
<1>2. ASSUME NEW c \in calls PROVE CallOk(f[c])'
  <2>1. PICK d : d = f[c]
    OBVIOUS
  <2>2. /\ DOMAIN d = CallFields /\ d.id = c.id /\ d.k = c.k /\ d.arg = c.arg /\ d.by = c.by /\ d.ep = c.ep
        /\ d # c => c.res = "none"
    BY <2>1 DEF Mapped
  <2>3. Waits(d)'
    BY <2>2, WaitsMapped
  <2>4. CallOk(c)
    BY DEF CallsInv
  <2>5. d.k = "close" /\ d.ep = NotSent => Fallback(d)'
    BY <2>2, <2>4 DEF CallOk, Fallback
  <2>6. d.ep \in Nat /\ d.ep <= net'.ep /\ d.id \in Nat /\ d.id <= last'
    BY <1>1, <2>2, <2>4 DEF CallOk, CallsInv
  <2>7. /\ d.res = "lost" => ~EpochCurrent(d.ep)'
        /\ d.ep = NotSent => d.res \in {"none", "lost"} /\ d.got = <<>>
        /\ d.k = "close" => d.res \in {"none", "ok", "unknown", "lost"}
    BY <2>1, <2>2
  <2>8. CallOk(d)'
    BY <2>2, <2>3, <2>5, <2>6, <2>7 DEF CallOk
  <2> QED
    BY <2>1, <2>8
<1>3. \A d \in calls' : CallOk(d)'
  BY <1>2 DEF Mapped
<1>4. ASSUME NEW d \in calls', NEW e \in calls', d.id = e.id \/ d.by = e.by PROVE d = e
  <2>1. PICK b \in calls, c \in calls : d = f[b] /\ e = f[c]
    BY DEF Mapped
  <2>2. b.id = c.id \/ b.by = c.by
    BY <1>4, <2>1 DEF Mapped
  <2> QED
    BY <2>1, <2>2 DEF CallsInv
<1>5. ASSUME NEW w \in wire' PROVE WireOk(w)'
  <2>1. WireOk(w)
    BY DEF CallsInv
  <2>2. ASSUME NEW d \in calls', w.id = d.id PROVE w = Req(d)
    <3>1. PICK c \in calls : d = f[c]
      BY DEF Mapped
    <3>2. w = Req(c) /\ Req(d) = Req(c)
      BY <2>1, <2>2, <3>1 DEF WireOk, Mapped, Req
    <3> QED
      BY <3>2
  <2>3. w.k = "open" /\ EpochCurrent(w.ep)' => \E d \in calls' : d.id = w.id /\ d.res = "none"
    BY DEF Mapped
  <2>4. w.id \in Nat /\ w.id <= last' /\ w.ep \in Nat /\ w.ep # NotSent /\ w.ep <= net'.ep
    BY <2>1 DEF WireOk, CallsInv
  <2> QED
    BY <2>2, <2>3, <2>4 DEF WireOk
<1>6. net'.ep # NotSent
  BY DEF CallsInv, NotSent
<1> QED
  BY <1>3, <1>4, <1>5, <1>6 DEF CallsInv

\* No connection carries what the last one carried.
LEMMA CutKeeps ==
    ASSUME ManagerInv, RouteInv, UNCHANGED <<mgr, ses, job, ops, last>>, NEW f, Mapped(f), wire' \subseteq wire,
           DOMAIN net' = NetFields, net'.ep \in Nat, net.ep <= net'.ep,
           \A e \in Nat : e <= net.ep => ~EpochCurrent(e)',
           \A c \in calls : f[c] # c => f[c].res = "lost" /\ c.ep # NotSent,
           (eng' = eng) \/ (eng'.live = {} /\ eng'.next = 0 /\ DOMAIN eng' = EngFields)
    PROVE  RouteInv'
<1> USE DEF RouteInv
<1>1. ASSUME NEW c \in calls PROVE ~EpochCurrent(c.ep)'
  BY DEF CallsInv, CallOk
<1>2. ASSUME NEW s \in DOMAIN ses
      PROVE  /\ ses'[s] = ses[s] /\ ~EpochCurrent(ses[s].ep)'
             /\ ses[s].ep \in Nat /\ ses[s].ep # NotSent /\ ses[s].ep <= net'.ep
  <2>1. SesKnown(s)
    BY DEF OwnersInv
  <2>2. PICK e : e = ses[s].ep
    OBVIOUS
  <2>3. ~EpochCurrent(e)' /\ e <= net'.ep
    BY <2>1, <2>2 DEF SesKnown, CallsInv
  <2> QED
    BY <2>1, <2>2, <2>3 DEF SesKnown, EpochCurrent
<1>3. CallsInv'
  <2>1. ASSUME NEW c \in calls
        PROVE  /\ f[c].res = "lost" => ~EpochCurrent(c.ep)'
               /\ c.ep = NotSent => f[c].res \in {"none", "lost"} /\ f[c].got = <<>>
               /\ c.k = "close" => f[c].res \in {"none", "ok", "unknown", "lost"}
    BY <1>1 DEF CallsInv, CallOk
  <2>2. ASSUME NEW w \in wire' PROVE ~EpochCurrent(w.ep)'
    BY DEF CallsInv, WireOk
  <2>3. \A s \in DOMAIN ses : ~EpochCurrent(ses[s].ep) => ~EpochCurrent(ses[s].ep)'
    BY <1>2
  <2> QED
    BY <2>1, <2>2, <2>3, CallsMapped
<1>4. ASSUME NEW d \in calls' PROVE ~EpochCurrent(d.ep)'
  BY <1>1 DEF Mapped
<1>5. ASSUME NEW j \in Jobs PROVE ~JobNow(j)'
  <2>1. JobKnown(j)
    BY DEF OwnersInv
  <2>2. PICK e : e = job[j].got[2]
    OBVIOUS
  <2>3. job[j].pc \in Carries => ~EpochCurrent(e)'
    BY <2>1, <2>2 DEF JobKnown
  <2> QED
    BY <2>2, <2>3 DEF JobNow, EpochCurrent
<1>6. ASSUME NEW s \in DOMAIN ses' PROVE ~SesNow(s)' /\ ~Serves(s)'
  <2>1. s \in DOMAIN ses
    OBVIOUS
  <2>2. ~EpochCurrent(ses[s].ep)'
    BY <1>2, <2>1
  <2> QED
    BY <2>2 DEF SesNow, Serves
<1>7. OwnersInv'
  <2>1. DOMAIN eng' = EngFields /\ eng'.next \in Nat
    BY DEF OwnersInv
  <2>2. ASSUME NEW x \in eng'.live PROVE LiveKnown(x)'
    <3>1. eng' = eng /\ LiveKnown(x)
      BY DEF OwnersInv
    <3> QED
      BY <3>1 DEF LiveKnown, Known, CallsInv
  <2>3. ASSUME NEW c \in calls' PROVE CallKnown(c)' /\ ~OkNow(c)'
    BY <1>4 DEF CallKnown, OkNow
  <2>4. ASSUME NEW j \in Jobs PROVE JobKnown(j)'
    <3>1. JobKnown(j)
      BY DEF OwnersInv
    <3>2. PICK e : e = job[j].got[2]
      OBVIOUS
    <3>3. job[j].pc \in Carries => e \in Nat /\ e # NotSent /\ e <= net'.ep
      BY <3>1, <3>2 DEF JobKnown, CallsInv
    <3> QED
      BY <1>5, <3>2, <3>3 DEF JobKnown
  <2>5. ASSUME NEW s \in DOMAIN ses' PROVE SesKnown(s)'
    BY <1>2, <1>6 DEF SesKnown
  <2> QED
    BY <1>5, <1>6, <2>1, <2>2, <2>3, <2>4, <2>5 DEF OwnersInv
<1>8. ASSUME NEW x, DoomedAt(x) PROVE DoomedAt(x)'
  BY <1>8 DEF DoomedAt, CallsInv
<1>9. \A r \in DOMAIN mgr'.byRoute : mgr'.byRoute[r] # None => mgr'.byRoute[r] \in DOMAIN ses'
  BY DEF DoomsInv, HoldersKnown
<1>10. \A r : Unserved(r)'
  <2>1. ASSUME NEW r, Holder(mgr', r) # None PROVE Holder(mgr', r) \in DOMAIN ses'
    BY <1>9, <2>1 DEF Holder
  <2>2. ASSUME NEW r PROVE Unserved(r)'
    <3>1. PICK h : h = Holder(mgr', r)
      OBVIOUS
    <3>2. h # None => ~Serves(h)'
      BY <1>6, <2>1, <3>1
    <3> QED
      BY <3>1, <3>2 DEF Unserved, Holder, Serves, Routable, EpochCurrent
  <2> QED
    BY <2>2
<1>11. DoomsInv'
  <2>1. HoldersKnown'
    BY DEF DoomsInv, HoldersKnown
  <2>2. \A x \in mgr'.retiring : DoomedAt(x)'
    BY <1>8 DEF DoomsInv
  <2>3. ASSUME NEW j \in Jobs PROVE JobDoomed(j)'
    <3>1. JobDoomed(j) /\ job' = job
      BY DEF DoomsInv
    <3>2. PICK x : x = job[j].got[1]
      OBVIOUS
    <3>3. job[j].pc = "draining" => DoomedAt(x)'
      BY <1>8, <3>1, <3>2 DEF JobDoomed
    <3>4. job[j].pc \in Drains => \A y \in job[j].rs : DoomedAt(y)'
      BY <1>8, <3>1 DEF JobDoomed
    <3> QED
      BY <3>1, <3>2, <3>3, <3>4 DEF JobDoomed, DoomedAt
  <2>4. ASSUME NEW w \in wire' PROVE WireDoomed(w)'
    BY DEF WireDoomed, CallsInv, WireOk
  <2>5. ASSUME NEW c \in calls' PROVE CallSpares(c)'
    BY <1>10 DEF CallSpares
  <2> QED
    BY <2>1, <2>2, <2>3, <2>4, <2>5 DEF DoomsInv
<1>12. SeenInv'
  <2>1. eng'.live \subseteq eng.live
    OBVIOUS
  <2>2. ASSUME NEW x \in eng'.live PROVE ~EpochCurrent(x.ep)'
    BY <2>1 DEF OwnersInv, LiveKnown
  <2>3. ASSUME NEW c \in calls' PROVE CallTrue(c)'
    BY <1>4 DEF CallTrue
  <2>4. ASSUME NEW j \in Jobs PROVE JobReplaces(j)' /\ JobSweeps(j)'
    <3>1. JobReplaces(j) /\ JobSweeps(j)
      BY DEF SeenInv
    <3>2. PICK x : x = job[j].ex
      OBVIOUS
    <3>3. job[j].pc \in Acquiring /\ x # None => x \in DOMAIN ses' /\ ~Serves(x)'
      BY <1>6, <3>1, <3>2 DEF JobReplaces
    <3>4. JobReplaces(j)'
      BY <3>2, <3>3 DEF JobReplaces, Serves, Routable, EpochCurrent
    <3>5. JobSweeps(j)'
      BY <3>1 DEF JobSweeps
    <3> QED
      BY <3>4, <3>5
  <2> QED
    BY <2>1, <2>2, <2>3, <2>4 DEF SeenInv
<1> QED
  BY <1>3, <1>7, <1>11, <1>12

LEMMA LoseKeeps == ASSUME ManagerInv, RouteInv, Lose \/ Restart PROVE RouteInv'
<1>1. PICK b \in BOOLEAN : Down(b)
  BY DEF Lose, Restart
<1>2. /\ net.up /\ net' = [net EXCEPT !.up = FALSE] /\ UNCHANGED <<mgr, ses, job, ops, last>>
      /\ calls' = {IF c.res = "none" /\ c.ep = net.ep THEN [c EXCEPT !.res = "lost"] ELSE c : c \in calls}
      /\ wire' \subseteq wire /\ (eng' = eng \/ eng' = [live |-> {}, next |-> 0])
  <2>1. CASE b
    BY <1>1, <2>1 DEF Down
  <2>2. CASE ~b
    BY <1>1, <2>2 DEF Down
  <2> QED
    BY <2>1, <2>2
<1>3. PICK f : f = [c \in calls |-> IF c.res = "none" /\ c.ep = net.ep THEN [c EXCEPT !.res = "lost"] ELSE c]
  OBVIOUS
<1>4. ASSUME NEW c \in calls
      PROVE  /\ DOMAIN f[c] = CallFields
             /\ f[c].id = c.id /\ f[c].k = c.k /\ f[c].chat = c.chat /\ f[c].arg = c.arg
             /\ f[c].by = c.by /\ f[c].ep = c.ep
             /\ f[c] # c => c.res = "none" /\ f[c].res = "lost" /\ c.ep = net.ep
  <2>1. DOMAIN c = CallFields
    BY DEF RouteInv, CallsInv, CallOk
  <2> QED
    BY <1>3, <2>1 DEF CallFields
<1>5. Mapped(f)
  <2>1. calls' = {f[c] : c \in calls}
    BY <1>2, <1>3
  <2> QED
    BY <1>4, <2>1 DEF Mapped
<1>6. /\ DOMAIN net' = NetFields /\ net'.ep = net.ep /\ net'.up = FALSE
      /\ net.ep \in Nat /\ net.ep # NotSent
  BY <1>2 DEF RouteInv, CallsInv, NetFields
<1>7. \A e \in Nat : e <= net.ep => ~EpochCurrent(e)'
  BY <1>6 DEF EpochCurrent
<1>8. (eng' = eng) \/ (eng'.live = {} /\ eng'.next = 0 /\ DOMAIN eng' = EngFields)
  BY <1>2 DEF EngFields
<1>9. \A c \in calls : f[c] # c => f[c].res = "lost" /\ c.ep # NotSent
  BY <1>4, <1>6
<1> QED
  BY <1>2, <1>5, <1>6, <1>7, <1>8, <1>9, CutKeeps

LEMMA ReconnectKeeps == ASSUME ManagerInv, RouteInv, Reconnect PROVE RouteInv'
<1>1. PICK f : f = [c \in calls |-> c]
  OBVIOUS
<1>2. Mapped(f)
  <2>1. calls' = {f[c] : c \in calls}
    BY <1>1 DEF Reconnect
  <2>2. \A c \in calls : DOMAIN c = CallFields
    BY DEF RouteInv, CallsInv, CallOk
  <2> QED
    BY <1>1, <2>1, <2>2 DEF Mapped
<1>3. net.ep \in Nat /\ DOMAIN net' = NetFields /\ net'.ep = net.ep + 1
  BY DEF Reconnect, RouteInv, CallsInv, NetFields
<1>4. \A e \in Nat : e <= net.ep => ~EpochCurrent(e)'
  BY <1>3 DEF EpochCurrent
<1> QED
  BY <1>1, <1>2, <1>3, <1>4, CutKeeps DEF Reconnect

\* The engine handles request w: res and got are its answer.
EngineDoes(w, res, got) ==
    /\ UNCHANGED <<mgr, ses, job, ops, net, last>> /\ wire' = wire \ {w}
    /\ res \in {"ok", "unknown", "in_use", "error"} /\ (w.k = "close" => res \in {"ok", "unknown"})
    /\ DOMAIN eng' = EngFields /\ eng'.next \in Nat /\ eng.next <= eng'.next
    /\ \A x \in eng'.live \ eng.live :
          w.k = "open" /\ res = "ok" /\ x.ep = w.ep /\ x.route = eng'.next
    /\ \A x, y \in eng'.live \ eng.live : x = y
    /\ w.k = "open" /\ res = "ok" => got[1] = eng'.next /\ eng.next < eng'.next
    /\ w.k = "list" => \A n \in DOMAIN got : Known(got[n])
    /\ w.k = "close" => eng'.live \subseteq eng.live /\ \A x \in eng'.live : <<x.route>> # w.arg

LEMMA Replied ==
    ASSUME CallsInv, NEW w \in wire, NEW res, NEW got, Reply(w, res, got)
    PROVE  \E f : /\ Mapped(f)
                  /\ \A c \in calls : \/ f[c] = c /\ ~(c.id = w.id /\ c.res = "none" /\ EpochCurrent(w.ep))
                                      \/ /\ c.id = w.id /\ w = Req(c) /\ c.res = "none" /\ EpochCurrent(w.ep)
                                         /\ f[c].res = res /\ f[c].got = got
<1>1. PICK f : f = [c \in calls |-> IF c.id = w.id /\ c.res = "none" /\ EpochCurrent(w.ep)
                                    THEN [c EXCEPT !.res = res, !.got = got] ELSE c]
  OBVIOUS
<1>2. calls' = {f[c] : c \in calls}
  BY <1>1 DEF Reply
<1>3. ASSUME NEW c \in calls, c.id = w.id, c.res = "none", EpochCurrent(w.ep)
      PROVE  /\ f[c] = [c EXCEPT !.res = res, !.got = got] /\ DOMAIN c = CallFields /\ w = Req(c)
  BY <1>1, <1>3 DEF CallsInv, CallOk, WireOk
<1>4. ASSUME NEW c \in calls
      PROVE  /\ DOMAIN f[c] = CallFields
             /\ f[c].id = c.id /\ f[c].k = c.k /\ f[c].chat = c.chat /\ f[c].arg = c.arg
             /\ f[c].by = c.by /\ f[c].ep = c.ep
             /\ \/ f[c] = c /\ ~(c.id = w.id /\ c.res = "none" /\ EpochCurrent(w.ep))
                \/ /\ c.id = w.id /\ w = Req(c) /\ c.res = "none" /\ EpochCurrent(w.ep)
                   /\ f[c].res = res /\ f[c].got = got
  <2>1. CASE c.id = w.id /\ c.res = "none" /\ EpochCurrent(w.ep)
    BY <1>3, <2>1 DEF CallFields
  <2>2. CASE ~(c.id = w.id /\ c.res = "none" /\ EpochCurrent(w.ep))
    <3>1. f[c] = c
      BY <1>1, <2>2
    <3> QED
      BY <2>2, <3>1 DEF CallsInv, CallOk
  <2> QED
    BY <2>1, <2>2
<1> QED
  BY <1>2, <1>4 DEF Mapped

LEMMA EngineAnswers ==
    ASSUME ManagerInv, RouteInv, NEW w \in wire, NEW res, NEW got, EngineDoes(w, res, got), Reply(w, res, got)
    PROVE  RouteInv'
<1> USE DEF RouteInv
<1>1. PICK f : /\ Mapped(f)
               /\ \A c \in calls : \/ f[c] = c /\ ~(c.id = w.id /\ c.res = "none" /\ EpochCurrent(w.ep))
                                   \/ /\ c.id = w.id /\ w = Req(c) /\ c.res = "none" /\ EpochCurrent(w.ep)
                                      /\ f[c].res = res /\ f[c].got = got
  BY Replied
<1>2. WireOk(w) /\ \A e : EpochCurrent(e)' <=> EpochCurrent(e)
  BY DEF CallsInv, EngineDoes, EpochCurrent
<1>3. /\ UNCHANGED <<mgr, ses, job, ops, net, last>> /\ wire' = wire \ {w}
      /\ DOMAIN eng' = EngFields /\ eng'.next \in Nat /\ eng.next <= eng'.next
  BY DEF EngineDoes
<1>4. ASSUME NEW c \in calls, f[c] # c PROVE w.k = c.k /\ w.arg = c.arg /\ w.ep = c.ep /\ c.ep # NotSent
  BY <1>1, <1>2, <1>4 DEF WireOk, Req
<1>5. CallsInv'
  <2>1. DOMAIN net' = NetFields /\ net'.ep \in Nat /\ net.ep <= net'.ep
    BY <1>3 DEF CallsInv
  <2>2. ASSUME NEW c \in calls
        PROVE  /\ f[c].res = "lost" => ~EpochCurrent(c.ep)'
               /\ c.ep = NotSent => f[c].res \in {"none", "lost"} /\ f[c].got = <<>>
               /\ c.k = "close" => f[c].res \in {"none", "ok", "unknown", "lost"}
    <3>1. CASE f[c] = c
      BY <1>2, <3>1 DEF CallsInv, CallOk
    <3>2. CASE f[c] # c
      BY <1>1, <1>4, <3>2 DEF EngineDoes
    <3> QED
      BY <3>1, <3>2
  <2>3. \A s \in DOMAIN ses : ~EpochCurrent(ses[s].ep) => ~EpochCurrent(ses[s].ep)'
    BY <1>3 DEF EpochCurrent
  <2>4. ASSUME NEW v \in wire', v.k = "open", EpochCurrent(v.ep)'
        PROVE  \E c \in calls : c.id = v.id /\ f[c].res = "none"
    <3>1. WireOk(v) /\ v # w /\ EpochCurrent(v.ep)
      BY <1>2, <1>3, <2>4 DEF CallsInv
    <3>2. PICK c \in calls : c.id = v.id /\ c.res = "none" /\ v = Req(c)
      BY <2>4, <3>1 DEF WireOk
    <3>3. f[c] = c
      BY <1>1, <3>1, <3>2
    <3> QED
      BY <3>2, <3>3
  <2> QED
    BY <1>1, <1>3, <2>1, <2>2, <2>3, <2>4, CallsMapped
<1>6. ASSUME NEW q, Known(q) PROVE Known(q)' /\ (eng.next < eng'.next => q # eng'.next)
  BY <1>3, <1>6 DEF Known, OwnersInv
<1>7. ASSUME NEW c \in calls PROVE /\ Fallback(f[c])' <=> Fallback(c)
                                   /\ f[c].k = c.k /\ f[c].ep = c.ep /\ f[c].arg = c.arg /\ f[c].id = c.id
  BY <1>1, <1>3 DEF Mapped, Fallback
<1>8. ASSUME NEW d \in calls', OkNow(d)'
      PROVE  \/ d \in calls /\ OkNow(d) /\ Known(d.got[1])
             \/ d.id = w.id /\ d.got[1] = eng'.next /\ eng.next < eng'.next
  <2>1. PICK c \in calls : d = f[c]
    BY <1>1 DEF Mapped
  <2>2. CASE d = c
    BY <1>2, <1>8, <2>1, <2>2 DEF OkNow, OwnersInv, CallKnown
  <2>3. CASE d # c
    <3>1. c.k = "open" /\ d.res = "ok" /\ d.id = c.id
      BY <1>7, <1>8, <2>1 DEF OkNow
    <3>2. c.id = w.id /\ w.k = "open" /\ res = "ok" /\ d.got = got
      BY <1>1, <1>4, <2>1, <2>3, <3>1
    <3> QED
      BY <3>1, <3>2 DEF EngineDoes
  <2> QED
    BY <2>2, <2>3
<1>9. ASSUME NEW j \in Jobs PROVE (JobNow(j)' <=> JobNow(j)) /\ job'[j] = job[j] /\ (JobNow(j) => Known(job[j].got[1]))
  BY <1>3 DEF JobNow, EpochCurrent, OwnersInv, JobKnown
<1>10. ASSUME NEW s \in DOMAIN ses
       PROVE  /\ ses'[s] = ses[s] /\ (SesNow(s)' <=> SesNow(s)) /\ (Serves(s)' <=> Serves(s))
              /\ SesNow(s) => Known(ses[s].route)
  BY <1>3 DEF SesNow, Serves, Routable, EpochCurrent, OwnersInv, SesKnown
<1>11. DOMAIN ses' = DOMAIN ses
  BY <1>3
<1>12. OwnersInv'
  <2>1. ASSUME NEW x \in eng'.live PROVE LiveKnown(x)'
    <3>1. CASE x \in eng.live
      BY <1>3, <1>6, <3>1 DEF OwnersInv, LiveKnown
    <3>2. CASE x \notin eng.live
      BY <1>2, <1>3, <3>2 DEF EngineDoes, LiveKnown, Known, WireOk
    <3> QED
      BY <3>1, <3>2
  <2>2. ASSUME NEW d \in calls' PROVE CallKnown(d)'
    <3>1. PICK c \in calls : d = f[c]
      BY <1>1 DEF Mapped
    <3>2. CallKnown(c)
      BY DEF OwnersInv
    <3>3. OkNow(d)' => Known(d.got[1])'
      BY <1>3, <1>6, <1>8 DEF Known, OwnersInv
    <3>4. ASSUME d.k = "list", EpochCurrent(d.ep)' PROVE \A n \in DOMAIN d.got : Known(d.got[n])'
      <4>1. CASE d = c
        BY <1>2, <1>6, <3>2, <3>4, <4>1 DEF CallKnown
      <4>2. CASE d # c
        <5>1. d.got = got /\ w.k = "list"
          BY <1>1, <1>4, <1>7, <3>1, <3>4, <4>2
        <5>2. \A n \in DOMAIN got : Known(got[n])
          BY <5>1 DEF EngineDoes
        <5> QED
          BY <1>6, <5>1, <5>2
      <4> QED
        BY <4>1, <4>2
    <3>5. d.k = "close" /\ EpochCurrent(d.ep)' /\ ~Fallback(d)' => Known(d.arg[1])'
      BY <1>2, <1>6, <1>7, <3>1, <3>2 DEF CallKnown
    <3> QED
      BY <3>3, <3>4, <3>5 DEF CallKnown
  <2>3. ASSUME NEW j \in Jobs PROVE JobKnown(j)'
    <3>1. JobKnown(j)
      BY DEF OwnersInv
    <3> QED
      BY <1>3, <1>6, <1>9, <3>1 DEF JobKnown
  <2>4. ASSUME NEW s \in DOMAIN ses' PROVE SesKnown(s)'
    <3>1. SesKnown(s)
      BY <1>11 DEF OwnersInv
    <3> QED
      BY <1>3, <1>6, <1>10, <1>11, <3>1 DEF SesKnown
  <2>5. ASSUME NEW c \in calls', NEW d \in calls', OkNow(c)', OkNow(d)', c.got[1] = d.got[1] PROVE c = d
    <3>1. CASE c.id = w.id /\ d.id = w.id
      BY <1>5, <3>1 DEF CallsInv
    <3>2. CASE c.id # w.id \/ d.id # w.id
      <4>1. c \in calls /\ d \in calls /\ OkNow(c) /\ OkNow(d)
        BY <1>6, <1>8, <2>5, <3>2
      <4> QED
        BY <2>5, <4>1 DEF OwnersInv
    <3> QED
      BY <3>1, <3>2
  <2>6. ASSUME NEW c \in calls', NEW j \in Jobs, OkNow(c)', JobNow(j)' PROVE c.got[1] # job'[j].got[1]
    <3>1. JobNow(j) /\ job'[j] = job[j] /\ Known(job[j].got[1])
      BY <1>9, <2>6
    <3> QED
      BY <1>6, <1>8, <2>6, <3>1 DEF OwnersInv
  <2>7. ASSUME NEW c \in calls', NEW s \in DOMAIN ses', OkNow(c)', SesNow(s)' PROVE c.got[1] # ses'[s].route
    <3>1. s \in DOMAIN ses /\ SesNow(s) /\ ses'[s] = ses[s] /\ Known(ses[s].route)
      BY <1>10, <1>11, <2>7
    <3> QED
      BY <1>6, <1>8, <2>7, <3>1 DEF OwnersInv
  <2>8. \A i, j \in Jobs : JobNow(i)' /\ JobNow(j)' /\ job'[i].got[1] = job'[j].got[1] => i = j
    BY <1>9 DEF OwnersInv
  <2>9. \A j \in Jobs, s \in DOMAIN ses' : JobNow(j)' /\ SesNow(s)' => job'[j].got[1] # ses'[s].route
    BY <1>9, <1>10, <1>11 DEF OwnersInv
  <2>10. \A s, t \in DOMAIN ses' : SesNow(s)' /\ SesNow(t)' /\ ses'[s].route = ses'[t].route => s = t
    BY <1>10, <1>11 DEF OwnersInv
  <2> QED
    BY <1>3, <2>1, <2>2, <2>3, <2>4, <2>5, <2>6, <2>7, <2>8, <2>9, <2>10 DEF OwnersInv

<1>13. ASSUME NEW q, InUse(q)', q # eng'.next \/ ~(eng.next < eng'.next) PROVE InUse(q)
  <2>1. ASSUME NEW d \in calls', OkNow(d)', d.got[1] = q PROVE d \in calls /\ OkNow(d)
    BY <1>8, <1>13, <2>1
  <2>2. \A j \in Jobs : job'[j].pc = "publish" /\ JobNow(j)' /\ job'[j].got[1] = q => InUse(q)
    BY <1>9 DEF InUse
  <2>3. \A s \in DOMAIN ses' : Serves(s)' /\ ses'[s].route = q => InUse(q)
    BY <1>10, <1>11 DEF InUse
  <2> QED
    BY <1>13, <2>1, <2>2, <2>3 DEF InUse
<1>14. ASSUME NEW q, Unserved(q), HoldersKnown PROVE Unserved(q)'
  <2>1. PICK h : h = Holder(mgr, q)
    OBVIOUS
  <2>2. h # None => h \in DOMAIN ses /\ ~Serves(h)
    BY <1>14, <2>1 DEF Unserved, HoldersKnown, Holder
  <2>3. h # None => ~Serves(h)'
    BY <1>10, <2>2
  <2> QED
    BY <1>3, <2>1, <2>3 DEF Unserved, Holder, Serves, Routable, EpochCurrent
<1>15. HoldersKnown
  BY DEF DoomsInv
<1>16. ASSUME NEW q, Doomed(q) PROVE Doomed(q)'
  <2>1. Known(q)
    BY <1>16 DEF Doomed
  <2>2. Known(q)' /\ (~InUse(q) => ~InUse(q)')
    BY <1>6, <1>13, <2>1
  <2>3. Unserved(q) => Unserved(q)'
    BY <1>14, <1>15
  <2>4. [route |-> q, ep |-> net.ep] \in mgr.retired => [route |-> q, ep |-> net'.ep] \in mgr'.retired
    BY <1>3
  <2> QED
    BY <1>16, <2>2, <2>3, <2>4 DEF Doomed
<1>17. ASSUME NEW x, DoomedAt(x) PROVE DoomedAt(x)'
  BY <1>2, <1>3, <1>16, <1>17 DEF DoomedAt
<1>18. DoomsInv'
  <2>1. HoldersKnown'
    BY <1>3, <1>15 DEF HoldersKnown
  <2>2. \A x \in mgr'.retiring : DoomedAt(x)'
    BY <1>3, <1>17 DEF DoomsInv
  <2>3. ASSUME NEW j \in Jobs PROVE JobDoomed(j)'
    <3>1. JobDoomed(j) /\ job' = job
      BY <1>3 DEF DoomsInv
    <3>2. PICK x : x = job[j].got[1]
      OBVIOUS
    <3>3. job[j].pc = "draining" => DoomedAt(x)'
      BY <1>17, <3>1, <3>2 DEF JobDoomed
    <3>4. job[j].pc \in Drains => \A y \in job[j].rs : DoomedAt(y)'
      BY <1>17, <3>1 DEF JobDoomed
    <3> QED
      BY <3>1, <3>2, <3>3, <3>4 DEF JobDoomed, DoomedAt
  <2>4. ASSUME NEW v \in wire' PROVE WireDoomed(v)'
    <3>1. v \in wire /\ v # w /\ WireDoomed(v) /\ WireOk(v)
      BY <1>3 DEF DoomsInv, CallsInv
    <3>2. ASSUME v.k = "close", EpochCurrent(v.ep), ~Doomed(v.arg[1])
          PROVE  \E d \in calls' : d.id = v.id /\ d.res = "none" /\ Fallback(d)'
      <4>1. PICK c \in calls : c.id = v.id /\ c.res = "none" /\ Fallback(c)
        BY <3>1, <3>2 DEF WireDoomed
      <4>2. v = Req(c)
        BY <3>1, <4>1 DEF WireOk
      <4>3. f[c] = c
        BY <1>1, <3>1, <4>1, <4>2
      <4>4. c \in calls' /\ Fallback(c)'
        BY <1>1, <1>7, <4>1, <4>3 DEF Mapped
      <4> QED
        BY <4>1, <4>4
    <3>3. Doomed(v.arg[1]) => Doomed(v.arg[1])'
      BY <1>16
    <3> QED
      BY <1>2, <3>1, <3>2, <3>3 DEF WireDoomed
  <2>5. ASSUME NEW d \in calls' PROVE CallSpares(d)'
    <3>1. PICK c \in calls : d = f[c]
      BY <1>1 DEF Mapped
    <3>2. ASSUME d.k = "close", d.res = "none", Fallback(d)' PROVE Unserved(d.arg[1])'
      <4>1. c.res = "none" /\ c = d
        BY <1>1, <3>1, <3>2 DEF EngineDoes
      <4>2. CallSpares(c) /\ Fallback(c)
        BY <1>7, <3>1, <3>2, <4>1 DEF DoomsInv
      <4> QED
        BY <1>14, <1>15, <3>2, <4>1, <4>2 DEF CallSpares
    <3> QED
      BY <3>2 DEF CallSpares
  <2> QED
    BY <2>1, <2>2, <2>3, <2>4, <2>5 DEF DoomsInv
<1>19. ASSUME NEW x \in eng'.live \ eng.live
       PROVE  /\ w.k = "open" /\ res = "ok" /\ x.ep = w.ep /\ x.route = eng'.next
              /\ got[1] = eng'.next /\ eng.next < eng'.next
  BY DEF EngineDoes
<1>20. SeenInv'
  <2>1. ASSUME NEW x \in eng'.live, NEW y \in eng'.live, x.route = y.route PROVE x = y
    <3>1. ASSUME NEW a \in eng'.live \ eng.live, NEW b \in eng.live, a.route = b.route PROVE FALSE
      BY <1>6, <1>19, <3>1 DEF OwnersInv, LiveKnown
    <3>2. CASE x \in eng.live /\ y \in eng.live
      BY <2>1, <3>2 DEF SeenInv
    <3>3. CASE x \notin eng.live /\ y \notin eng.live
      BY <3>3 DEF EngineDoes
    <3> QED
      BY <2>1, <3>1, <3>2, <3>3
  <2>2. ASSUME NEW x \in eng'.live, EpochCurrent(x.ep)' PROVE SeenBy(x)'
    <3>1. CASE x \in eng.live
      <4>1. SeenBy(x)
        BY <1>2, <2>2, <3>1 DEF SeenInv
      <4>2. ASSUME NEW c \in calls, c.k = "open", c.res = "ok" PROVE c \in calls'
        BY <1>1, <4>2 DEF Mapped
      <4>3. \A s \in DOMAIN ses : ses[s].closing \/ Routable(s) => ses'[s].closing \/ Routable(s)'
        BY <1>3 DEF Routable
      <4> QED
        BY <1>3, <4>1, <4>2, <4>3 DEF SeenBy
    <3>2. CASE x \notin eng.live
      <4>1. w.k = "open" /\ res = "ok" /\ x.ep = w.ep /\ x.route = got[1]
        BY <1>19, <3>2
      <4>2. PICK c \in calls : c.id = w.id /\ c.res = "none" /\ EpochCurrent(w.ep)
        BY <1>2, <2>2, <4>1 DEF WireOk
      <4>3. w = Req(c)
        BY <1>2, <4>2 DEF WireOk
      <4>4. f[c].res = res /\ f[c].got = got
        BY <1>1, <4>2
      <4>5. f[c] \in calls' /\ f[c].k = "open" /\ f[c].ep = x.ep
        BY <1>1, <1>7, <4>1, <4>2, <4>3 DEF Mapped, Req
      <4> QED
        BY <4>1, <4>4, <4>5 DEF SeenBy
    <3> QED
      BY <3>1, <3>2
  <2>3. ASSUME NEW d \in calls' PROVE CallTrue(d)'
    <3>1. PICK c \in calls : d = f[c]
      BY <1>1 DEF Mapped
    <3>2. ASSUME d.k = "close", d.res \in {"ok", "unknown"}, EpochCurrent(d.ep), ~Fallback(c) PROVE GoneRoute(d.arg[1])'
      <4>1. CASE d = c
        <5>1. GoneRoute(c.arg[1]) /\ Known(c.arg[1])
          BY <3>2, <4>1 DEF SeenInv, CallTrue, OwnersInv, CallKnown
        <5> QED
          BY <1>6, <1>19, <4>1, <5>1 DEF GoneRoute
      <4>2. CASE d # c
        <5>1. w.k = "close" /\ w.arg = d.arg
          BY <1>1, <1>4, <1>7, <3>1, <3>2, <4>2
        <5>2. \A x \in eng'.live : <<x.route>> # w.arg
          BY <5>1 DEF EngineDoes
        <5>3. PICK q : w.arg = <<q>>
          <6>1. Waits(c)
            BY DEF CallsInv, CallOk
          <6>2. c.k = "close" /\ c.arg = w.arg
            BY <1>7, <3>1, <3>2, <5>1
          <6> QED
            BY <6>1, <6>2 DEF Waits, OpWaits, RecWaits, JobWaits, SesWaits, Asks
        <5> QED
          BY <5>1, <5>2, <5>3 DEF GoneRoute
      <4> QED
        BY <4>1, <4>2
    <3> QED
      BY <1>2, <1>7, <3>1, <3>2 DEF CallTrue
  <2>4. ASSUME NEW j \in Jobs PROVE JobReplaces(j)' /\ JobSweeps(j)'
    <3>1. JobReplaces(j) /\ JobSweeps(j)
      BY DEF SeenInv
    <3>2. PICK x : x = job[j].ex
      OBVIOUS
    <3>3. job[j].pc \in Acquiring /\ x # None => x \in DOMAIN ses /\ ~Serves(x)'
      BY <1>10, <3>1, <3>2 DEF JobReplaces
    <3>4. JobReplaces(j)'
      BY <1>3, <3>2, <3>3 DEF JobReplaces, Serves, Routable, EpochCurrent
    <3>5. JobSweeps(j)'
      BY <1>3, <3>1 DEF JobSweeps
    <3> QED
      BY <3>4, <3>5
  <2> QED
    BY <2>1, <2>2, <2>3, <2>4 DEF SeenInv
<1> QED
  BY <1>5, <1>12, <1>18, <1>20

LEMMA EngineKeeps == ASSUME ManagerInv, RouteInv, NEW w \in wire, Engine(w) PROVE RouteInv'
<1>1. wire' = wire \ {w} /\ UNCHANGED <<mgr, ses, job, ops, net, last>>
  BY DEF Engine
<1>2. DOMAIN eng = EngFields /\ eng.next \in Nat /\ \A x \in eng.live : Known(x.route)
  BY DEF RouteInv, OwnersInv, LiveKnown
<1>3. CASE EngineOpen(w)
  <2> DEFINE r == eng.next + 1
  <2>1. PICK p : p = IF w.arg = NoPath THEN <<w.chat, w.id>> ELSE w.arg
    OBVIOUS
  <2>2. CASE /\ eng' = [live |-> {x \in eng.live : x.path # p} \cup {[path |-> p, route |-> r, ep |-> w.ep]},
                        next |-> r]
             /\ Reply(w, "ok", <<r, p>>)
    <3>1. PICK res, got : res = "ok" /\ got = <<r, p>>
      OBVIOUS
    <3>2. Reply(w, res, got)
      BY <2>2, <3>1
    <3>3. PICK y : y = [path |-> p, route |-> r, ep |-> w.ep]
      OBVIOUS
    <3>4. DOMAIN eng' = EngFields /\ eng'.next = r /\ eng'.live = {x \in eng.live : x.path # p} \cup {y}
      BY <2>2, <3>3 DEF EngFields
    <3>5. y.ep = w.ep /\ y.route = r /\ got[1] = r
      BY <3>1, <3>3
    <3>6. \A x \in eng'.live \ eng.live : x = y
      BY <3>4
    <3>7. w.k = "open" /\ eng'.next \in Nat /\ eng.next < eng'.next
      BY <1>2, <1>3, <3>4 DEF EngineOpen
    <3> HIDE DEF r
    <3>8. \A x \in eng'.live \ eng.live : x.ep = w.ep /\ x.route = eng'.next
      BY <3>4, <3>5, <3>6
    <3>9. \A x, z \in eng'.live \ eng.live : x = z
      BY <3>6
    <3>10. eng.next <= eng'.next /\ got[1] = eng'.next /\ DOMAIN eng' = EngFields
      BY <1>2, <3>4, <3>5, <3>7
    <3>11. EngineDoes(w, res, got)
      BY <1>1, <3>1, <3>7, <3>8, <3>9, <3>10 DEF EngineDoes
    <3> QED
      BY <3>2, <3>11, EngineAnswers
  <2>3. CASE eng' = eng /\ \E s \in {"in_use", "error"} : Reply(w, s, <<>>)
    <3>0. PICK got : got = <<>>
      OBVIOUS
    <3>1. PICK res \in {"in_use", "error"} : Reply(w, res, got)
      BY <2>3, <3>0
    <3>2. w.k = "open" /\ eng' = eng
      BY <1>3, <2>3 DEF EngineOpen
    <3>3. EngineDoes(w, res, got)
      BY <1>1, <1>2, <3>2 DEF EngineDoes
    <3> QED
      BY <3>1, <3>3, EngineAnswers
  <2>4. ASSUME NEW s, Reply(w, s, <<>>), s = IF \E x \in eng.live : x.path = p THEN "in_use" ELSE "error", eng' = eng
        PROVE  \E t \in {"in_use", "error"} : Reply(w, t, <<>>)
    BY <2>4
  <2> QED
    BY <1>3, <2>1, <2>2, <2>3, <2>4 DEF EngineOpen
<1>4. CASE EngineClose(w)
  <2>1. PICK hit, got, res : /\ hit = {x \in eng.live : <<x.route>> = w.arg} /\ got = <<>>
                             /\ res = IF hit # {} THEN "ok" ELSE "unknown"
    OBVIOUS
  <2>2. eng' = [eng EXCEPT !.live = @ \ hit] /\ Reply(w, res, got) /\ w.k = "close"
    BY <1>4, <2>1 DEF EngineClose
  <2>3. DOMAIN eng' = EngFields /\ eng'.next = eng.next /\ eng'.live = eng.live \ hit
    BY <1>2, <2>2 DEF EngFields
  <2>4. eng'.live \subseteq eng.live /\ \A x \in eng'.live : <<x.route>> # w.arg
    BY <2>1, <2>3
  <2>5. res \in {"ok", "unknown"}
    BY <2>1
  <2>6. EngineDoes(w, res, got)
    BY <1>1, <1>2, <2>2, <2>3, <2>4, <2>5 DEF EngineDoes
  <2> QED
    BY <2>2, <2>6, EngineAnswers
<1>5. CASE EngineList(w)
  <2>1. PICK hit, got, res : /\ hit = {x \in eng.live : x.path = w.arg} /\ res = "ok"
                             /\ got = IF hit = {} THEN <<>> ELSE <<(CHOOSE x \in hit : TRUE).route>>
    OBVIOUS
  <2>2. eng' = eng /\ Reply(w, res, got) /\ w.k = "list"
    BY <1>5, <2>1 DEF EngineList
  <2>3. \A n \in DOMAIN got : Known(got[n])
    <3>1. CASE hit = {}
      BY <2>1, <3>1
    <3>2. CASE hit # {}
      <4>1. PICK z : z = (CHOOSE x \in hit : TRUE)
        OBVIOUS
      <4>2. z \in eng.live /\ got = <<z.route>>
        BY <2>1, <3>2, <4>1
      <4> QED
        BY <1>2, <4>2
    <3> QED
      BY <3>1, <3>2
  <2>4. EngineDoes(w, res, got)
    BY <1>1, <1>2, <2>1, <2>2, <2>3 DEF EngineDoes
  <2> QED
    BY <2>2, <2>4, EngineAnswers
<1> QED
  BY <1>3, <1>4, <1>5 DEF Engine

LEMMA UnloadKeeps == ASSUME ManagerInv, RouteInv, EngineUnload PROVE RouteInv'
<1> USE DEF RouteInv
<1>1. PICK y \in eng.live : eng' = [eng EXCEPT !.live = @ \ {y}]
  BY DEF EngineUnload
<1>2. UNCHANGED <<mgr, ses, job, ops, calls, wire, net, last>>
  BY DEF EngineUnload
<1>3. DOMAIN eng' = EngFields /\ eng'.next = eng.next /\ eng'.live \subseteq eng.live
  BY <1>1 DEF OwnersInv, EngFields
<1>4. Steady /\ SesStand /\ RoutesLess /\ SeenMore
  BY <1>2, NetSame DEF SesStand, RoutesLess, Holder, SeenMore, Routable
<1>5. OwnersLess
  BY <1>2, <1>3 DEF OwnersLess, Serves, Routable, EpochCurrent
<1>6. CallsInv'
  <2>1. last \in Nat
    BY DEF ManagerInv, Shaped
  <2>2. PICK A, D : A = {} /\ D = {}
    OBVIOUS
  <2>3. CallsEdit(A, D)
    BY <1>2, <2>1, <2>2 DEF CallsEdit
  <2>4. ASSUME NEW c \in calls PROVE Waits(c)'
    <3>1. Waits(c)
      BY DEF CallsInv, CallOk
    <3>2. OpsKeep(c)
      BY <1>2, ByRec DEF OpsKeep
    <3>3. JobsKeep(c) /\ SesKeep(c)
      BY <1>2 DEF JobsKeep, SesKeep
    <3> QED
      BY <1>4, <3>1, <3>2, <3>3, WaitsKept
  <2> QED
    BY <1>4, <2>1, <2>3, <2>4, CallsStand
<1>7. OwnersInv'
  BY <1>2, <1>4, <1>5, OwnersStand
<1>8. DoomsInv'
  <2>1. DoomsEdit
    BY <1>2 DEF DoomsEdit
  <2> QED
    BY <1>4, <1>5, <2>1, DoomsStand
<1>9. SeenInv'
  <2>1. ReplacesEdit
    BY <1>2 DEF ReplacesEdit
  <2> QED
    BY <1>2, <1>4, <1>5, <2>1, SeenStand
<1> QED
  BY <1>6, <1>7, <1>8, <1>9

LEMMA DialFailsKeeps == ASSUME ManagerInv, RouteInv, NEW c \in calls, DialFails(c) PROVE RouteInv'
<1> USE DEF RouteInv
<1>1. c.ep = NotSent /\ c.res = "none" /\ ~net.up /\ UNCHANGED <<mgr, ses, job, ops, wire, eng, net, last>>
  BY DEF DialFails
<1>2. PICK d : d = [c EXCEPT !.res = "lost"] /\ calls' = (calls \ {c}) \cup {d}
  BY DEF DialFails
<1>3. PICK f : f = [b \in calls |-> IF b = c THEN d ELSE b]
  OBVIOUS
<1>4. /\ DOMAIN d = CallFields /\ d.id = c.id /\ d.k = c.k /\ d.chat = c.chat /\ d.arg = c.arg
      /\ d.by = c.by /\ d.ep = c.ep /\ d.res = "lost" /\ d.got = c.got
  BY <1>2 DEF CallsInv, CallOk, CallFields
<1>5. Mapped(f)
  <2>1. calls' = {f[b] : b \in calls}
    BY <1>2, <1>3
  <2>2. \A b \in calls : DOMAIN b = CallFields
    BY DEF CallsInv, CallOk
  <2> QED
    BY <1>1, <1>3, <1>4, <2>1, <2>2 DEF Mapped
<1>6. \A e : ~EpochCurrent(e) /\ ~EpochCurrent(e)'
  BY <1>1 DEF EpochCurrent
<1>7. CallsInv'
  <2>1. ASSUME NEW b \in calls
        PROVE  /\ f[b].res = "lost" => ~EpochCurrent(b.ep)'
               /\ b.ep = NotSent => f[b].res \in {"none", "lost"} /\ f[b].got = <<>>
               /\ b.k = "close" => f[b].res \in {"none", "ok", "unknown", "lost"}
    BY <1>1, <1>3, <1>4, <1>6 DEF CallsInv, CallOk
  <2>2. DOMAIN net' = NetFields /\ net'.ep \in Nat /\ net.ep <= net'.ep
    BY <1>1 DEF CallsInv
  <2> QED
    BY <1>1, <1>5, <1>6, <2>1, <2>2, CallsMapped
<1>8. Steady /\ SesStand /\ RoutesLess
  BY <1>1, NetSame DEF SesStand, RoutesLess, Holder
<1>9. OwnersLess
  BY <1>1, <1>2, <1>4, <1>6 DEF OwnersLess, Serves, OwnersInv
<1>10. OwnersInv'
  <2>1. CallKnown(d)'
    BY <1>6 DEF CallKnown, OkNow
  <2> QED
    BY <1>2, <1>8, <1>9, <2>1, OwnersStand
<1>11. DoomsInv'
  <2>1. ASSUME NEW x, DoomedAt(x) PROVE DoomedAt(x)'
    BY <1>1, <1>6, <2>1 DEF DoomedAt
  <2>2. HoldersKnown'
    BY <1>1 DEF DoomsInv, HoldersKnown
  <2>3. \A x \in mgr'.retiring : DoomedAt(x)'
    BY <1>1, <2>1 DEF DoomsInv
  <2>4. ASSUME NEW j \in Jobs PROVE JobDoomed(j)'
    <3>1. JobDoomed(j) /\ job' = job
      BY <1>1 DEF DoomsInv
    <3>2. PICK x : x = job[j].got[1]
      OBVIOUS
    <3>3. job[j].pc = "draining" => DoomedAt(x)'
      BY <2>1, <3>1, <3>2 DEF JobDoomed
    <3>4. job[j].pc \in Drains => \A y \in job[j].rs : DoomedAt(y)'
      BY <2>1, <3>1 DEF JobDoomed
    <3> QED
      BY <3>1, <3>2, <3>3, <3>4 DEF JobDoomed, DoomedAt
  <2>5. \A w \in wire' : WireDoomed(w)'
    BY <1>6 DEF WireDoomed
  <2>6. ASSUME NEW b \in calls' PROVE CallSpares(b)'
    <3>1. CASE b \in calls
      <4>1. Fallback(b)' <=> Fallback(b)
        BY <1>8, <3>1, FallbackSame
      <4>2. Unserved(b.arg[1]) => Unserved(b.arg[1])'
        BY <1>1 DEF Unserved, Holder, Serves, Routable, EpochCurrent
      <4> QED
        BY <3>1, <4>1, <4>2 DEF DoomsInv, CallSpares
    <3>2. CASE b \notin calls
      BY <1>2, <1>4, <3>2 DEF CallSpares
    <3> QED
      BY <3>1, <3>2
  <2> QED
    BY <2>2, <2>3, <2>4, <2>5, <2>6 DEF DoomsInv
<1>12. SeenInv'
  <2>1. SeenMore
    BY <1>1, <1>2 DEF SeenMore, Routable
  <2>2. ReplacesEdit
    BY <1>1 DEF ReplacesEdit
  <2>3. CallTrue(d)'
    BY <1>4 DEF CallTrue
  <2> QED
    BY <1>2, <1>8, <1>9, <2>1, <2>2, <2>3, SeenStand
<1> QED
  BY <1>7, <1>10, <1>11, <1>12

LEMMA WriteKeeps == ASSUME ManagerInv, RouteInv, NEW c \in calls, Write(c) PROVE RouteInv'
<1> USE DEF RouteInv
<1>1. c.ep = NotSent /\ c.res = "none" /\ net.up /\ UNCHANGED <<mgr, ses, job, ops, eng, net, last>>
  BY DEF Write
<1>2. PICK d : d = [c EXCEPT !.ep = net.ep] /\ calls' = (calls \ {c}) \cup {d} /\ wire' = wire \cup {Req(d)}
  BY DEF Write
<1>3. CallOk(c)
  BY DEF CallsInv
<1>4. /\ DOMAIN d = CallFields /\ d.id = c.id /\ d.k = c.k /\ d.chat = c.chat /\ d.arg = c.arg
      /\ d.by = c.by /\ d.ep = net.ep /\ d.res = "none" /\ d.got = <<>>
  BY <1>1, <1>2, <1>3 DEF CallOk, CallFields
<1>5. last \in Nat /\ net.ep \in Nat /\ net.ep # NotSent
  BY DEF ManagerInv, Shaped, CallsInv
<1>6. ASSUME NEW s \in DOMAIN ses, d.by = <<"ses", s>>
      PROVE  /\ SesWaits(s, c) /\ d.k = "close" /\ ~EpochCurrent(ses[s].ep) /\ d.ep # ses[s].ep
             /\ Fallback(c) /\ Fallback(d)
  <2>1. SesWaits(s, c)
    BY <1>4, <1>6, BySes
  <2>2. c.ep # ses[s].ep
    BY <1>1 DEF OwnersInv, SesKnown
  <2>3. ~EpochCurrent(ses[s].ep)
    BY <2>1, <2>2 DEF SesWaits
  <2> QED
    BY <1>1, <1>4, <1>6, <2>1, <2>2, <2>3 DEF SesWaits, EpochCurrent, Fallback
<1>7. d.k = "close" => Fallback(c) /\ Fallback(d) /\ Fallback(d)'
  <2>1. d.k = "close" => Fallback(c)
    BY <1>1, <1>3, <1>4 DEF CallOk
  <2>2. Fallback(c) => Fallback(d)
    BY <1>4, <1>6 DEF Fallback
  <2>3. Fallback(d) => Fallback(d)'
    BY <1>1 DEF Fallback
  <2> QED
    BY <2>1, <2>2, <2>3
<1>8. Steady /\ SesStand /\ RoutesLess
  BY <1>1, NetSame DEF SesStand, RoutesLess, Holder
<1>9. Waits(d)'
  <2>1. Waits(c)
    BY <1>3 DEF CallOk
  <2>2. ASSUME NEW o \in ops, OpWaits(o, c) \/ RecWaits(o, c) PROVE (OpWaits(o, d) \/ RecWaits(o, d))'
    <3>1. d.k # "close"
      BY <1>4, <1>7, <2>2 DEF OpWaits, RecWaits, By, Rec, Fallback
    <3> QED
      BY <1>4, <2>2, <3>1 DEF OpWaits, RecWaits, By, Rec
  <2>3. ASSUME NEW j \in Jobs, JobWaits(j, c) PROVE FALSE
    BY <1>4, <1>7, <2>3 DEF JobWaits, Fallback
  <2>4. ASSUME NEW s \in DOMAIN ses, SesWaits(s, c) PROVE SesWaits(s, d)'
    <3>1. ~EpochCurrent(ses[s].ep) /\ ses' = ses /\ mgr' = mgr
      BY <1>1, <1>4, <1>6, <2>4 DEF SesWaits
    <3>2. c.ep # ses[s].ep
      BY <1>1 DEF OwnersInv, SesKnown
    <3>3. ~EpochCurrent(ses[s].ep)'
      BY <1>1, <3>1 DEF EpochCurrent
    <3> QED
      BY <1>1, <1>4, <2>4, <3>1, <3>2, <3>3 DEF SesWaits
  <2> QED
    BY <1>1, <2>1, <2>2, <2>3, <2>4 DEF Waits
<1>10. CallOk(d)'
  BY <1>1, <1>3, <1>4, <1>5, <1>9 DEF CallOk
<1>11. ASSUME NEW b \in calls \ {c} PROVE CallOk(b)' /\ b.id # d.id /\ b.by # d.by
  <2>1. Waits(b)
    BY DEF CallsInv, CallOk
  <2>2. OpsKeep(b)
    BY <1>1, ByRec DEF OpsKeep
  <2>3. JobsKeep(b) /\ SesKeep(b)
    BY <1>1 DEF JobsKeep, SesKeep
  <2>4. Waits(b)'
    BY <1>8, <2>1, <2>2, <2>3, WaitsKept
  <2>5. CallOk(b)'
    BY <1>1, <1>5, <1>8, <2>4, CallStays
  <2> QED
    BY <1>4, <2>5 DEF CallsInv
<1>12. ASSUME NEW w \in wire PROVE w.id # c.id
  <2>1. WireOk(w)
    BY DEF CallsInv
  <2> QED
    BY <1>1, <2>1 DEF WireOk, Req
<1>13. CallsInv'
  <2>1. \A b \in calls' : CallOk(b)'
    BY <1>2, <1>10, <1>11
  <2>2. \A a, b \in calls' : a.id = b.id \/ a.by = b.by => a = b
    BY <1>2, <1>11 DEF CallsInv
  <2>3. ASSUME NEW w \in wire' PROVE WireOk(w)'
    <3>1. CASE w \in wire
      <4>1. WireOk(w) /\ w.id # c.id
        BY <1>12, <3>1 DEF CallsInv
      <4>2. \A b \in calls' : w.id = b.id => w = Req(b)
        BY <1>2, <1>4, <4>1 DEF WireOk
      <4>3. w.k = "open" /\ EpochCurrent(w.ep)' => \E b \in calls' : b.id = w.id /\ b.res = "none"
        BY <1>1, <1>2, <4>1 DEF WireOk, EpochCurrent
      <4> QED
        BY <1>1, <4>1, <4>2, <4>3 DEF WireOk
    <3>2. CASE w = Req(d)
      <4>1. w.id = d.id /\ w.ep = d.ep /\ d \in calls' /\ d.res = "none"
        BY <1>2, <1>4, <3>2 DEF Req
      <4>2. \A b \in calls' : w.id = b.id => w = Req(b)
        BY <2>2, <3>2, <4>1
      <4> QED
        BY <1>1, <1>4, <1>5, <1>10, <4>1, <4>2 DEF WireOk, CallOk
    <3> QED
      BY <1>2, <3>1, <3>2
  <2> QED
    BY <1>1, <1>5, <2>1, <2>2, <2>3 DEF CallsInv
<1>14. OwnersLess
  BY <1>1, <1>2, <1>4 DEF OwnersLess, Serves, Routable, EpochCurrent, OwnersInv
<1>15. OwnersInv'
  <2>1. DOMAIN d.got = {}
    BY <1>4
  <2>2. CallKnown(d)'
    BY <1>4, <1>7, <2>1 DEF CallKnown, OkNow
  <2> QED
    BY <1>2, <1>8, <1>14, <2>2, OwnersStand
<1>16. DoomsInv'
  <2>1. HoldersKnown /\ HoldersKnown'
    BY <1>1 DEF DoomsInv, HoldersKnown
  <2>2. ASSUME NEW x, DoomedAt(x) PROVE DoomedAt(x)'
    BY <1>8, <1>14, <2>1, <2>2, DoomedAtStays
  <2>3. \A x \in mgr'.retiring : DoomedAt(x)'
    BY <1>1, <2>2 DEF DoomsInv
  <2>4. ASSUME NEW j \in Jobs PROVE JobDoomed(j)'
    <3>1. JobDoomed(j) /\ job' = job
      BY <1>1 DEF DoomsInv
    <3>2. PICK x : x = job[j].got[1]
      OBVIOUS
    <3>3. job[j].pc = "draining" => DoomedAt(x)'
      BY <2>2, <3>1, <3>2 DEF JobDoomed
    <3>4. job[j].pc \in Drains => \A y \in job[j].rs : DoomedAt(y)'
      BY <2>2, <3>1 DEF JobDoomed
    <3> QED
      BY <3>1, <3>2, <3>3, <3>4 DEF JobDoomed, DoomedAt
  <2>5. ASSUME NEW w \in wire' PROVE WireDoomed(w)'
    <3>1. CASE w \in wire
      <4>1. WireDoomed(w) /\ w.id # c.id
        BY <1>12, <3>1 DEF DoomsInv
      <4>2. ASSUME w.k = "close", EpochCurrent(w.ep), ~Doomed(w.arg[1])
            PROVE  \E b \in calls' : b.id = w.id /\ b.res = "none" /\ Fallback(b)'
        <5>1. PICK b \in calls : b.id = w.id /\ b.res = "none" /\ Fallback(b)
          BY <4>1, <4>2 DEF WireDoomed
        <5>2. b \in calls' /\ Fallback(b)'
          BY <1>2, <1>8, <4>1, <5>1, FallbackSame
        <5> QED
          BY <5>1, <5>2
      <4>3. Doomed(w.arg[1]) => Doomed(w.arg[1])'
        BY <1>1, <1>8, <1>14, <2>1, DoomedStays
      <4>4. EpochCurrent(w.ep)' => EpochCurrent(w.ep)
        BY <1>1 DEF EpochCurrent
      <4> QED
        BY <4>2, <4>3, <4>4 DEF WireDoomed
    <3>2. CASE w = Req(d)
      BY <1>2, <1>4, <1>7, <3>2 DEF WireDoomed, Req
    <3> QED
      BY <1>2, <3>1, <3>2
  <2>6. ASSUME NEW b \in calls' PROVE CallSpares(b)'
    <3>1. \A r : Unserved(r) => Unserved(r)'
      BY <1>8, <1>14, <2>1, UnservedStays
    <3>2. CASE b \in calls
      <4>1. Fallback(b)' <=> Fallback(b)
        BY <1>8, <3>2, FallbackSame
      <4> QED
        BY <3>1, <3>2, <4>1 DEF DoomsInv, CallSpares
    <3>3. CASE b = d
      <4>1. CallSpares(c)
        BY DEF DoomsInv
      <4> QED
        BY <1>1, <1>4, <1>7, <3>1, <3>3, <4>1 DEF CallSpares
    <3> QED
      BY <1>2, <3>2, <3>3
  <2> QED
    BY <2>1, <2>3, <2>4, <2>5, <2>6 DEF DoomsInv
<1>17. SeenInv'
  <2>1. SeenMore
    BY <1>1, <1>2 DEF SeenMore, Routable
  <2>2. ReplacesEdit
    BY <1>1 DEF ReplacesEdit
  <2>3. CallTrue(d)'
    BY <1>4 DEF CallTrue
  <2> QED
    BY <1>2, <1>8, <1>14, <2>1, <2>2, <2>3, SeenStand
<1> QED
  BY <1>13, <1>15, <1>16, <1>17

-----------------------------------------------------------------------------
(***************************************************************************)
(* The start, and every step.                                              *)
(***************************************************************************)

LEMMA RouteInit == Init => RouteInv
<1> SUFFICES ASSUME Init PROVE RouteInv
  OBVIOUS
<1>1. ManagerInv
  BY InitFine
<1> DEFINE N == Cardinality(todo.open)
           chat == Numbered(todo.open)
<1>2. N \in Nat
  <2>1. IsFiniteSet(todo.open)
    BY ScenarioAssumption DEF Init
  <2> QED
    BY <2>1, NumberedIs
<1>3. ses = [n \in 1..N |-> NewSes(chat[n], n, 1, <<chat[n], 0>>, todo.held)]
  BY DEF Init
<1>4. PICK at : mgr = [byChat |-> [c \in Chats |-> IF c \in todo.open THEN at[c] ELSE None],
                       byRoute |-> [n \in 1..N |-> n],
                       cleanup |-> {}, retired |-> {}, retiring |-> {}, invalid |-> {},
                       slotGen |-> [c \in Chats |-> 0], closed |-> FALSE,
                       fence |-> [c \in Chats |-> None], slots |-> 0, refused |-> {}]
  <2>1. PICK at : at = [c \in todo.open |-> CHOOSE n \in 1..N : chat[n] = c]
    OBVIOUS
  <2>2. \A c \in todo.open : at[c] = CHOOSE n \in 1..N : chat[n] = c
    BY <2>1
  <2>3. \A c \in Chats : (IF c \in todo.open THEN at[c] ELSE None) =
                         (IF c \in todo.open THEN CHOOSE n \in 1..N : chat[n] = c ELSE None)
    BY <2>2
  <2>4. [c \in Chats |-> IF c \in todo.open THEN at[c] ELSE None] =
        [c \in Chats |-> IF c \in todo.open THEN CHOOSE n \in 1..N : chat[n] = c ELSE None]
    BY <2>3
  <2> QED
    BY <2>4 DEF Init
<1>5. eng = [live |-> {[path |-> <<chat[n], 0>>, route |-> n, ep |-> 1] : n \in 1..N}, next |-> N]
  BY DEF Init
<1>6. /\ calls = {} /\ wire = {} /\ ops = {} /\ last = 0
      /\ net = [ep |-> 1, up |-> TRUE, want |-> FALSE]
  BY DEF Init
<1>7. \A j \in Jobs : job[j].pc = "new"
  BY DEF Init, NewJob
<1> HIDE DEF N, chat
<1>8. /\ DOMAIN net = NetFields /\ net.ep = 1 /\ net.up /\ NotSent # 1
      /\ \A e : EpochCurrent(e) <=> e = 1
  BY <1>6 DEF NetFields, EpochCurrent, NotSent
<1>9. DOMAIN eng = EngFields /\ eng.next = N
  BY <1>5 DEF EngFields
<1>10. \A x \in eng.live : \E n \in 1..N : x = [path |-> <<chat[n], 0>>, route |-> n, ep |-> 1]
  BY <1>5
<1>11. \A x \in eng.live : x.route \in 1..N /\ x.ep = 1
  BY <1>10
<1>12. \A x, y \in eng.live : x.route = y.route => x = y
  <2>1. SUFFICES ASSUME NEW x \in eng.live, NEW y \in eng.live, x.route = y.route PROVE x = y
    OBVIOUS
  <2>2. PICK n \in 1..N : x = [path |-> <<chat[n], 0>>, route |-> n, ep |-> 1]
    BY <1>10
  <2>3. PICK m \in 1..N : y = [path |-> <<chat[m], 0>>, route |-> m, ep |-> 1]
    BY <1>10
  <2>4. x.route = n /\ y.route = m
    BY <2>2, <2>3
  <2> QED
    BY <2>1, <2>2, <2>3, <2>4
<1>13. DOMAIN ses = 1..N /\ \A s \in DOMAIN ses : ses[s].route = s /\ ses[s].ep = 1 /\ Routable(s)
  <2>1. ASSUME NEW s \in 1..N PROVE ses[s].route = s /\ ses[s].ep = 1 /\ Routable(s)
    <3>1. PICK c, p : ses[s] = NewSes(c, s, 1, p, todo.held)
      BY <1>3
    <3> QED
      BY <3>1 DEF NewSes, Routable
  <2> QED
    BY <1>3, <2>1
<1>14. mgr.byRoute = [n \in 1..N |-> n] /\ mgr.retiring = {}
  BY <1>4
<1>15. CallsInv
  BY <1>6, <1>8 DEF CallsInv
<1>16. \A j \in Jobs : job[j].pc \notin Carries \cup Drains \cup Acquiring /\ ~Sweeps(job[j])
  BY <1>7 DEF Carries, Drains, Acquiring, Sweeps
<1>17. OwnersInv
  <2>1. \A j \in Jobs : JobKnown(j) /\ ~JobNow(j)
    BY <1>16 DEF JobKnown, JobNow
  <2>2. \A s \in DOMAIN ses : SesKnown(s)
    BY <1>2, <1>8, <1>9, <1>13 DEF SesKnown, SesNow, Known
  <2>3. \A x \in eng.live : LiveKnown(x)
    BY <1>2, <1>8, <1>9, <1>11 DEF LiveKnown, Known
  <2> QED
    BY <1>2, <1>6, <1>9, <1>13, <2>1, <2>2, <2>3 DEF OwnersInv
<1>18. DoomsInv
  <2>1. HoldersKnown
    BY <1>13, <1>14 DEF HoldersKnown
  <2>2. \A j \in Jobs : JobDoomed(j)
    BY <1>7 DEF JobDoomed, Drains
  <2> QED
    BY <1>6, <1>14, <2>1, <2>2 DEF DoomsInv
<1>19. SeenInv
  <2>1. \A x \in eng.live : SeenBy(x)
    <3>1. SUFFICES ASSUME NEW x \in eng.live PROVE SeenBy(x)
      OBVIOUS
    <3>2. PICK s \in DOMAIN ses : s = x.route
      BY <1>11, <1>13
    <3> QED
      BY <1>11, <1>13, <3>2 DEF SeenBy
  <2>2. \A j \in Jobs : JobReplaces(j) /\ JobSweeps(j)
    BY <1>16 DEF JobReplaces, JobSweeps
  <2> QED
    BY <1>6, <1>12, <2>1, <2>2 DEF SeenInv
<1> QED
  BY <1>15, <1>17, <1>18, <1>19 DEF RouteInv


LEMMA JobStepKeeps == ASSUME ManagerInv, RouteInv, NEW j \in Jobs, JobStep(j) PROVE RouteInv'
BY JoinKeeps, WakeKeeps, CheckKeeps, HydrateKeeps, TakeSlotKeeps, OpenAnsweredKeeps, LeaveAnsweredKeeps,
   LeaveTimeoutKeeps, PublishKeeps, DiscardKeeps, DiscardedKeeps, StopKeeps, StopWaitedKeeps, DrainKeeps,
   DrainedKeeps, CommitKeeps, QuiesceKeeps, SweepKeeps DEF JobStep

LEMMA OpStepKeeps == ASSUME ManagerInv, RouteInv, NEW o \in ops, OpStep(o) PROVE RouteInv'
BY RetryOpenKeeps, SettleKeeps, LateClosedKeeps, RecoverKeeps, ListedKeeps, PurgedKeeps, LastGraceKeeps DEF OpStep

LEMMA CancelsKeeps == ASSUME ManagerInv, RouteInv, NEW j \in Jobs, Cancels(j) PROVE RouteInv'
BY CancelInLineKeeps, CancelAtFenceKeeps, CancelOpenKeeps DEF Cancels

LEMMA ProgressKeeps == ASSUME ManagerInv, RouteInv, Progress PROVE RouteInv'
<1>1. CASE \E j \in Jobs : JobStep(j) \/ Cancels(j)
  BY <1>1, JobStepKeeps, CancelsKeeps
<1>2. CASE \E o \in ops : OpStep(o)
  BY <1>2, OpStepKeeps
<1>3. CASE \E x \in DOMAIN ses : SesClosed(x)
  BY <1>3, SesClosedKeeps
<1>4. CASE \E c \in calls : Write(c)
  BY <1>4, WriteKeeps
<1>5. CASE \E w \in wire : Engine(w)
  BY <1>5, EngineKeeps
<1>6. CASE \E n \in notes : NoteDown(n) \/ NoteUp(n) \/ EnqueueReconciliation(n)
  BY <1>6, NoteDownKeeps, NoteUpKeeps, EnqueueKeeps
<1>7. CASE Reconnect \/ ObserveLoss \/ ObserveEpoch
  BY <1>7, ReconnectKeeps, ObserveLossKeeps, ObserveEpochKeeps
<1> QED
  BY <1>1, <1>2, <1>3, <1>4, <1>5, <1>6, <1>7 DEF Progress

LEMMA FaultyKeeps == ASSUME ManagerInv, RouteInv, Faulty PROVE RouteInv'
<1>1. CASE \E j \in Jobs : Start(j) \/ Shutdown(j) \/ Cancels(j)
  BY <1>1, StartKeeps, ShutdownKeeps, CancelsKeeps
<1>2. CASE \E c \in calls : DialFails(c)
  BY <1>2, DialFailsKeeps
<1>3. CASE \E w \in wire : Engine(w)
  BY <1>3, EngineKeeps
<1>4. CASE EngineUnload \/ Lose \/ Restart \/ ReconnectFails
  BY <1>4, UnloadKeeps, LoseKeeps, ReconnectFailsKeeps
<1> QED
  BY <1>1, <1>2, <1>3, <1>4 DEF Faulty

LEMMA RouteStep == ManagerInv /\ RouteInv /\ [Next]_vars => RouteInv'
<1>1. ASSUME ManagerInv, RouteInv, Next PROVE RouteInv'
  BY <1>1, ProgressKeeps, FaultyKeeps DEF Next
<1>2. ASSUME ManagerInv, RouteInv, UNCHANGED vars PROVE RouteInv'
  BY <1>2, JobsQuiet, JobKeeps DEF vars, mgrVars
<1> QED
  BY <1>1, <1>2

LEMMA RouteInvariant == Spec => []RouteInv
BY RouteInit, RouteStep, ManagerInvariant, PTL DEF Spec

-----------------------------------------------------------------------------
(***************************************************************************)
(* What the invariant says about routes.                                   *)
(***************************************************************************)

LEMMA SeenIsSeenTo == RouteInv => NoOrphan
<1> SUFFICES ASSUME RouteInv, NEW x \in eng.live, EpochCurrent(x.ep) PROVE SeenTo(x)
  BY DEF NoOrphan
<1>1. SeenBy(x)
  BY DEF RouteInv, SeenInv
<1> QED
  BY <1>1 DEF SeenBy, SeenTo, Carries

LEMMA DoomedIsSpared == RouteInv => SparesOwned
<1> SUFFICES ASSUME RouteInv, NEW w \in wire, w.k = "close", EpochCurrent(w.ep), Holder(mgr, w.arg[1]) # None
             PROVE  LET s == Holder(mgr, w.arg[1]) IN ~(Routable(s) /\ ses[s].ep = net.ep)
  BY DEF SparesOwned
<1>1. PICK r, s : r = w.arg[1] /\ s = Holder(mgr, r) /\ s # None
  OBVIOUS
<1>2. net.up
  BY DEF EpochCurrent
<1>3. s \in DOMAIN ses /\ ses[s].route = r
  BY <1>1 DEF RouteInv, DoomsInv, HoldersKnown, Holder
<1>4. SUFFICES ASSUME Serves(s) PROVE FALSE
  BY <1>1, <1>2 DEF Serves, EpochCurrent
<1>5. InUse(r) /\ ~Unserved(r)
  BY <1>1, <1>3, <1>4 DEF InUse, Unserved
<1>6. CASE Doomed(r)
  BY <1>5, <1>6 DEF Doomed
<1>7. CASE \E c \in calls : c.id = w.id /\ c.res = "none" /\ Fallback(c)
  <2>1. PICK c \in calls : c.id = w.id /\ c.res = "none" /\ Fallback(c)
    BY <1>7
  <2>2. w = Req(c)
    BY <2>1 DEF RouteInv, CallsInv, WireOk
  <2>3. c.k = "close" /\ c.arg = w.arg
    BY <2>2 DEF Req
  <2>4. Unserved(c.arg[1])
    BY <2>1, <2>3 DEF RouteInv, DoomsInv, CallSpares
  <2> QED
    BY <1>1, <1>5, <2>3, <2>4
<1> QED
  BY <1>1, <1>6, <1>7 DEF RouteInv, DoomsInv, WireDoomed

(***************************************************************************)
(* No orphans: however acquire, open and awaitDetachedCompletion end       *)
(* (cancelled, late, stale, overtaken by Stop or CloseAll, cut off by the  *)
(* loss of the connection), every provider session opened on the live      *)
(* connection is served, or somebody holds its route who will publish or   *)
(* close it.                                                               *)
(***************************************************************************)
THEOREM NoRouteOrphaned == Spec => []NoOrphan
BY SeenIsSeenTo, RouteInvariant, PTL

(***************************************************************************)
(* Nobody's session is closed by another's cleanup: no close on its way to *)
(* the engine (of Stop, of a discarded or late route, of recovery, or of   *)
(* beginFallbackCleanup for a session of an earlier engine) names a route  *)
(* whose holder serves a chat on the live connection.                      *)
(***************************************************************************)
THEOREM OwnedSpared == Spec => []SparesOwned
BY DoomedIsSpared, RouteInvariant, PTL

=============================================================================
