-------------------------- MODULE MCInstallers_proofs --------------------------
(***************************************************************************)
(* What is proved of the programs that MCInstallers runs, for any attempts *)
(* and any number of power losses.  What they have in common: every effect *)
(* is made after the one before it is sure to survive.  So an entry, which *)
(* names the attempt that made it, is evidence of everything that attempt  *)
(* did before.                                                             *)
(***************************************************************************)
EXTENDS MCInstallers, FiniteSetTheorems, TLAPS

(***************************************************************************)
(* The file system.                                                        *)
(***************************************************************************)
FileSystem(f) == f = [now |-> f.now, disk |-> f.disk, torn |-> f.torn, loose |-> f.loose]

LEMMA EnterIs ==
  ASSUME NEW f, FileSystem(f), NEW d, NEW n, NEW x
  PROVE  /\ FileSystem(Enter(f, d, n, x))
         /\ Enter(f, d, n, x).now = f.now \cup {Entry(d, n, x)} /\ Enter(f, d, n, x).disk = f.disk
         /\ Enter(f, d, n, x).torn = f.torn /\ Enter(f, d, n, x).loose = f.loose
<1>1. Enter(f, d, n, x) = [now |-> f.now \cup {Entry(d, n, x)}, disk |-> f.disk, torn |-> f.torn, loose |-> f.loose]
  BY DEF FileSystem, Enter
<1> QED
  BY <1>1 DEF FileSystem

LEMMA CreatedIs ==
  ASSUME NEW f, FileSystem(f), NEW d, NEW n, NEW x
  PROVE  /\ FileSystem(Created(f, d, n, x))
         /\ Created(f, d, n, x).now = f.now \cup {Entry(d, n, x)} /\ Created(f, d, n, x).disk = f.disk
         /\ Created(f, d, n, x).torn = f.torn \cup {x} /\ Created(f, d, n, x).loose = f.loose
<1> DEFINE g == Enter(f, d, n, x)
<1>1. FileSystem(g) /\ g.now = f.now \cup {Entry(d, n, x)} /\ g.disk = f.disk /\ g.torn = f.torn /\ g.loose = f.loose
  BY EnterIs
<1>2. Created(f, d, n, x) = [g EXCEPT !.torn = g.torn \cup {x}]
  BY DEF Created
<1> HIDE DEF g
<1>3. Created(f, d, n, x) = [now |-> g.now, disk |-> g.disk, torn |-> g.torn \cup {x}, loose |-> g.loose]
  BY <1>1, <1>2 DEF FileSystem
<1> QED
  BY <1>1, <1>3 DEF FileSystem

LEMMA WrittenIs ==
  ASSUME NEW f, FileSystem(f), NEW x
  PROVE  /\ FileSystem(Written(f, x)) /\ Written(f, x).now = f.now /\ Written(f, x).disk = f.disk
         /\ Written(f, x).torn = f.torn \ {x} /\ Written(f, x).loose = f.loose \cup {x}
<1>1. Written(f, x) = [now |-> f.now, disk |-> f.disk, torn |-> f.torn \ {x}, loose |-> f.loose \cup {x}]
  <2> DEFINE g == [f EXCEPT !.torn = f.torn \ {x}]
  <2>1. g = [now |-> f.now, disk |-> f.disk, torn |-> f.torn \ {x}, loose |-> f.loose]
    BY DEF FileSystem
  <2>2. Written(f, x) = [g EXCEPT !.loose = f.loose \cup {x}]
    BY DEF Written
  <2> HIDE DEF g
  <2> QED
    BY <2>1, <2>2
<1> QED
  BY <1>1 DEF FileSystem

LEMMA FileSyncedIs ==
  ASSUME NEW f, FileSystem(f), NEW x
  PROVE  /\ FileSystem(FileSynced(f, x)) /\ FileSynced(f, x).now = f.now /\ FileSynced(f, x).disk = f.disk
         /\ FileSynced(f, x).torn = f.torn /\ FileSynced(f, x).loose = f.loose \ {x}
<1>1. FileSynced(f, x) = [now |-> f.now, disk |-> f.disk, torn |-> f.torn, loose |-> f.loose \ {x}]
  BY DEF FileSystem, FileSynced
<1> QED
  BY <1>1 DEF FileSystem

LEMMA SyncedIs ==
  ASSUME NEW f, FileSystem(f), NEW d
  PROVE  /\ FileSystem(Synced(f, d)) /\ Synced(f, d).now = f.now
         /\ Synced(f, d).disk = {e \in f.disk : e.dir # d} \cup {e \in f.now : e.dir = d}
         /\ Synced(f, d).torn = f.torn /\ Synced(f, d).loose = f.loose
<1>1. Synced(f, d) = [now |-> f.now, disk |-> {e \in f.disk : e.dir # d} \cup {e \in f.now : e.dir = d},
                      torn |-> f.torn, loose |-> f.loose]
  BY DEF FileSystem, Synced
<1> QED
  BY <1>1 DEF FileSystem

\* What a power loss leaves: what was there and on disk, nothing that was neither, and
\* the contents of what was written and synced.
LEMMA CrashedIs ==
  ASSUME NEW f, NEW g \in Crashed(f)
  PROVE  /\ FileSystem(g) /\ g.now = g.disk /\ g.loose = {}
         /\ f.now \cap f.disk \subseteq g.now /\ g.now \subseteq f.now \cup f.disk
         /\ f.torn \subseteq g.torn /\ g.torn \subseteq f.torn \cup f.loose
<1>1. PICK kept \in SUBSET ((f.now \ f.disk) \cup (f.disk \ f.now)), broken \in SUBSET f.loose :
        g = [now |-> (f.now \cap f.disk) \cup kept, disk |-> (f.now \cap f.disk) \cup kept,
             torn |-> f.torn \cup broken, loose |-> {}]
  BY DEF Crashed
<1> QED
  BY <1>1 DEF FileSystem

\* A file has one link when all its entries are one.
LEMMA OneLink ==
  ASSUME NEW g, NEW x, NEW e \in g.now, e.file = x, \A e2 \in g.now : e2.file = x => e2 = e
  PROVE  Links(g, x) = 1
<1>1. {e2 \in g.now : e2.file = x} = {e}
  OBVIOUS
<1> QED
  BY <1>1, FS_Singleton DEF Links

(***************************************************************************)
(* The archive observer's provisioning.                                    *)
(***************************************************************************)

\* What an attempt has done when it comes to a task.
Before(t) ==
  CASE t = "cache"      -> {"intent"}
    [] t = "checkpoint" -> {"intent", "cache"}
    [] t = "identity"   -> {"intent", "cache", "checkpoint"}
    [] t = "lock"       -> {"intent", "cache", "checkpoint", "identity"}
    [] t = "complete"   -> {"intent", "cache", "checkpoint", "identity", "lock"}
    [] t = "done"       -> {"intent", "cache", "checkpoint", "identity", "lock", "complete"}
    [] OTHER            -> {}

\* The two entries a task makes, and what is left when it is over: one entry, which no
\* power loss takes away, of a file that is whole.
Final(t, p) == Entry(Parent(t), t, <<t, p>>)
Temp(t, p)  == Entry(Parent(t), "temp", <<t, p>>)
Made(g)     == g.now \cup g.disk

Solid(g, t, p) ==
  /\ Final(t, p) \in g.now /\ Final(t, p) \in g.disk
  /\ Temp(t, p) \notin Made(g)
  /\ <<t, p>> \notin g.torn /\ <<t, p>> \notin g.loose

Shaped(g) ==
  /\ FileSystem(g)
  /\ \A e \in Made(g) : \E t \in Running, p \in Attempts : e = Final(t, p) \/ (t # "cache" /\ e = Temp(t, p))
  /\ \A x \in g.torn \cup g.loose : \E t \in Running \ {"cache"}, p \in Attempts : x = <<t, p>>
  /\ \A e \in g.disk : e.name # "temp" => e \in g.now

\* One attempt has its intent in place, and an entry is evidence of what came before it.
OneIntent(g) == \A p, q \in Attempts : Final("intent", p) \in g.now /\ Final("intent", q) \in g.now => p = q
Ordered(g)   == \A t \in Running, p \in Attempts :
                  Final(t, p) \in Made(g) \/ Temp(t, p) \in Made(g) => \A s \in Before(t) : Solid(g, s, p)

Good(g) == Shaped(g) /\ OneIntent(g) /\ Ordered(g)

\* Where an attempt is, everything before is solid, and nothing after has been made.
Progress(g, now, p) ==
  /\ now \in Tasks => \A s \in Before(now) : Solid(g, s, p)
  /\ \A t \in Running : Final(t, p) \in Made(g) \/ Temp(t, p) \in Made(g) =>
       /\ now # "off"
       /\ now \in Running => t \in Before(now) \cup {now}

\* And what the calls of its task that are over have done.
Midway(g, now, call, p) ==
  /\ now = "off" => call = "temp"
  /\ now \in Running =>
       /\ call = "temp" => Final(now, p) \notin g.now
       /\ call = "sync" => <<now, p>> \notin g.torn
       /\ call \in {"link", "syncdir", "unlink", "resync"} => <<now, p>> \notin g.torn /\ <<now, p>> \notin g.loose
       /\ call \in {"syncdir", "unlink", "resync"} => Final(now, p) \in g.now
       /\ call \in {"unlink", "resync"} => Final(now, p) \in g.disk
       /\ call = "resync" => Temp(now, p) \notin g.now

At(p) == Progress(fs, task[p], p) /\ Midway(fs, task[p], step[p], p)

BootTypes == /\ task \in [Attempts -> Tasks \cup {"off", "failed"}]
             /\ step \in [Attempts -> {"temp", "write", "sync", "link", "syncdir", "unlink", "resync"}]

BootInv == BootTypes /\ Good(fs) /\ \A p \in Attempts : At(p)

LEMMA PlanFacts ==
  /\ Tasks = {"intent", "cache", "checkpoint", "identity", "lock", "complete", "done"}
  /\ Running = {"intent", "cache", "checkpoint", "identity", "lock", "complete"}
  /\ Running \subseteq Tasks /\ "off" \notin Tasks /\ "failed" \notin Tasks
  /\ \A t \in Running : /\ After(t) \in Tasks /\ Before(After(t)) = Before(t) \cup {t}
                        /\ t \notin Before(t) /\ Before(t) \subseteq Running /\ t # "temp"
                        /\ \A s \in Before(t) : t \notin Before(s)
<1>1. Len(Order) = 7 /\ 1 .. 7 = {1, 2, 3, 4, 5, 6, 7}
  BY DEF Order
<1>2. /\ Order[1] = "intent" /\ Order[2] = "cache" /\ Order[3] = "checkpoint" /\ Order[4] = "identity"
      /\ Order[5] = "lock" /\ Order[6] = "complete" /\ Order[7] = "done"
  BY DEF Order
<1>3. Tasks = {"intent", "cache", "checkpoint", "identity", "lock", "complete", "done"}
  <2>1. Tasks = {Order[i] : i \in {1, 2, 3, 4, 5, 6, 7}}
    BY <1>1 DEF Tasks
  <2> QED
    BY <1>2, <2>1
<1>4. Running = {"intent", "cache", "checkpoint", "identity", "lock", "complete"}
  BY <1>3 DEF Running
<1>5. ASSUME NEW i \in 1 .. 6 PROVE After(Order[i]) = Order[i + 1]
  <2>1. \A j \in 1 .. 7 : Order[j] = Order[i] => j = i
    BY <1>1, <1>2
  <2>2. (CHOOSE j \in 1 .. Len(Order) : Order[j] = Order[i]) = i
    BY <1>1, <2>1
  <2> QED
    BY <2>2 DEF After
<1>6. /\ After("intent") = "cache" /\ After("cache") = "checkpoint" /\ After("checkpoint") = "identity"
      /\ After("identity") = "lock" /\ After("lock") = "complete" /\ After("complete") = "done"
  BY <1>2, <1>5
<1> QED
  BY <1>3, <1>4, <1>6 DEF Before

LEMMA AfterIsNew == \A t \in Running : After(t) \notin Before(t) \cup {t}
<1> SUFFICES ASSUME NEW t \in Running PROVE After(t) \notin Before(t) \cup {t}
  OBVIOUS
<1>1. Before(After(t)) = Before(t) \cup {t} /\ After(t) \in Tasks
  BY PlanFacts
<1>2. CASE After(t) \in Running
  BY <1>1, <1>2, PlanFacts
<1>3. CASE After(t) \notin Running
  BY <1>3, PlanFacts
<1> QED
  BY <1>2, <1>3

LEMMA EntryFacts ==
  ASSUME NEW t, NEW p, NEW s, NEW q
  PROVE  /\ Final(t, p).dir = Parent(t) /\ Final(t, p).name = t /\ Final(t, p).file = <<t, p>>
         /\ Temp(t, p).dir = Parent(t) /\ Temp(t, p).name = "temp" /\ Temp(t, p).file = <<t, p>>
         /\ Final(t, p) = Final(s, q) => t = s /\ p = q
         /\ Temp(t, p) = Temp(s, q) => t = s /\ p = q
         /\ t # "temp" => Final(t, p) # Temp(s, q)
<1>1. /\ Final(t, p).dir = Parent(t) /\ Final(t, p).name = t /\ Final(t, p).file = <<t, p>>
      /\ Temp(t, p).dir = Parent(t) /\ Temp(t, p).name = "temp" /\ Temp(t, p).file = <<t, p>>
  BY DEF Final, Temp, Entry
<1>2. Temp(s, q).name = "temp" /\ Temp(s, q).file = <<s, q>> /\ Final(s, q).file = <<s, q>>
  BY DEF Final, Temp, Entry
<1>3. <<t, p>> = <<s, q>> => t = s /\ p = q
  OBVIOUS
<1> QED
  BY <1>1, <1>2, <1>3

LEMMA BeforeIsRunning == \A t \in Tasks : Before(t) \subseteq Running
<1> SUFFICES ASSUME NEW t \in Tasks PROVE Before(t) \subseteq Running
  OBVIOUS
<1>1. CASE t = "done"
  BY <1>1, PlanFacts DEF Before
<1>2. CASE t # "done"
  BY <1>2, PlanFacts DEF Running
<1> QED
  BY <1>1, <1>2

\* What any step of an attempt at a task does to the files.
Touched(t, p) ==
  /\ FileSystem(fs')
  /\ \A e \in Made(fs') : e \in Made(fs) \/ e = Final(t, p) \/ e = Temp(t, p)
  /\ \A e \in fs'.now : e \in fs.now \/ e = Final(t, p) \/ e = Temp(t, p)
  /\ \A e \in fs.now : e.name # "temp" => e \in fs'.now
  /\ \A e \in fs.disk : e.name # "temp" => e \in fs'.disk
  /\ \A e \in fs'.disk : e.name # "temp" => e \in fs'.now
  /\ \A x \in fs'.torn : x \in fs.torn \/ (x = <<t, p>> /\ t # "cache")
  /\ \A x \in fs'.loose : x \in fs.loose \/ (x = <<t, p>> /\ t # "cache")
  /\ t = "cache" => Temp(t, p) \notin Made(fs')
  /\ t = "intent" => Final(t, p) \in fs.now \/ Final(t, p) \notin fs'.now \/ Absent(fs, "state", "intent")

LEMMA SolidStays ==
  ASSUME NEW t \in Running, NEW p \in Attempts, Touched(t, p),
         NEW s \in Running, NEW q \in Attempts, s # t \/ q # p, Solid(fs, s, q)
  PROVE  Solid(fs', s, q)
<1>1. Final(s, q).name = s /\ s # "temp"
  BY EntryFacts, PlanFacts
<1>2. Temp(s, q) # Final(t, p) /\ Temp(s, q) # Temp(t, p)
  BY EntryFacts, PlanFacts
<1>3. <<s, q>> # <<t, p>>
  OBVIOUS
<1>4. Final(s, q) \in fs'.now /\ Final(s, q) \in fs'.disk
  BY <1>1 DEF Solid, Touched
<1>5. Temp(s, q) \notin Made(fs')
  BY <1>2 DEF Solid, Touched
<1>6. <<s, q>> \notin fs'.torn /\ <<s, q>> \notin fs'.loose
  BY <1>3 DEF Solid, Touched
<1> QED
  BY <1>4, <1>5, <1>6 DEF Solid

LEMMA GoodStays ==
  ASSUME Good(fs), NEW t \in Running, NEW p \in Attempts, Touched(t, p), Progress(fs, t, p)
  PROVE  Good(fs')
<1> USE PlanFacts
<1>1. Shaped(fs')
  <2>1. \A e \in Made(fs') : \E u \in Running, q \in Attempts : e = Final(u, q) \/ (u # "cache" /\ e = Temp(u, q))
    BY DEF Touched, Good, Shaped
  <2>2. \A x \in fs'.torn \cup fs'.loose : \E u \in Running \ {"cache"}, q \in Attempts : x = <<u, q>>
    BY DEF Touched, Good, Shaped
  <2> QED
    BY <2>1, <2>2 DEF Touched, Shaped
<1>2. OneIntent(fs')
  <2> SUFFICES ASSUME NEW q \in Attempts, NEW r \in Attempts,
                      Final("intent", q) \in fs'.now, Final("intent", r) \in fs'.now
               PROVE  q = r
    BY DEF OneIntent
  <2>1. ASSUME NEW u \in Attempts, Final("intent", u) \in fs'.now
        PROVE  Final("intent", u) \in fs.now \/ (t = "intent" /\ u = p /\ Absent(fs, "state", "intent"))
    BY <2>1, EntryFacts DEF Touched
  <2>2. Absent(fs, "state", "intent") => \A u \in Attempts : Final("intent", u) \notin fs.now
    BY EntryFacts DEF Absent, Named, Parent, CacheFiles
  <2> QED
    BY <2>1, <2>2 DEF Good, OneIntent
<1>3. Ordered(fs')
  <2> SUFFICES ASSUME NEW u \in Running, NEW q \in Attempts,
                      Final(u, q) \in Made(fs') \/ Temp(u, q) \in Made(fs'), NEW s \in Before(u)
               PROVE  Solid(fs', s, q)
    BY DEF Ordered
  <2>1. s \in Running /\ s # u
    OBVIOUS
  <2>2. CASE u = t /\ q = p
    <3>1. Solid(fs, s, q)
      BY <2>2 DEF Progress
    <3> QED
      BY <2>1, <2>2, <3>1, SolidStays
  <2>3. CASE u # t \/ q # p
    <3>1. Final(u, q) \in Made(fs) \/ Temp(u, q) \in Made(fs)
      BY <2>3, EntryFacts DEF Touched
    <3>2. Solid(fs, s, q)
      BY <3>1 DEF Good, Ordered
    <3>3. s # t \/ q # p
      <4>1. CASE q = p
        BY <2>3, <3>1, <4>1 DEF Progress
      <4> QED
        BY <4>1
    <3> QED
      BY <2>1, <3>2, <3>3, SolidStays
  <2> QED
    BY <2>2, <2>3
<1> QED
  BY <1>1, <1>2, <1>3 DEF Good

LEMMA OthersStay ==
  ASSUME Good(fs), NEW t \in Running, NEW p \in Attempts, Touched(t, p),
         NEW q \in Attempts, q # p, task'[q] = task[q], step'[q] = step[q], At(q)
  PROVE  At(q)'
<1>1. \A s \in Running : Solid(fs, s, q) => Solid(fs', s, q)
  BY SolidStays
<1>2. \A s \in Running : /\ Final(s, q) \in Made(fs') => Final(s, q) \in Made(fs)
                         /\ Temp(s, q) \in Made(fs') => Temp(s, q) \in Made(fs)
                         /\ Temp(s, q) \in fs'.now => Temp(s, q) \in fs.now
                         /\ Final(s, q) \in fs'.now => Final(s, q) \in fs.now
  BY EntryFacts, PlanFacts DEF Touched
<1>3. \A s \in Running : /\ Final(s, q) \in fs.now => Final(s, q) \in fs'.now
                         /\ Final(s, q) \in fs.disk => Final(s, q) \in fs'.disk
  BY EntryFacts, PlanFacts DEF Touched
<1>4. \A s \in Running : /\ <<s, q>> \in fs'.torn => <<s, q>> \in fs.torn
                         /\ <<s, q>> \in fs'.loose => <<s, q>> \in fs.loose
  BY DEF Touched
<1>5. Progress(fs', task[q], q)
  <2> DEFINE now == task[q]
  <2>1. Progress(fs, now, q)
    BY DEF At
  <2> HIDE DEF now
  <2>2. Progress(fs', now, q)
    <3>1. now \in Tasks => \A s \in Before(now) : Solid(fs', s, q)
      BY <1>1, <2>1, BeforeIsRunning DEF Progress
    <3>2. ASSUME NEW s \in Running, Final(s, q) \in Made(fs') \/ Temp(s, q) \in Made(fs')
          PROVE  now # "off" /\ (now \in Running => s \in Before(now) \cup {now})
      BY <1>2, <2>1, <3>2 DEF Progress
    <3> QED
      BY <3>1, <3>2 DEF Progress
  <2> QED
    BY <2>2 DEF now
<1>6. Midway(fs', task[q], step[q], q)
  <2> DEFINE now == task[q]  call == step[q]
  <2>1. Midway(fs, now, call, q)
    BY DEF At
  <2> HIDE DEF now, call
  <2>2. Midway(fs', now, call, q)
    BY <1>2, <1>3, <1>4, <2>1 DEF Midway
  <2> QED
    BY <2>2 DEF now, call
<1> QED
  BY <1>5, <1>6 DEF At

LEMMA OwnStays ==
  ASSUME NEW t \in Running, NEW p \in Attempts, Touched(t, p), Progress(fs, t, p)
  PROVE  Progress(fs', t, p)
<1>1. \A s \in Before(t) : Solid(fs', s, p)
  BY SolidStays, PlanFacts DEF Progress
<1>2. \A s \in Running : s # t => /\ Final(s, p) \in Made(fs') => Final(s, p) \in Made(fs)
                                  /\ Temp(s, p) \in Made(fs') => Temp(s, p) \in Made(fs)
  BY EntryFacts, PlanFacts DEF Touched
<1>3. t # "off"
  BY PlanFacts
<1>4. ASSUME NEW s \in Running, Final(s, p) \in Made(fs') \/ Temp(s, p) \in Made(fs')
      PROVE  s \in Before(t) \cup {t}
  <2>1. CASE s = t
    BY <2>1
  <2>2. CASE s # t
    <3>1. Final(s, p) \in Made(fs) \/ Temp(s, p) \in Made(fs)
      BY <1>2, <1>4, <2>2
    <3> QED
      BY <3>1 DEF Progress
  <2> QED
    BY <2>1, <2>2
<1> QED
  BY <1>1, <1>3, <1>4 DEF Progress

LEMMA OwnAfter ==
  ASSUME NEW g, NEW t \in Running, NEW p \in Attempts, Progress(g, t, p), Solid(g, t, p)
  PROVE  Progress(g, After(t), p)
<1>1. Before(After(t)) = Before(t) \cup {t} /\ After(t) \in Tasks /\ t \in Tasks
  BY PlanFacts
<1>2. After(t) # "off"
  BY PlanFacts
<1> QED
  BY <1>1, <1>2 DEF Progress

\* Each system call touches only the two entries of its own task.
LEMMA WithoutTempIs ==
  ASSUME NEW g, FileSystem(g), NEW t, NEW p, task[p] = t
  PROVE  /\ FileSystem(WithoutTemp(g, p)) /\ WithoutTemp(g, p).now = g.now \ {Temp(t, p)}
         /\ WithoutTemp(g, p).disk = g.disk
         /\ WithoutTemp(g, p).torn = g.torn /\ WithoutTemp(g, p).loose = g.loose
<1>1. WithoutTemp(g, p) = [now |-> g.now \ {Temp(t, p)}, disk |-> g.disk, torn |-> g.torn, loose |-> g.loose]
  BY DEF FileSystem, WithoutTemp, Temp
<1> QED
  BY <1>1 DEF FileSystem

LEMMA NoCacheTemp ==
  ASSUME NEW g, Shaped(g), NEW p
  PROVE  Temp("cache", p) \notin Made(g)
<1>1. \A t \in Running, q \in Attempts : Temp("cache", p) # Final(t, q)
  BY EntryFacts, PlanFacts
<1>2. \A t \in Running, q \in Attempts : t # "cache" => Temp("cache", p) # Temp(t, q)
  BY EntryFacts
<1> QED
  BY <1>1, <1>2 DEF Shaped

LEMMA CallsTouch ==
  ASSUME Shaped(fs), NEW t \in Running, NEW p \in Attempts, task[p] = t,
         \/ t # "cache" /\ fs' = Created(fs, Parent(t), "temp", <<t, p>>)
         \/ t # "cache" /\ fs' = Written(fs, <<t, p>>)
         \/ fs' = FileSynced(fs, <<t, p>>)
         \/ Absent(fs, Parent(t), t) /\ fs' = Enter(fs, Parent(t), t, <<t, p>>)
         \/ fs' = Synced(fs, Parent(t))
         \/ fs' = WithoutTemp(fs, p)
         \/ fs' = Synced(WithoutTemp(fs, p), Parent(t))
         \/ fs' = fs
  PROVE  Touched(t, p)
<1>0. FileSystem(fs) /\ \A e \in fs.disk : e.name # "temp" => e \in fs.now
  BY DEF Shaped
<1>1. Temp("cache", p) \notin Made(fs)
  BY NoCacheTemp
<1>2. Final(t, p).name = t /\ t # "temp" /\ Temp(t, p).name = "temp" /\ Final(t, p) # Temp(t, p)
  BY EntryFacts, PlanFacts
<1>3. CASE t # "cache" /\ fs' = Created(fs, Parent(t), "temp", <<t, p>>)
  <2>1. /\ FileSystem(fs') /\ fs'.now = fs.now \cup {Temp(t, p)} /\ fs'.disk = fs.disk
        /\ fs'.torn = fs.torn \cup {<<t, p>>} /\ fs'.loose = fs.loose
    BY <1>0, <1>3, CreatedIs DEF Temp
  <2>2. t = "intent" => Final(t, p) \in fs.now \/ Final(t, p) \notin fs'.now
    BY <1>2, <2>1
  <2> QED
    BY <1>0, <1>2, <1>3, <2>1, <2>2 DEF Touched, Made
<1>4. CASE t # "cache" /\ fs' = Written(fs, <<t, p>>)
  <2>1. /\ FileSystem(fs') /\ fs'.now = fs.now /\ fs'.disk = fs.disk
        /\ fs'.torn = fs.torn \ {<<t, p>>} /\ fs'.loose = fs.loose \cup {<<t, p>>}
    BY <1>0, <1>4, WrittenIs
  <2> QED
    BY <1>0, <1>4, <2>1 DEF Touched, Made
<1>5. CASE fs' = FileSynced(fs, <<t, p>>)
  <2>1. /\ FileSystem(fs') /\ fs'.now = fs.now /\ fs'.disk = fs.disk
        /\ fs'.torn = fs.torn /\ fs'.loose = fs.loose \ {<<t, p>>}
    BY <1>0, <1>5, FileSyncedIs
  <2> QED
    BY <1>0, <1>1, <2>1 DEF Touched, Made
<1>6. CASE Absent(fs, Parent(t), t) /\ fs' = Enter(fs, Parent(t), t, <<t, p>>)
  <2>1. /\ FileSystem(fs') /\ fs'.now = fs.now \cup {Final(t, p)} /\ fs'.disk = fs.disk
        /\ fs'.torn = fs.torn /\ fs'.loose = fs.loose
    BY <1>0, <1>6, EnterIs DEF Final
  <2>2. t = "intent" => Absent(fs, "state", "intent")
    BY <1>6 DEF Parent, CacheFiles
  <2>3. t = "cache" => Temp(t, p) \notin Made(fs')
    BY <1>1, <1>2, <2>1 DEF Made
  <2> QED
    BY <1>0, <2>1, <2>2, <2>3 DEF Touched, Made
<1>7. CASE fs' = Synced(fs, Parent(t))
  <2>1. /\ FileSystem(fs') /\ fs'.now = fs.now /\ fs'.torn = fs.torn /\ fs'.loose = fs.loose
        /\ fs'.disk = {e \in fs.disk : e.dir # Parent(t)} \cup {e \in fs.now : e.dir = Parent(t)}
    BY <1>0, <1>7, SyncedIs
  <2> QED
    BY <1>0, <1>1, <2>1 DEF Touched, Made
<1>8. CASE fs' = WithoutTemp(fs, p)
  <2>1. /\ FileSystem(fs') /\ fs'.now = fs.now \ {Temp(t, p)} /\ fs'.disk = fs.disk
        /\ fs'.torn = fs.torn /\ fs'.loose = fs.loose
    BY <1>0, <1>8, WithoutTempIs
  <2> QED
    BY <1>0, <1>1, <1>2, <2>1 DEF Touched, Made
<1>9. CASE fs' = Synced(WithoutTemp(fs, p), Parent(t))
  <2> DEFINE g == WithoutTemp(fs, p)
  <2>1. /\ FileSystem(g) /\ g.now = fs.now \ {Temp(t, p)} /\ g.disk = fs.disk
        /\ g.torn = fs.torn /\ g.loose = fs.loose
    BY <1>0, WithoutTempIs
  <2> HIDE DEF g
  <2>2. /\ FileSystem(fs') /\ fs'.now = g.now /\ fs'.torn = g.torn /\ fs'.loose = g.loose
        /\ fs'.disk = {e \in g.disk : e.dir # Parent(t)} \cup {e \in g.now : e.dir = Parent(t)}
    BY <1>9, <2>1, SyncedIs DEF g
  <2> QED
    BY <1>0, <1>1, <1>2, <2>1, <2>2 DEF Touched, Made
<1>10. CASE fs' = fs
  BY <1>0, <1>1, <1>10 DEF Touched, Made
<1> QED
  BY <1>3, <1>4, <1>5, <1>6, <1>7, <1>8, <1>9, <1>10

LEMMA CallsFollow ==
  ASSUME NEW g, FileSystem(g), NEW t \in Running, NEW p, NEW call, Midway(g, t, call, p), NEW to, NEW h,
         \/ to = "write"
         \/ to = "sync" /\ h = Written(g, <<t, p>>)
         \/ call = "sync" /\ to = "link" /\ h = FileSynced(g, <<t, p>>)
         \/ call = "link" /\ to = "syncdir" /\ h = Enter(g, Parent(t), t, <<t, p>>)
         \/ call = "syncdir" /\ to = "unlink" /\ h = Synced(g, Parent(t))
         \/ call = "unlink" /\ to = "resync" /\ task[p] = t /\ h = WithoutTemp(g, p)
  PROVE  Midway(h, t, to, p)
<1>1. t # "off"
  BY PlanFacts
<1>2. Final(t, p) # Temp(t, p) /\ Final(t, p).dir = Parent(t)
  BY EntryFacts, PlanFacts
<1>3. CASE to = "write"
  BY <1>1, <1>3 DEF Midway
<1>4. CASE to = "sync" /\ h = Written(g, <<t, p>>)
  <2>1. h.torn = g.torn \ {<<t, p>>}
    BY <1>4, WrittenIs
  <2> QED
    BY <1>1, <1>4, <2>1 DEF Midway
<1>5. CASE call = "sync" /\ to = "link" /\ h = FileSynced(g, <<t, p>>)
  <2>1. h.torn = g.torn /\ h.loose = g.loose \ {<<t, p>>}
    BY <1>5, FileSyncedIs
  <2> QED
    BY <1>1, <1>5, <2>1 DEF Midway
<1>6. CASE call = "link" /\ to = "syncdir" /\ h = Enter(g, Parent(t), t, <<t, p>>)
  <2>1. h.now = g.now \cup {Final(t, p)} /\ h.torn = g.torn /\ h.loose = g.loose
    BY <1>6, EnterIs DEF Final
  <2> QED
    BY <1>1, <1>6, <2>1 DEF Midway
<1>7. CASE call = "syncdir" /\ to = "unlink" /\ h = Synced(g, Parent(t))
  <2>1. /\ h.now = g.now /\ h.torn = g.torn /\ h.loose = g.loose
        /\ h.disk = {e \in g.disk : e.dir # Parent(t)} \cup {e \in g.now : e.dir = Parent(t)}
    BY <1>7, SyncedIs
  <2>2. Final(t, p) \in g.now
    BY <1>7 DEF Midway
  <2>3. Final(t, p) \in h.disk
    BY <1>2, <2>1, <2>2
  <2> QED
    BY <1>1, <1>7, <2>1, <2>2, <2>3 DEF Midway
<1>8. CASE call = "unlink" /\ to = "resync" /\ task[p] = t /\ h = WithoutTemp(g, p)
  <2>1. h.now = g.now \ {Temp(t, p)} /\ h.disk = g.disk /\ h.torn = g.torn /\ h.loose = g.loose
    BY <1>8, WithoutTempIs
  <2> QED
    BY <1>1, <1>2, <1>8, <2>1 DEF Midway
<1> QED
  BY <1>3, <1>4, <1>5, <1>6, <1>7, <1>8

\* The last call of a task makes it solid.
LEMMA LastIsSolid ==
  ASSUME Shaped(fs), NEW t \in Running, NEW p \in Attempts, NEW call, Midway(fs, t, call, p),
         \/ call = "resync"
         \/ t = "cache" /\ call = "syncdir",
         fs' = Synced(fs, Parent(t))
  PROVE  Solid(fs', t, p)
<1>1. /\ fs'.now = fs.now /\ fs'.torn = fs.torn /\ fs'.loose = fs.loose
      /\ fs'.disk = {e \in fs.disk : e.dir # Parent(t)} \cup {e \in fs.now : e.dir = Parent(t)}
  BY SyncedIs DEF Shaped
<1>2. Final(t, p).dir = Parent(t) /\ Temp(t, p).dir = Parent(t)
  BY EntryFacts
<1>3. Final(t, p) \in fs.now /\ <<t, p>> \notin fs.torn /\ <<t, p>> \notin fs.loose
  BY DEF Midway
<1>4. Temp(t, p) \notin fs.now
  <2>1. CASE call = "resync"
    BY <2>1 DEF Midway
  <2>2. CASE t = "cache"
    BY <2>2, NoCacheTemp DEF Made
  <2> QED
    BY <2>1, <2>2
<1> QED
  BY <1>1, <1>2, <1>3, <1>4 DEF Solid, Made

LEMMA WithTouched ==
  ASSUME BootInv, BootTypes', NEW p \in Attempts, task[p] \in Running, Touched(task[p], p),
         \A q \in Attempts \ {p} : task'[q] = task[q] /\ step'[q] = step[q], At(p)'
  PROVE  BootInv'
<1>1. Good(fs')
  BY GoodStays DEF BootInv, At
<1>2. ASSUME NEW q \in Attempts PROVE At(q)'
  <2>1. CASE q = p
    BY <2>1
  <2>2. CASE q # p
    BY <2>2, OthersStay DEF BootInv
  <2> QED
    BY <2>1, <2>2
<1> QED
  BY <1>1, <1>2 DEF BootInv

\* One call of a task, and the last.
LEMMA CallKeeps ==
  ASSUME BootInv, NEW p \in Attempts, task[p] \in Running, Touched(task[p], p),
         NEW from, NEW to \in {"temp", "write", "sync", "link", "syncdir", "unlink", "resync"}, NEW after,
         Call(p, from, to, after), Midway(fs', task[p], to, p)
  PROVE  BootInv'
<1>1. task' = task /\ step' = [step EXCEPT ![p] = to]
  BY DEF Call
<1>2. BootTypes'
  BY <1>1 DEF BootInv, BootTypes
<1>3. step'[p] = to /\ \A q \in Attempts \ {p} : task'[q] = task[q] /\ step'[q] = step[q]
  BY <1>1 DEF BootInv, BootTypes
<1>4. Progress(fs', task[p], p)
  BY OwnStays DEF BootInv, At
<1>5. At(p)'
  BY <1>1, <1>3, <1>4 DEF At
<1> QED
  BY <1>2, <1>3, <1>5, WithTouched

LEMMA LastKeeps ==
  ASSUME BootInv, NEW p \in Attempts, task[p] \in Running, Touched(task[p], p),
         NEW from, NEW after, Last(p, from, after), Solid(fs', task[p], p)
  PROVE  BootInv'
<1>1. task' = [task EXCEPT ![p] = After(task[p])] /\ step' = [step EXCEPT ![p] = "temp"]
  BY DEF Last
<1>2. After(task[p]) \in Tasks
  BY PlanFacts
<1>3. BootTypes'
  BY <1>1, <1>2 DEF BootInv, BootTypes
<1>4. task'[p] = After(task[p]) /\ step'[p] = "temp"
  BY <1>1 DEF BootInv, BootTypes
<1>5. \A q \in Attempts \ {p} : task'[q] = task[q] /\ step'[q] = step[q]
  BY <1>1 DEF BootInv, BootTypes
<1>6. Progress(fs', task[p], p)
  BY OwnStays DEF BootInv, At
<1>7. Progress(fs', After(task[p]), p)
  BY <1>6, OwnAfter
<1>8. Midway(fs', After(task[p]), "temp", p)
  <2>1. After(task[p]) # "off" /\ After(task[p]) \notin Before(task[p]) \cup {task[p]}
    BY <1>2, AfterIsNew, PlanFacts
  <2>2. After(task[p]) \in Running => Final(After(task[p]), p) \notin fs'.now
    BY <1>6, <2>1 DEF Progress, Made
  <2> QED
    BY <2>1, <2>2 DEF Midway
<1>9. At(p)'
  BY <1>4, <1>7, <1>8 DEF At
<1> QED
  BY <1>3, <1>5, <1>9, WithTouched

LEMMA BootWriteNew == ASSUME BootInv, NEW p \in Attempts, WriteNew(p) PROVE BootInv'
<1> DEFINE t == task[p]  d == Parent(t)  f == <<t, p>>
<1>1. t \in Running /\ t # "cache"
  BY PlanFacts DEF WriteNew, Records, CacheFiles
<1>2. Shaped(fs) /\ FileSystem(fs) /\ Midway(fs, t, step[p], p)
  BY DEF BootInv, Good, Shaped, At
<1>3. \/ Call(p, "temp", "write", Created(fs, d, "temp", f))
      \/ Call(p, "write", "sync", Written(fs, f))
      \/ Call(p, "sync", "link", FileSynced(fs, f))
      \/ Absent(fs, d, t) /\ Call(p, "link", "syncdir", Enter(fs, d, t, f))
      \/ Call(p, "syncdir", "unlink", Synced(fs, d))
      \/ Call(p, "unlink", "resync", WithoutTemp(fs, p))
      \/ Last(p, "resync", Synced(fs, d))
  BY DEF WriteNew
<1> HIDE DEF t
<1> DEFINE Does(from, to, after) == Call(p, from, to, after) /\ Touched(t, p) /\ Midway(fs', t, to, p)
<1>4. ASSUME NEW from, NEW to \in {"temp", "write", "sync", "link", "syncdir", "unlink", "resync"}, NEW after,
             Does(from, to, after)
      PROVE  BootInv'
  BY <1>1, <1>4, CallKeeps DEF t
<1>5. CASE Call(p, "temp", "write", Created(fs, d, "temp", f))
  <2>1. step[p] = "temp" /\ fs' = Created(fs, d, "temp", f)
    BY <1>5 DEF Call
  <2>2. Touched(t, p)
    BY <1>1, <1>2, <2>1, CallsTouch DEF t
  <2>3. Midway(fs', t, "write", p)
    BY <1>1, <1>2, CallsFollow
  <2> QED
    BY <1>4, <1>5, <2>2, <2>3
<1>6. CASE Call(p, "write", "sync", Written(fs, f))
  <2>1. step[p] = "write" /\ fs' = Written(fs, f)
    BY <1>6 DEF Call
  <2>2. Touched(t, p)
    BY <1>1, <1>2, <2>1, CallsTouch DEF t
  <2>3. Midway(fs', t, "sync", p)
    BY <1>1, <1>2, <2>1, CallsFollow
  <2> QED
    BY <1>4, <1>6, <2>2, <2>3
<1>7. CASE Call(p, "sync", "link", FileSynced(fs, f))
  <2>1. step[p] = "sync" /\ fs' = FileSynced(fs, f)
    BY <1>7 DEF Call
  <2>2. Touched(t, p)
    BY <1>1, <1>2, <2>1, CallsTouch DEF t
  <2>3. Midway(fs', t, "link", p)
    BY <1>1, <1>2, <2>1, CallsFollow
  <2> QED
    BY <1>4, <1>7, <2>2, <2>3
<1>8. CASE Absent(fs, d, t) /\ Call(p, "link", "syncdir", Enter(fs, d, t, f))
  <2>1. step[p] = "link" /\ fs' = Enter(fs, d, t, f)
    BY <1>8 DEF Call
  <2>2. Touched(t, p)
    BY <1>1, <1>2, <1>8, <2>1, CallsTouch DEF t
  <2>3. Midway(fs', t, "syncdir", p)
    BY <1>1, <1>2, <2>1, CallsFollow
  <2> QED
    BY <1>4, <1>8, <2>2, <2>3
<1>9. CASE Call(p, "syncdir", "unlink", Synced(fs, d))
  <2>1. step[p] = "syncdir" /\ fs' = Synced(fs, d)
    BY <1>9 DEF Call
  <2>2. Touched(t, p)
    BY <1>1, <1>2, <2>1, CallsTouch DEF t
  <2>3. Midway(fs', t, "unlink", p)
    BY <1>1, <1>2, <2>1, CallsFollow
  <2> QED
    BY <1>4, <1>9, <2>2, <2>3
<1>10. CASE Call(p, "unlink", "resync", WithoutTemp(fs, p))
  <2>1. step[p] = "unlink" /\ fs' = WithoutTemp(fs, p)
    BY <1>10 DEF Call
  <2>2. Touched(t, p)
    BY <1>1, <1>2, <2>1, CallsTouch DEF t
  <2>3. Midway(fs', t, "resync", p)
    BY <1>1, <1>2, <2>1, CallsFollow DEF t
  <2> QED
    BY <1>4, <1>10, <2>2, <2>3
<1>11. CASE Last(p, "resync", Synced(fs, d))
  <2>1. step[p] = "resync" /\ fs' = Synced(fs, d)
    BY <1>11 DEF Last
  <2>2. Touched(t, p)
    BY <1>1, <1>2, <2>1, CallsTouch DEF t
  <2>3. Solid(fs', t, p)
    BY <1>1, <1>2, <2>1, LastIsSolid
  <2> QED
    BY <1>1, <1>11, <2>2, <2>3, LastKeeps DEF t
<1> QED
  BY <1>3, <1>5, <1>6, <1>7, <1>8, <1>9, <1>10, <1>11 DEF t

LEMMA BootMakeCache == ASSUME BootInv, NEW p \in Attempts, MakeCache(p) PROVE BootInv'
<1> DEFINE f == <<"cache", p>>
<1>1. task[p] = "cache" /\ "cache" \in Running /\ Parent("cache") = "state"
  BY PlanFacts DEF MakeCache, Parent, CacheFiles
<1>2. Shaped(fs) /\ FileSystem(fs) /\ Midway(fs, "cache", step[p], p)
  BY <1>1 DEF BootInv, Good, Shaped, At
<1>3. CASE Absent(fs, "state", "cache") /\ Call(p, "temp", "syncdir", Enter(fs, "state", "cache", f))
  <2>1. fs' = Enter(fs, "state", "cache", f)
    BY <1>3 DEF Call
  <2>2. Touched("cache", p)
    BY <1>1, <1>2, <1>3, <2>1, CallsTouch
  <2>3. fs'.now = fs.now \cup {Final("cache", p)} /\ fs'.torn = fs.torn /\ fs'.loose = fs.loose
    BY <1>1, <1>2, <2>1, EnterIs DEF Final
  <2>4. f \notin fs.torn /\ f \notin fs.loose
    BY <1>2 DEF Shaped
  <2>5. Midway(fs', "cache", "syncdir", p)
    BY <2>3, <2>4 DEF Midway
  <2> QED
    BY <1>1, <1>3, <2>2, <2>5, CallKeeps
<1>4. CASE Last(p, "syncdir", Synced(fs, "state"))
  <2>1. step[p] = "syncdir" /\ fs' = Synced(fs, "state")
    BY <1>4 DEF Last
  <2>2. Touched("cache", p)
    BY <1>1, <1>2, <2>1, CallsTouch
  <2>3. Solid(fs', "cache", p)
    BY <1>1, <1>2, <2>1, LastIsSolid
  <2> QED
    BY <1>1, <1>4, <2>2, <2>3, LastKeeps
<1> QED
  BY <1>3, <1>4 DEF MakeCache

\* A task that is given up, whether or not the temporary name was taken away.
LEMMA BootGivenUp == ASSUME BootInv, NEW p \in Attempts, Raise(p) \/ Kill(p) PROVE BootInv'
<1>1. task[p] \in Running /\ task' = [task EXCEPT ![p] = "failed"] /\ step' = step
  BY DEF Raise, Kill
<1>2. fs' = Synced(WithoutTemp(fs, p), Parent(task[p])) \/ fs' = fs
  BY DEF Raise, Kill
<1>3. Touched(task[p], p)
  BY <1>1, <1>2, CallsTouch DEF BootInv, Good
<1>4. BootTypes'
  BY <1>1 DEF BootInv, BootTypes
<1>5. task'[p] = "failed" /\ \A q \in Attempts \ {p} : task'[q] = task[q] /\ step'[q] = step[q]
  BY <1>1 DEF BootInv, BootTypes
<1>6. Progress(fs', "failed", p) /\ Midway(fs', "failed", step'[p], p)
  BY PlanFacts DEF Progress, Midway
<1>7. At(p)'
  BY <1>5, <1>6 DEF At
<1> QED
  BY <1>1, <1>3, <1>4, <1>5, <1>7, WithTouched

LEMMA BootStart == ASSUME BootInv, NEW p \in Attempts, Start(p) PROVE BootInv'
<1>1. task[p] = "off" /\ task' = [task EXCEPT ![p] = "intent"] /\ step' = step /\ fs' = fs
  BY DEF Start
<1>2. BootTypes' /\ Good(fs')
  BY <1>1, PlanFacts DEF BootInv, BootTypes
<1>3. ASSUME NEW q \in Attempts PROVE At(q)'
  <2>1. CASE q = p
    <3>1. task'[q] = "intent" /\ step'[q] = step[q]
      BY <1>1, <2>1 DEF BootInv, BootTypes
    <3>2. step[q] = "temp" /\ Progress(fs, "off", q)
      BY <1>1, <2>1 DEF BootInv, At, Midway
    <3>3. Progress(fs, "intent", q) /\ Midway(fs, "intent", "temp", q)
      BY <3>2, PlanFacts DEF Progress, Midway, Before, Made
    <3> QED
      BY <1>1, <3>1, <3>2, <3>3 DEF At
  <2>2. CASE q # p
    <3>1. task'[q] = task[q] /\ step'[q] = step[q]
      BY <1>1, <2>2 DEF BootInv, BootTypes
    <3> QED
      BY <1>1, <3>1 DEF BootInv, At
  <2> QED
    BY <2>1, <2>2
<1> QED
  BY <1>2, <1>3 DEF BootInv

\* What is solid, and what it is evidence of, no power loss takes away.
LEMMA LossKeeps ==
  ASSUME Good(fs), NEW g \in Crashed(fs)
  PROVE  /\ Good(g)
         /\ \A t, p : Solid(fs, t, p) => Solid(g, t, p)
         /\ Made(g) \subseteq Made(fs)
<1>1. /\ FileSystem(g) /\ g.now = g.disk /\ g.loose = {}
      /\ fs.now \cap fs.disk \subseteq g.now /\ g.now \subseteq fs.now \cup fs.disk
      /\ g.torn \subseteq fs.torn \cup fs.loose
  BY CrashedIs
<1>2. Made(g) \subseteq Made(fs)
  BY <1>1 DEF Made
<1>3. \A t, p : Solid(fs, t, p) => Solid(g, t, p)
  BY <1>1, <1>2 DEF Solid
<1>4. Shaped(g)
  <2>1. \A e \in Made(g) : \E t \in Running, p \in Attempts : e = Final(t, p) \/ (t # "cache" /\ e = Temp(t, p))
    BY <1>2 DEF Good, Shaped
  <2>2. \A x \in g.torn \cup g.loose : \E t \in Running \ {"cache"}, p \in Attempts : x = <<t, p>>
    BY <1>1 DEF Good, Shaped
  <2> QED
    BY <1>1, <2>1, <2>2 DEF Shaped
<1>5. OneIntent(g)
  <2>1. \A p \in Attempts : Final("intent", p) \in g.now => Final("intent", p) \in fs.now
    <3>1. \A p : Final("intent", p).name # "temp"
      BY EntryFacts
    <3> QED
      BY <1>1, <3>1 DEF Good, Shaped
  <2> QED
    BY <2>1 DEF Good, OneIntent
<1>6. Ordered(g)
  BY <1>2, <1>3 DEF Good, Ordered
<1> QED
  BY <1>2, <1>3, <1>4, <1>5, <1>6 DEF Good

LEMMA BootPowerLoss == ASSUME BootInv, PowerLoss PROVE BootInv'
<1>1. fs' \in Crashed(fs) /\ step' = step
  BY DEF PowerLoss
<1>2. task' = [p \in Attempts |-> IF task[p] \in Running THEN "failed" ELSE task[p]]
  BY DEF PowerLoss
<1>3. Good(fs') /\ (\A t, p : Solid(fs, t, p) => Solid(fs', t, p)) /\ Made(fs') \subseteq Made(fs)
  BY <1>1, LossKeeps DEF BootInv
<1>4. BootTypes'
  BY <1>1, <1>2 DEF BootInv, BootTypes
<1>5. ASSUME NEW p \in Attempts PROVE At(p)'
  <2>1. CASE task[p] \in Running
    <3>1. task'[p] = "failed"
      BY <1>2, <2>1
    <3>2. Progress(fs', "failed", p) /\ Midway(fs', "failed", step'[p], p)
      BY PlanFacts DEF Progress, Midway
    <3> QED
      BY <3>1, <3>2 DEF At
  <2>2. CASE task[p] \notin Running
    <3>1. task'[p] = task[p] /\ step'[p] = step[p]
      BY <1>1, <1>2, <2>2
    <3>2. Progress(fs', task[p], p)
      BY <1>3, <2>2 DEF BootInv, At, Progress
    <3>3. Midway(fs', task[p], step[p], p)
      BY <2>2 DEF BootInv, At, Midway
    <3> QED
      BY <3>1, <3>2, <3>3 DEF At
  <2> QED
    BY <2>1, <2>2
<1> QED
  BY <1>3, <1>4, <1>5 DEF BootInv

LEMMA BootStart0 == ASSUME Init PROVE BootInv
<1>1. FileSystem(Empty) /\ Empty.now = {} /\ Empty.disk = {} /\ Empty.torn = {} /\ Empty.loose = {}
  BY DEF FileSystem, Empty
<1>2. fs = Empty /\ task = [p \in Attempts |-> "off"] /\ step = [p \in Attempts |-> "temp"]
  BY DEF Init
<1>3. Made(fs) = {}
  BY <1>1, <1>2 DEF Made
<1>4. Good(fs)
  BY <1>1, <1>2, <1>3 DEF Good, Shaped, OneIntent, Ordered
<1>5. \A p \in Attempts : At(p)
  BY <1>2, <1>3, PlanFacts DEF At, Progress, Midway
<1> QED
  BY <1>2, <1>4, <1>5 DEF BootInv, BootTypes

LEMMA BootUnchanged == ASSUME BootInv, UNCHANGED vars PROVE BootInv'
<1>1. fs' = fs /\ task' = task /\ step' = step
  BY DEF vars
<1> QED
  BY <1>1 DEF BootInv, BootTypes, At

LEMMA BootStep == ASSUME BootInv, Next \/ UNCHANGED vars PROVE BootInv'
  BY BootStart, BootWriteNew, BootMakeCache, BootGivenUp, BootPowerLoss, BootUnchanged DEF Next

\* What the service takes from a good file system.
LEMMA Owned ==
  ASSUME NEW g, Good(g), NEW e \in g.now, e.name # "temp"
  PROVE  \E t \in Running, p \in Attempts : e = Final(t, p) /\ e.name = t /\ e.dir = Parent(t) /\ e.file = <<t, p>>
<1>1. e \in Made(g)
  BY DEF Made
<1>2. PICK t \in Running, p \in Attempts : e = Final(t, p) \/ e = Temp(t, p)
  BY <1>1 DEF Good, Shaped
<1>3. e = Final(t, p)
  BY <1>2, EntryFacts
<1> QED
  BY <1>3, EntryFacts

LEMMA LinkedReads ==
  ASSUME NEW g, Good(g), NEW t \in Running, NEW p \in Attempts,
         Final(t, p) \in g.now, Temp(t, p) \notin g.now, <<t, p>> \notin g.torn
  PROVE  <<t, p>> \in Readable(g, Parent(t), t)
<1>1. Final(t, p).dir = Parent(t) /\ Final(t, p).name = t /\ Final(t, p).file = <<t, p>>
  BY EntryFacts
<1>2. <<t, p>> \in Whole(g, Parent(t), t)
  BY <1>1 DEF Whole, Named
<1>3. ASSUME NEW e \in g.now, e.file = <<t, p>> PROVE e = Final(t, p)
  <2>1. e \in Made(g)
    BY DEF Made
  <2>2. PICK u \in Running, q \in Attempts : e = Final(u, q) \/ e = Temp(u, q)
    BY <2>1 DEF Good, Shaped
  <2>3. e.file = <<u, q>>
    BY <2>2, EntryFacts
  <2>4. u = t /\ q = p
    BY <1>3, <2>3
  <2> QED
    BY <2>2, <2>4
<1>4. Links(g, <<t, p>>) = 1
  BY <1>1, <1>3, OneLink
<1> QED
  BY <1>2, <1>4 DEF Readable

LEMMA SolidReads ==
  ASSUME NEW g, Good(g), NEW t \in Running, NEW p \in Attempts, Solid(g, t, p)
  PROVE  <<t, p>> \in Readable(g, Parent(t), t)
  BY LinkedReads DEF Solid, Made

LEMMA Found ==
  ASSUME NEW g, NEW d, NEW n, Named(g, d, n) # {}
  PROVE  \E e \in g.now : e.dir = d /\ e.name = n
  BY DEF Named

LEMMA IntentOf ==
  ASSUME NEW g, Good(g), NEW t \in Running, NEW p \in Attempts, Final(t, p) \in g.now \/ Temp(t, p) \in g.now,
         t # "intent" \/ Final(t, p) \in g.now
  PROVE  Final("intent", p) \in g.now
<1>1. CASE t = "intent"
  BY <1>1
<1>2. CASE t # "intent"
  <2>1. "intent" \in Before(t)
    BY <1>2, PlanFacts DEF Before
  <2>2. Solid(g, "intent", p)
    BY <2>1 DEF Good, Ordered, Made
  <2> QED
    BY <2>2 DEF Solid
<1> QED
  BY <1>1, <1>2

LEMMA HistoryHolds ==
  ASSUME NEW g, Good(g), History(g)
  PROVE  /\ CacheOpens(g)
         /\ \E p \in Attempts : \A e \in g.now : e.name \in Tasks => e.file[2] = p
<1>1. Named(g, "state", "complete") # {}
  BY DEF History, Readable, Whole
<1>2. PICK e0 \in g.now : e0.dir = "state" /\ e0.name = "complete"
  BY <1>1, Found
<1>3. PICK p \in Attempts : Final("complete", p) \in g.now
  BY <1>2, Owned
<1>4. \A s \in Before("complete") : Solid(g, s, p)
  BY <1>3, PlanFacts DEF Good, Ordered, Made
<1>5. Before("complete") = {"intent", "cache", "checkpoint", "identity", "lock"}
  BY DEF Before
<1>6. Final("intent", p) \in g.now
  BY <1>4, <1>5 DEF Solid
<1>7. CacheOpens(g)
  <2>1. ~Absent(g, "state", "cache")
    <3>1. <<"cache", p>> \in Readable(g, Parent("cache"), "cache")
      BY <1>4, <1>5, SolidReads, PlanFacts
    <3> QED
      BY <3>1 DEF Readable, Whole, Absent, Parent, CacheFiles
  <2>2. ASSUME NEW n \in CacheFiles PROVE Readable(g, "cache", n) # {}
    <3>1. Parent(n) = "cache" /\ n \in Running /\ n \in Before("complete")
      BY <1>5, PlanFacts DEF Parent, CacheFiles
    <3>2. <<n, p>> \in Readable(g, Parent(n), n)
      BY <1>4, <3>1, SolidReads
    <3> QED
      BY <3>1, <3>2
  <2>3. Absent(g, "cache", "temp")
    <3> SUFFICES ASSUME NEW e \in g.now, e.dir = "cache", e.name = "temp" PROVE FALSE
      BY DEF Absent, Named
    <3>1. e \in Made(g)
      BY DEF Made
    <3>2. PICK u \in Running, q \in Attempts : e = Final(u, q) \/ (u # "cache" /\ e = Temp(u, q))
      BY <3>1 DEF Good, Shaped
    <3>3. e = Temp(u, q) /\ Parent(u) = "cache"
      BY <3>2, EntryFacts, PlanFacts
    <3>4. u \in CacheFiles
      BY <3>3 DEF Parent
    <3>5. Final("intent", q) \in g.now
      BY <3>3, <3>4, IntentOf DEF CacheFiles
    <3>6. q = p
      BY <1>6, <3>5 DEF Good, OneIntent
    <3>7. Solid(g, u, p)
      BY <1>4, <1>5, <3>4 DEF CacheFiles
    <3> QED
      BY <3>1, <3>3, <3>6, <3>7 DEF Solid
  <2> QED
    BY <2>1, <2>2, <2>3 DEF CacheOpens
<1>8. ASSUME NEW e \in g.now, e.name \in Tasks PROVE e.file[2] = p
  <2>1. e.name # "temp"
    BY <1>8, PlanFacts
  <2>2. PICK t \in Running, q \in Attempts : e = Final(t, q) /\ e.file = <<t, q>>
    BY <2>1, Owned
  <2>3. Final("intent", q) \in g.now
    BY <2>2, IntentOf
  <2>4. q = p
    BY <1>6, <2>3 DEF Good, OneIntent
  <2> QED
    BY <2>2, <2>4
<1> QED
  BY <1>7, <1>8

LEMMA BootMeans == ASSUME BootInv PROVE BootstrapIsLasting
<1>1. ASSUME NEW g \in Crashed(fs) \cup {fs}
      PROVE  Good(g) /\ \A t, p : Solid(fs, t, p) => Solid(g, t, p)
  <2>1. CASE g = fs
    BY <2>1 DEF BootInv
  <2>2. CASE g \in Crashed(fs)
    BY <2>2, LossKeeps DEF BootInv
  <2> QED
    BY <2>1, <2>2
<1>2. HistoryMeansCache
  BY <1>1, HistoryHolds DEF HistoryMeansCache
<1>3. ASSUME NEW g \in Crashed(fs) \cup {fs}, ~Absent(g, "state", "cache") PROVE ~Absent(g, "state", "intent")
  <2>1. PICK e \in g.now : e.dir = "state" /\ e.name = "cache"
    BY <1>3, Found DEF Absent
  <2>2. PICK t \in Running, p \in Attempts : e = Final(t, p)
    BY <1>1, <2>1, Owned
  <2>3. Final("intent", p) \in g.now
    BY <1>1, <2>2, IntentOf
  <2>4. Final("intent", p).dir = "state" /\ Final("intent", p).name = "intent"
    BY EntryFacts DEF Parent, CacheFiles
  <2> QED
    BY <2>3, <2>4 DEF Absent, Named
<1>4. ASSUME NEW g \in Crashed(fs) \cup {fs}, NEW p \in Attempts, task[p] = "done" PROVE History(g)
  <2>1. {"intent", "complete"} \subseteq Before("done")
    BY DEF Before
  <2>2. Solid(fs, "intent", p) /\ Solid(fs, "complete", p)
    BY <1>4, <2>1, PlanFacts DEF BootInv, At, Progress
  <2>3. <<"intent", p>> \in Readable(g, Parent("intent"), "intent") /\ <<"complete", p>> \in Readable(g, Parent("complete"), "complete")
    BY <1>1, <2>2, SolidReads, PlanFacts
  <2>4. Parent("intent") = "state" /\ Parent("complete") = "state"
    BY DEF Parent, CacheFiles
  <2> QED
    BY <2>3, <2>4 DEF History
<1>5. SuccessAndFailureLast
  BY <1>3, <1>4 DEF SuccessAndFailureLast
<1> QED
  BY <1>2, <1>5 DEF BootstrapIsLasting

\* ObserverIsLasting of MCInstallers: whatever was interrupted, at every moment and after
\* every power loss, a bootstrap history that handle accepts (archive_observer.py) stands
\* beside a cache __enter__ can open, of the same attempt; the cache never stands without
\* the intent; and what a provision that reported success left, handle accepts.
THEOREM ObserverLasts == MCSpec => []ObserverIsLasting
<1> DEFINE Inv == program = "observer" => BootInv
<1>1. MCInit => Inv
  BY BootStart0 DEF MCInit
<1>2. Inv /\ [MCNext]_<<program, vars, supply, storage>> => Inv'
  <2> SUFFICES ASSUME Inv, [MCNext]_<<program, vars, supply, storage>>, program' = "observer" PROVE BootInv'
    OBVIOUS
  <2>1. program' = program /\ (Next \/ UNCHANGED vars)
    BY DEF MCNext
  <2> QED
    BY <2>1, BootStep
<1>3. Inv => ObserverIsLasting
  BY BootMeans DEF ObserverIsLasting
<1> QED
  BY <1>1, <1>2, <1>3, PTL DEF MCSpec

(***************************************************************************)
(* The first provisioning of the supply policy and its floor.  Two         *)
(* installers may run at once; the attempt record lets one of them past.   *)
(***************************************************************************)
LEMMA SupplyFiles ==
  /\ Supply!Empty = Empty
  /\ \A d, n, x : Supply!Entry(d, n, x) = Entry(d, n, x)
  /\ \A f, d, n : Supply!Named(f, d, n) = Named(f, d, n) /\ (Supply!Absent(f, d, n) <=> Absent(f, d, n))
  /\ \A f, d, n : Supply!Whole(f, d, n) = Whole(f, d, n) /\ Supply!Remove(f, d, n) = Remove(f, d, n)
  /\ \A f, x : Supply!Links(f, x) = Links(f, x)
  /\ \A f, d, n, x : Supply!Enter(f, d, n, x) = Enter(f, d, n, x) /\ Supply!Created(f, d, n, x) = Created(f, d, n, x)
  /\ \A f, x : Supply!Written(f, x) = Written(f, x) /\ Supply!FileSynced(f, x) = FileSynced(f, x)
  /\ \A f, d : Supply!Synced(f, d) = Synced(f, d)
  /\ \A f : Supply!Crashed(f) = Crashed(f)
  /\ \A T : Supply!Cardinality(T) = Cardinality(T)
<1>1. Supply!Empty = Empty
  BY DEF Supply!Empty, Empty
<1>2. \A d, n, x : Supply!Entry(d, n, x) = Entry(d, n, x)
  BY DEF Supply!Entry, Entry
<1>3. \A f, d, n : Supply!Named(f, d, n) = Named(f, d, n)
  BY DEF Supply!Named, Named
<1>4. \A f, d, n : Supply!Absent(f, d, n) <=> Absent(f, d, n)
  BY <1>3 DEF Supply!Absent, Absent
<1>5. \A f, d, n : Supply!Whole(f, d, n) = Whole(f, d, n)
  BY <1>3 DEF Supply!Whole, Whole
<1>6. \A f, d, n : Supply!Remove(f, d, n) = Remove(f, d, n)
  BY <1>3 DEF Supply!Remove, Remove
<1>7. ASSUME NEW T PROVE Supply!Cardinality(T) = Cardinality(T)
  BY DEF Supply!Cardinality, Cardinality
<1>8. \A f, x : Supply!Links(f, x) = Links(f, x)
  BY <1>7 DEF Supply!Links, Links
<1>9. \A f, d, n, x : Supply!Enter(f, d, n, x) = Enter(f, d, n, x)
  BY <1>2 DEF Supply!Enter, Enter
<1>10. \A f, d, n, x : Supply!Created(f, d, n, x) = Created(f, d, n, x)
  BY <1>9 DEF Supply!Created, Created
<1>11. \A f, x : Supply!Written(f, x) = Written(f, x) /\ Supply!FileSynced(f, x) = FileSynced(f, x)
  BY DEF Supply!Written, Written, Supply!FileSynced, FileSynced
<1>12. \A f, d : Supply!Synced(f, d) = Synced(f, d)
  BY DEF Supply!Synced, Synced
<1>13. ASSUME NEW f PROVE Supply!Crashed(f) = Crashed(f)
  BY DEF Supply!Crashed, Crashed
<1>14. \A f : Supply!Crashed(f) = Crashed(f)
  BY <1>13
<1>15. \A T : Supply!Cardinality(T) = Cardinality(T)
  BY <1>7
<1> QED
  BY <1>1, <1>2, <1>3, <1>4, <1>5, <1>6, <1>8, <1>9, <1>10, <1>11, <1>12, <1>14, <1>15

LEMMA RemoveIs ==
  ASSUME NEW f, FileSystem(f), NEW d, NEW n
  PROVE  /\ FileSystem(Remove(f, d, n)) /\ Remove(f, d, n).now = f.now \ Named(f, d, n)
         /\ Remove(f, d, n).disk = f.disk
         /\ Remove(f, d, n).torn = f.torn /\ Remove(f, d, n).loose = f.loose
<1>1. Remove(f, d, n) = [now |-> f.now \ Named(f, d, n), disk |-> f.disk, torn |-> f.torn, loose |-> f.loose]
  BY DEF FileSystem, Remove
<1> QED
  BY <1>1 DEF FileSystem

\* The tasks that make an entry, in order; where they make it and under which name.
Marks == {"attempt", "supply", "trust", "policyPending", "floorPending", "policy", "floor",
          "publishPolicy", "publishFloor", "complete"}

Preceding(t) ==
  CASE t = "supply"        -> {"attempt"}
    [] t = "trust"         -> {"attempt", "supply"}
    [] t = "policyPending" -> {"attempt", "supply", "trust"}
    [] t = "floorPending"  -> {"attempt", "supply", "trust", "policyPending"}
    [] t = "policy"        -> {"attempt", "supply", "trust", "policyPending", "floorPending"}
    [] t = "floor"         -> {"attempt", "supply", "trust", "policyPending", "floorPending", "policy"}
    [] t \in {"verify", "publishPolicy"} -> {"attempt", "supply", "trust", "policyPending", "floorPending",
                                             "policy", "floor"}
    [] t = "publishFloor"  -> Marks \ {"publishFloor", "complete"}
    [] t \in {"reverify", "complete"} -> Marks \ {"complete"}
    [] t \in {"close", "done"} -> Marks
    [] OTHER               -> {}

Place(t) == CASE t = "publishPolicy" -> "supply"
              [] t = "publishFloor"  -> "trust"
              [] OTHER               -> Supply!Parent(t)
Mark(t, p)   == Entry(Place(t), Supply!Name(t), <<Supply!Name(t), p>>)
Staged(t, p) == Mark(Supply!Name(t), p)

Kept(g, e) == e \in g.now /\ e \in g.disk

\* What is left when a task is over.  A staged file keeps one of its two links.
Firm(g, t, p) ==
  /\ \/ Kept(g, Mark(t, p))
     \/ t = "policy" /\ Kept(g, Mark("publishPolicy", p))
     \/ t = "floor" /\ Kept(g, Mark("publishFloor", p))
  /\ t \in Supply!Creating => <<t, p>> \notin g.torn /\ <<t, p>> \notin g.loose
  /\ t \in Supply!Publishing => Staged(t, p) \notin Made(g)

Fit(g) ==
  /\ FileSystem(g)
  /\ \A e \in Made(g) : \E t \in Marks, p \in Attempts : e = Mark(t, p)
  /\ \A x \in g.torn \cup g.loose : \E t \in Supply!Creating, p \in Attempts : x = <<t, p>>
  /\ \A e \in g.disk : e \in g.now \/ \E t \in Supply!Publishing, p \in Attempts : e = Staged(t, p)

OneAttempt(g) == \A p, q \in Attempts : Mark("attempt", p) \in g.now /\ Mark("attempt", q) \in g.now => p = q
Sequenced(g)  == \A t \in Marks, p \in Attempts : Mark(t, p) \in Made(g) => \A s \in Preceding(t) : Firm(g, s, p)

Sound(g) == Fit(g) /\ OneAttempt(g) /\ Sequenced(g)

Reached(g, at, p) ==
  /\ \A s \in Preceding(at) : Firm(g, s, p)
  /\ \A t \in Marks : Mark(t, p) \in Made(g) =>
       /\ at \notin {"off", "look"}
       /\ at \in Supply!Running => t \in Preceding(at) \cup {at}

Underway(g, at, call, p) ==
  /\ at \in Supply!Creating =>
       /\ call = "sync" => <<at, p>> \notin g.torn
       /\ call = "syncdir" => <<at, p>> \notin g.torn /\ <<at, p>> \notin g.loose
       /\ call \in {"write", "sync", "syncdir"} => Mark(at, p) \in g.now
  /\ at \in Supply!Making /\ call = "syncdir" => Mark(at, p) \in g.now
  /\ at \in Supply!Publishing =>
       /\ call \in {"sync", "unlink", "syncsource", "resync"} => Mark(at, p) \in g.now
       /\ call \in {"unlink", "syncsource", "resync"} => Mark(at, p) \in g.disk
       /\ call \in {"syncsource", "resync"} => Staged(at, p) \notin g.now
       /\ call = "resync" => Staged(at, p) \notin g.disk

Calls == {"go", "create", "write", "sync", "syncdir", "mkdir", "link", "unlink", "syncsource", "resync"}

\* The tasks of an installer whose files have been read.
Later == {"publishPolicy", "publishFloor", "reverify", "complete", "close", "done"}

Stands(p)   == Reached(fs, task[p], p) /\ Underway(fs, task[p], step[p], p)
Checked(p)  == /\ task[p] \in Later => p \in verified
               /\ p \in verified => task[p] \in Later \cup {"failed"}
               /\ Mark("publishPolicy", p) \in Made(fs) => p \in verified
               /\ p \in verified => Firm(fs, "policy", p) /\ Firm(fs, "floor", p)
PairsSeen   == \A s \in seen : \E p \in verified \cap Attempts :
                 s = <<<<"policy", p>>, <<"floor", p>>>> /\ Firm(fs, "attempt", p)
SupplyTypes == task \in [Attempts -> Supply!Tasks] /\ step \in [Attempts -> Calls] /\ verified \subseteq Attempts

SupplyInv == SupplyTypes /\ Sound(fs) /\ PairsSeen /\ \A p \in Attempts : Stands(p) /\ Checked(p)

LEMMA TaskSets ==
  /\ Supply!Making = {"supply", "trust", "policyPending", "floorPending"}
  /\ Supply!Creating = {"attempt", "policy", "floor", "complete"}
  /\ Supply!Publishing = {"publishPolicy", "publishFloor"}
  /\ Supply!Reading = {"verify", "reverify"}
  /\ Supply!Running = Marks \cup {"look", "verify", "reverify", "close"}
  BY DEF Supply!Making, Supply!Creating, Supply!Publishing, Supply!Reading, Supply!Running, Marks

LEMMA Steps ==
  /\ Supply!Running \subseteq Supply!Tasks /\ "done" \in Supply!Tasks /\ "failed" \in Supply!Tasks
  /\ "off" \in Supply!Tasks
  /\ \A t \in Supply!Running : Supply!After(t) \in Supply!Tasks
  /\ \A t \in Marks : Preceding(Supply!After(t)) = Preceding(t) \cup {t}
  /\ \A t \in {"look", "verify", "reverify", "close"} : Preceding(Supply!After(t)) = Preceding(t)
  /\ \A t \in Supply!Running : Supply!After(t) \notin {"off", "look", "failed"}
  /\ Supply!After("verify") = "publishPolicy" /\ Supply!After("close") = "done" /\ Supply!After("look") = "attempt"
  /\ \A t \in Supply!Running \ {"verify"} : Supply!After(t) \in Later => t \in Later
  /\ \A t \in Supply!Running \cap Later : Supply!After(t) \in Later
  /\ \A t \in Marks : Supply!After(t) # "done"
<1>1. Len(Supply!Order) = 15 /\ 1 .. 15 = {1, 2, 3, 4, 5, 6, 7, 8, 9, 10, 11, 12, 13, 14, 15}
  BY DEF Supply!Order
<1>2. /\ Supply!Order[1] = "look" /\ Supply!Order[2] = "attempt" /\ Supply!Order[3] = "supply"
      /\ Supply!Order[4] = "trust" /\ Supply!Order[5] = "policyPending" /\ Supply!Order[6] = "floorPending"
      /\ Supply!Order[7] = "policy" /\ Supply!Order[8] = "floor" /\ Supply!Order[9] = "verify"
      /\ Supply!Order[10] = "publishPolicy" /\ Supply!Order[11] = "publishFloor" /\ Supply!Order[12] = "reverify"
      /\ Supply!Order[13] = "complete" /\ Supply!Order[14] = "close" /\ Supply!Order[15] = "done"
  BY DEF Supply!Order
<1>3. Supply!Tasks = {"look", "attempt", "supply", "trust", "policyPending", "floorPending", "policy", "floor",
                      "verify", "publishPolicy", "publishFloor", "reverify", "complete", "close", "done",
                      "off", "failed"}
  <2>1. Supply!Tasks = {Supply!Order[i] : i \in {1, 2, 3, 4, 5, 6, 7, 8, 9, 10, 11, 12, 13, 14, 15}} \cup {"off", "failed"}
    BY <1>1 DEF Supply!Tasks
  <2> QED
    BY <1>2, <2>1
<1>4. ASSUME NEW i \in 1 .. 14 PROVE Supply!After(Supply!Order[i]) = Supply!Order[i + 1]
  <2>1. \A j \in 1 .. 15 : Supply!Order[j] = Supply!Order[i] => j = i
    BY <1>1, <1>2
  <2>2. (CHOOSE j \in 1 .. Len(Supply!Order) : Supply!Order[j] = Supply!Order[i]) = i
    BY <1>1, <2>1
  <2> QED
    BY <2>2 DEF Supply!After
<1>5. /\ Supply!After("look") = "attempt" /\ Supply!After("attempt") = "supply" /\ Supply!After("supply") = "trust"
      /\ Supply!After("trust") = "policyPending" /\ Supply!After("policyPending") = "floorPending"
      /\ Supply!After("floorPending") = "policy" /\ Supply!After("policy") = "floor"
      /\ Supply!After("floor") = "verify" /\ Supply!After("verify") = "publishPolicy"
      /\ Supply!After("publishPolicy") = "publishFloor" /\ Supply!After("publishFloor") = "reverify"
      /\ Supply!After("reverify") = "complete" /\ Supply!After("complete") = "close" /\ Supply!After("close") = "done"
  BY <1>2, <1>4
<1>6. Supply!Running = {"look", "attempt", "supply", "trust", "policyPending", "floorPending", "policy", "floor",
                        "verify", "publishPolicy", "publishFloor", "reverify", "complete", "close"}
  BY TaskSets DEF Marks
<1>7. \A t \in Marks : Preceding(Supply!After(t)) = Preceding(t) \cup {t}
  BY <1>5 DEF Marks, Preceding
<1>8. \A t \in {"look", "verify", "reverify", "close"} : Preceding(Supply!After(t)) = Preceding(t)
  BY <1>5 DEF Preceding
<1>9. \A t \in Supply!Running : Supply!After(t) \in Supply!Tasks /\ Supply!After(t) \notin {"off", "look", "failed"}
  BY <1>3, <1>5, <1>6
<1>10. /\ \A t \in Supply!Running \ {"verify"} : Supply!After(t) \in Later => t \in Later
       /\ \A t \in Supply!Running \cap Later : Supply!After(t) \in Later
  BY <1>5, <1>6 DEF Later
<1>11. \A t \in Marks : Supply!After(t) # "done"
  BY <1>5 DEF Marks
<1> QED
  BY <1>3, <1>5, <1>6, <1>7, <1>8, <1>9, <1>10, <1>11

LEMMA PrecedingFacts ==
  /\ \A t : Preceding(t) \subseteq Marks
  /\ \A t \in Marks : t \notin Preceding(t)
  /\ \A t : \A s \in Preceding(t) : Preceding(s) \subseteq Preceding(t)
  /\ \A t \in Marks : t # "attempt" => "attempt" \in Preceding(t)
<1>1. \A t : Preceding(t) \subseteq Marks
  BY DEF Marks, Preceding
<1>2. \A t \in Marks : t \notin Preceding(t)
  BY DEF Marks, Preceding
<1>3. \A t \in Marks : t # "attempt" => "attempt" \in Preceding(t)
  BY DEF Marks, Preceding
<1>4. ASSUME NEW t, NEW s \in Preceding(t) PROVE Preceding(s) \subseteq Preceding(t)
  <2>1. s \in Marks
    BY <1>1
  <2> QED
    BY <2>1 DEF Marks, Preceding
<1> QED
  BY <1>1, <1>2, <1>3, <1>4

LEMMA MarkFacts ==
  /\ \A t \in Marks : \A p : /\ Mark(t, p).dir = Place(t) /\ Mark(t, p).name = Supply!Name(t)
                             /\ Mark(t, p).file = <<Supply!Name(t), p>>
  /\ \A t, s \in Marks : \A p, q : Mark(t, p) = Mark(s, q) => t = s /\ p = q
  /\ \A t \in Marks \ Supply!Publishing : Supply!Name(t) = t /\ Place(t) = Supply!Parent(t)
  /\ \A t \in Supply!Publishing : Supply!Name(t) \in {"policy", "floor"} /\ Place(t) = Supply!Target(t)
                                  /\ Place(Supply!Name(t)) = Supply!Source(t)
  /\ Supply!Name("publishPolicy") = "policy" /\ Supply!Name("publishFloor") = "floor"
  /\ Place("publishPolicy") = "supply" /\ Place("publishFloor") = "trust"
  /\ Place("policy") = "policyPending" /\ Place("floor") = "floorPending"
  /\ \A t \in {"attempt", "complete", "trust"} : Place(t) = "base"
  /\ Place("supply") = "config" /\ Place("policyPending") = "supply" /\ Place("floorPending") = "trust"
<1>1. \A t \in Marks \ Supply!Publishing : Supply!Name(t) = t /\ Place(t) = Supply!Parent(t)
  BY TaskSets DEF Supply!Name, Place
<1>2. /\ Supply!Name("publishPolicy") = "policy" /\ Supply!Name("publishFloor") = "floor"
      /\ Place("publishPolicy") = "supply" /\ Place("publishFloor") = "trust"
  BY DEF Supply!Name, Place
<1>3. /\ Place("policy") = "policyPending" /\ Place("floor") = "floorPending"
      /\ \A t \in {"attempt", "complete", "trust"} : Place(t) = "base"
      /\ Place("supply") = "config" /\ Place("policyPending") = "supply" /\ Place("floorPending") = "trust"
  BY DEF Place, Supply!Parent
<1>4. \A t \in Supply!Publishing : Supply!Name(t) \in {"policy", "floor"} /\ Place(t) = Supply!Target(t)
                                   /\ Place(Supply!Name(t)) = Supply!Source(t)
  BY <1>2, <1>3, TaskSets DEF Supply!Target, Supply!Source
<1>5. \A t, p : /\ Mark(t, p).dir = Place(t) /\ Mark(t, p).name = Supply!Name(t)
                /\ Mark(t, p).file = <<Supply!Name(t), p>>
  BY DEF Mark, Entry
<1>6. ASSUME NEW t \in Marks, NEW s \in Marks, Place(t) = Place(s), Supply!Name(t) = Supply!Name(s) PROVE t = s
  <2>1. Marks = (Marks \ Supply!Publishing) \cup {"publishPolicy", "publishFloor"}
    BY TaskSets DEF Marks
  <2>2. CASE t \in Marks \ Supply!Publishing /\ s \in Marks \ Supply!Publishing
    BY <1>1, <1>6, <2>2
  <2>3. CASE t \in {"publishPolicy", "publishFloor"} /\ s \in Marks \ Supply!Publishing
    BY <1>1, <1>2, <1>3, <1>6, <2>3
  <2>4. CASE s \in {"publishPolicy", "publishFloor"} /\ t \in Marks \ Supply!Publishing
    BY <1>1, <1>2, <1>3, <1>6, <2>4
  <2>5. CASE t \in {"publishPolicy", "publishFloor"} /\ s \in {"publishPolicy", "publishFloor"}
    BY <1>2, <1>6, <2>5
  <2> QED
    BY <2>1, <2>2, <2>3, <2>4, <2>5
<1>7. ASSUME NEW t \in Marks, NEW s \in Marks, NEW p, NEW q, Mark(t, p) = Mark(s, q) PROVE t = s /\ p = q
  <2>1. Place(t) = Place(s) /\ Supply!Name(t) = Supply!Name(s) /\ <<Supply!Name(t), p>> = <<Supply!Name(s), q>>
    BY <1>5, <1>7
  <2> QED
    BY <1>6, <2>1
<1> QED
  BY <1>1, <1>2, <1>3, <1>4, <1>5, <1>7

LEMMA LaterFacts ==
  /\ \A t \in Later : "attempt" \in Preceding(t) /\ "policy" \in Preceding(t) /\ "floor" \in Preceding(t)
  /\ \A t \in Supply!Publishing : Supply!Name(t) \in Preceding(t) /\ "attempt" \in Preceding(t)
  /\ Supply!Publishing \subseteq Later
<1>1. \A t \in Later : "attempt" \in Preceding(t) /\ "policy" \in Preceding(t) /\ "floor" \in Preceding(t)
  BY DEF Later, Preceding, Marks
<1>2. \A t \in Supply!Publishing : Supply!Name(t) \in Preceding(t) /\ "attempt" \in Preceding(t)
  BY <1>1, TaskSets, MarkFacts DEF Later
<1> QED
  BY <1>1, <1>2, TaskSets DEF Later

\* What a step of an installer at a task that makes an entry does to the files.
Changed(t, p) ==
  /\ FileSystem(fs')
  /\ \A e \in Made(fs') : e \in Made(fs) \/ e = Mark(t, p)
  /\ \A e \in fs'.now : e \in fs.now \/ e = Mark(t, p)
  /\ \A e \in fs.now : e \in fs'.now \/ (t \in Supply!Publishing /\ e = Staged(t, p) /\ Kept(fs', Mark(t, p)))
  /\ \A e \in fs.disk : e \in fs'.disk \/ e \notin fs.now
  /\ \A e \in fs'.disk : e \in fs'.now \/ (e \in fs.disk /\ e \notin fs.now) \/ (t \in Supply!Publishing /\ e = Staged(t, p))
  /\ \A x \in fs'.torn : x \in fs.torn \/ (x = <<t, p>> /\ t \in Supply!Creating)
  /\ \A x \in fs'.loose : x \in fs.loose \/ (x = <<t, p>> /\ t \in Supply!Creating)
  /\ t = "attempt" => Mark(t, p) \in fs.now \/ Mark(t, p) \notin fs'.now \/ Absent(fs, "base", "attempt")

LEMMA StagedFacts ==
  ASSUME NEW t \in Supply!Publishing, NEW p
  PROVE  /\ Staged(t, p) = Mark(Supply!Name(t), p) /\ Supply!Name(t) \in Marks
         /\ t = "publishPolicy" => Supply!Name(t) = "policy"
         /\ t = "publishFloor" => Supply!Name(t) = "floor"
         /\ t \in Marks /\ (t = "publishPolicy" \/ t = "publishFloor") /\ Supply!Name(t) # t
  BY MarkFacts, TaskSets DEF Staged, Marks

LEMMA FirmStays ==
  ASSUME NEW t \in Marks, NEW p \in Attempts, Changed(t, p),
         NEW s \in Marks, NEW q \in Attempts, q # p \/ s \in Preceding(t), Firm(fs, s, q)
  PROVE  Firm(fs', s, q)
<1>1. <<s, q>> # <<t, p>>
  BY PrecedingFacts
<1>2. ASSUME NEW u \in Marks, Kept(fs, Mark(u, q))
      PROVE  Kept(fs', Mark(u, q)) \/ (t \in Supply!Publishing /\ q = p /\ u = Supply!Name(t) /\ Kept(fs', Mark(t, p)))
  <2>1. Mark(u, q) \in fs'.disk
    BY <1>2 DEF Kept, Changed
  <2>2. CASE Mark(u, q) \in fs'.now
    BY <2>1, <2>2 DEF Kept
  <2>3. CASE Mark(u, q) \notin fs'.now
    <3>1. t \in Supply!Publishing /\ Mark(u, q) = Staged(t, p) /\ Kept(fs', Mark(t, p))
      BY <1>2, <2>3 DEF Kept, Changed
    <3>2. u = Supply!Name(t) /\ q = p
      BY <3>1, StagedFacts, MarkFacts
    <3> QED
      BY <3>1, <3>2
  <2> QED
    BY <2>2, <2>3
<1>3. \/ Kept(fs', Mark(s, q))
      \/ s = "policy" /\ Kept(fs', Mark("publishPolicy", q))
      \/ s = "floor" /\ Kept(fs', Mark("publishFloor", q))
  <2>1. CASE Kept(fs, Mark(s, q))
    BY <1>2, <2>1, StagedFacts
  <2>2. CASE s = "policy" /\ Kept(fs, Mark("publishPolicy", q))
    <3>1. "publishPolicy" \in Marks /\ \A u \in Supply!Publishing : Supply!Name(u) # "publishPolicy"
      BY StagedFacts, TaskSets DEF Marks
    <3> QED
      BY <1>2, <2>2, <3>1
  <2>3. CASE s = "floor" /\ Kept(fs, Mark("publishFloor", q))
    <3>1. "publishFloor" \in Marks /\ \A u \in Supply!Publishing : Supply!Name(u) # "publishFloor"
      BY StagedFacts, TaskSets DEF Marks
    <3> QED
      BY <1>2, <2>3, <3>1
  <2> QED
    BY <2>1, <2>2, <2>3 DEF Firm
<1>4. s \in Supply!Creating => <<s, q>> \notin fs'.torn /\ <<s, q>> \notin fs'.loose
  BY <1>1 DEF Firm, Changed
<1>5. ASSUME s \in Supply!Publishing PROVE Staged(s, q) \notin Made(fs')
  <2>1. Staged(s, q) # Mark(t, p)
    <3> SUFFICES ASSUME Staged(s, q) = Mark(t, p) PROVE FALSE
      OBVIOUS
    <3>1. q = p /\ t = Supply!Name(s)
      BY <1>5, StagedFacts, MarkFacts
    <3>2. t \in Preceding(s) /\ s \in Preceding(t)
      BY <1>5, <3>1, LaterFacts
    <3> QED
      BY <3>2, PrecedingFacts
  <2> QED
    BY <1>5, <2>1 DEF Firm, Changed
<1> QED
  BY <1>3, <1>4, <1>5 DEF Firm

LEMMA SoundStays ==
  ASSUME Sound(fs), NEW t \in Marks, NEW p \in Attempts, Changed(t, p), Reached(fs, t, p)
  PROVE  Sound(fs')
<1>1. Fit(fs')
  <2>1. \A e \in Made(fs') : \E u \in Marks, q \in Attempts : e = Mark(u, q)
    BY DEF Changed, Sound, Fit
  <2>2. \A x \in fs'.torn \cup fs'.loose : \E u \in Supply!Creating, q \in Attempts : x = <<u, q>>
    BY DEF Changed, Sound, Fit
  <2>3. \A e \in fs'.disk : e \in fs'.now \/ \E u \in Supply!Publishing, q \in Attempts : e = Staged(u, q)
    BY DEF Changed, Sound, Fit
  <2> QED
    BY <2>1, <2>2, <2>3 DEF Changed, Fit
<1>2. OneAttempt(fs')
  <2> SUFFICES ASSUME NEW q \in Attempts, NEW r \in Attempts,
                      Mark("attempt", q) \in fs'.now, Mark("attempt", r) \in fs'.now
               PROVE  q = r
    BY DEF OneAttempt
  <2>1. "attempt" \in Marks /\ Supply!Name("attempt") = "attempt" /\ Place("attempt") = "base"
    BY MarkFacts, TaskSets DEF Marks
  <2>2. ASSUME NEW u \in Attempts, Mark("attempt", u) \in fs'.now
        PROVE  Mark("attempt", u) \in fs.now \/ (t = "attempt" /\ u = p /\ Absent(fs, "base", "attempt"))
    <3>1. CASE Mark("attempt", u) \in fs.now
      BY <3>1
    <3>2. CASE Mark("attempt", u) \notin fs.now
      <4>1. Mark("attempt", u) = Mark(t, p)
        BY <2>2, <3>2 DEF Changed
      <4>2. t = "attempt" /\ u = p
        BY <2>1, <4>1, MarkFacts
      <4> QED
        BY <2>2, <3>2, <4>2 DEF Changed
    <3> QED
      BY <3>1, <3>2
  <2>3. Absent(fs, "base", "attempt") => \A u \in Attempts : Mark("attempt", u) \notin fs.now
    BY <2>1, MarkFacts DEF Absent, Named
  <2> QED
    BY <2>2, <2>3 DEF Sound, OneAttempt
<1>3. Sequenced(fs')
  <2> SUFFICES ASSUME NEW u \in Marks, NEW q \in Attempts, Mark(u, q) \in Made(fs'), NEW s \in Preceding(u)
               PROVE  Firm(fs', s, q)
    BY DEF Sequenced
  <2>1. s \in Marks
    BY PrecedingFacts
  <2>2. CASE u = t /\ q = p
    BY <2>1, <2>2, FirmStays DEF Reached
  <2>3. CASE ~(u = t /\ q = p)
    <3>1. Mark(u, q) \in Made(fs)
      BY <2>3, MarkFacts DEF Changed
    <3>2. Firm(fs, s, q)
      BY <3>1 DEF Sound, Sequenced
    <3>3. q # p \/ s \in Preceding(t)
      <4>1. CASE q = p
        <5>1. t \in Supply!Running
          BY TaskSets
        <5>2. u \in Preceding(t)
          BY <2>3, <3>1, <4>1, <5>1 DEF Reached
        <5> QED
          BY <5>2, PrecedingFacts
      <4> QED
        BY <4>1
    <3> QED
      BY <2>1, <3>2, <3>3, FirmStays
  <2> QED
    BY <2>2, <2>3
<1> QED
  BY <1>1, <1>2, <1>3 DEF Sound

LEMMA OthersStand ==
  ASSUME Sound(fs), NEW t \in Marks, NEW p \in Attempts, Changed(t, p),
         NEW q \in Attempts, q # p, task'[q] = task[q], step'[q] = step[q], verified' = verified,
         Stands(q), Checked(q)
  PROVE  Stands(q)' /\ Checked(q)'
<1>1. \A s \in Marks : Firm(fs, s, q) => Firm(fs', s, q)
  BY FirmStays
<1>2. \A s \in Marks : Mark(s, q) # Mark(t, p)
  BY MarkFacts
<1>3. \A s \in Marks : Mark(s, q) \in Made(fs') => Mark(s, q) \in Made(fs)
  BY <1>2 DEF Changed
<1>4. \A s \in Marks : Mark(s, q) \in fs.now => Mark(s, q) \in fs'.now
  <2>1. t \in Supply!Publishing => \A s \in Marks : Mark(s, q) # Staged(t, p)
    BY StagedFacts, MarkFacts
  <2> QED
    BY <2>1 DEF Changed
<1>5. \A s \in Marks : Mark(s, q) \in fs.now /\ Mark(s, q) \in fs.disk => Mark(s, q) \in fs'.disk
  BY DEF Changed
<1>6. \A s : (<<s, q>> \in fs'.torn => <<s, q>> \in fs.torn) /\ (<<s, q>> \in fs'.loose => <<s, q>> \in fs.loose)
  BY DEF Changed
<1> DEFINE at == task[q]  call == step[q]
<1>7. Reached(fs, at, q) /\ Underway(fs, at, call, q)
  BY DEF Stands
<1> HIDE DEF at, call
<1>8. Reached(fs', at, q)
  BY <1>1, <1>3, <1>7, PrecedingFacts DEF Reached
<1>9. Underway(fs', at, call, q)
  <2>1. ASSUME at \in Supply!Creating \cup Supply!Making \cup Supply!Publishing PROVE at \in Marks
    BY <2>1, TaskSets DEF Marks
  <2>2. at \in Supply!Creating =>
          /\ call = "sync" => <<at, q>> \notin fs'.torn
          /\ call = "syncdir" => <<at, q>> \notin fs'.torn /\ <<at, q>> \notin fs'.loose
          /\ call \in {"write", "sync", "syncdir"} => Mark(at, q) \in fs'.now
    BY <1>4, <1>6, <1>7, <2>1 DEF Underway
  <2>3. at \in Supply!Making /\ call = "syncdir" => Mark(at, q) \in fs'.now
    BY <1>4, <1>7, <2>1 DEF Underway
  <2>4. ASSUME at \in Supply!Publishing
        PROVE  /\ call \in {"sync", "unlink", "syncsource", "resync"} => Mark(at, q) \in fs'.now
               /\ call \in {"unlink", "syncsource", "resync"} => Mark(at, q) \in fs'.disk
               /\ call \in {"syncsource", "resync"} => Staged(at, q) \notin fs'.now
               /\ call = "resync" => Staged(at, q) \notin fs'.disk
    <3>1. Staged(at, q) = Mark(Supply!Name(at), q) /\ Supply!Name(at) \in Marks
      BY <2>4, StagedFacts
    <3>2. Staged(at, q) \in fs'.now => Staged(at, q) \in fs.now
      BY <1>2, <3>1 DEF Changed
    <3>3. Staged(at, q) \in fs'.disk => Staged(at, q) \in Made(fs)
      BY <1>3, <3>1 DEF Made
    <3>4. Staged(at, q) \in Made(fs) => Staged(at, q) \in fs.now \/ Staged(at, q) \in fs.disk
      BY DEF Made
    <3> QED
      BY <1>4, <1>5, <1>7, <2>1, <2>4, <3>2, <3>3, <3>4 DEF Underway
  <2> QED
    BY <2>2, <2>3, <2>4 DEF Underway
<1>10. Stands(q)'
  BY <1>8, <1>9 DEF Stands, at, call
<1>11. Checked(q)'
  <2>1. {"policy", "floor", "publishPolicy"} \subseteq Marks
    BY DEF Marks
  <2> QED
    BY <1>1, <1>3, <2>1 DEF Checked
<1> QED
  BY <1>10, <1>11

LEMMA OwnReached ==
  ASSUME NEW t \in Marks, NEW p \in Attempts, Changed(t, p), Reached(fs, t, p)
  PROVE  Reached(fs', t, p)
<1>1. \A s \in Preceding(t) : Firm(fs', s, p)
  BY FirmStays, PrecedingFacts DEF Reached
<1>2. t \in Supply!Running /\ t \notin {"off", "look"}
  BY TaskSets DEF Marks
<1>3. ASSUME NEW s \in Marks, Mark(s, p) \in Made(fs') PROVE s \in Preceding(t) \cup {t}
  <2>1. CASE s = t
    BY <2>1
  <2>2. CASE s # t
    <3>1. Mark(s, p) \in Made(fs)
      BY <1>3, <2>2, MarkFacts DEF Changed
    <3> QED
      BY <1>2, <3>1 DEF Reached
  <2> QED
    BY <2>1, <2>2
<1> QED
  BY <1>1, <1>2, <1>3 DEF Reached

LEMMA ThenReached ==
  ASSUME NEW g, NEW t \in Marks, NEW p \in Attempts, Reached(g, t, p), Firm(g, t, p)
  PROVE  Reached(g, Supply!After(t), p)
<1>1. Preceding(Supply!After(t)) = Preceding(t) \cup {t} /\ Supply!After(t) \notin {"off", "look"}
  BY Steps, TaskSets
<1>2. t \in Supply!Running
  BY TaskSets
<1> QED
  BY <1>1, <1>2 DEF Reached

\* Each system call changes only the entry of its own task, or its staged one.
LEMMA CallsChange ==
  ASSUME Sound(fs), NEW t \in Marks, NEW p \in Attempts, Reached(fs, t, p),
         \/ t \in Supply!Creating /\ Absent(fs, Place(t), t) /\ fs' = Created(fs, Place(t), t, <<t, p>>)
         \/ t \in Supply!Creating /\ (fs' = Written(fs, <<t, p>>) \/ fs' = FileSynced(fs, <<t, p>>))
         \/ t # "attempt" /\ fs' = Enter(fs, Place(t), Supply!Name(t), <<Supply!Name(t), p>>)
         \/ \E d : fs' = Synced(fs, d)
         \/ /\ t \in Supply!Publishing /\ Kept(fs, Mark(t, p))
            /\ fs' = Remove(fs, Place(Supply!Name(t)), Supply!Name(t))
  PROVE  Changed(t, p)
<1>0. FileSystem(fs)
  BY DEF Sound, Fit
<1>1. CASE t \in Supply!Creating /\ Absent(fs, Place(t), t) /\ fs' = Created(fs, Place(t), t, <<t, p>>)
  <2>1. Supply!Name(t) = t /\ (t = "attempt" => Place(t) = "base")
    BY <1>1, MarkFacts, TaskSets
  <2>2. /\ FileSystem(fs') /\ fs'.now = fs.now \cup {Mark(t, p)} /\ fs'.disk = fs.disk
        /\ fs'.torn = fs.torn \cup {<<t, p>>} /\ fs'.loose = fs.loose
    BY <1>0, <1>1, <2>1, CreatedIs DEF Mark
  <2> QED
    BY <1>1, <2>1, <2>2 DEF Changed, Made
<1>2. CASE t \in Supply!Creating /\ fs' = Written(fs, <<t, p>>)
  <2>1. /\ FileSystem(fs') /\ fs'.now = fs.now /\ fs'.disk = fs.disk
        /\ fs'.torn = fs.torn \ {<<t, p>>} /\ fs'.loose = fs.loose \cup {<<t, p>>}
    BY <1>0, <1>2, WrittenIs
  <2> QED
    BY <1>2, <2>1 DEF Changed, Made
<1>3. CASE fs' = FileSynced(fs, <<t, p>>)
  <2>1. /\ FileSystem(fs') /\ fs'.now = fs.now /\ fs'.disk = fs.disk
        /\ fs'.torn = fs.torn /\ fs'.loose = fs.loose \ {<<t, p>>}
    BY <1>0, <1>3, FileSyncedIs
  <2> QED
    BY <2>1 DEF Changed, Made
<1>4. CASE t # "attempt" /\ fs' = Enter(fs, Place(t), Supply!Name(t), <<Supply!Name(t), p>>)
  <2>1. /\ FileSystem(fs') /\ fs'.now = fs.now \cup {Mark(t, p)} /\ fs'.disk = fs.disk
        /\ fs'.torn = fs.torn /\ fs'.loose = fs.loose
    BY <1>0, <1>4, EnterIs DEF Mark
  <2> QED
    BY <1>4, <2>1 DEF Changed, Made
<1>5. CASE \E d : fs' = Synced(fs, d)
  <2>1. PICK d : fs' = Synced(fs, d)
    BY <1>5
  <2>2. /\ FileSystem(fs') /\ fs'.now = fs.now /\ fs'.torn = fs.torn /\ fs'.loose = fs.loose
        /\ fs'.disk = {e \in fs.disk : e.dir # d} \cup {e \in fs.now : e.dir = d}
    BY <1>0, <2>1, SyncedIs
  <2> QED
    BY <2>2 DEF Changed, Made
<1>6. CASE /\ t \in Supply!Publishing /\ Kept(fs, Mark(t, p))
           /\ fs' = Remove(fs, Place(Supply!Name(t)), Supply!Name(t))
  <2> DEFINE n == Supply!Name(t)
  <2>1. n \in Marks /\ n # "attempt" /\ Supply!Name(n) = n /\ Staged(t, p) = Mark(n, p) /\ n # t
    BY <1>6, StagedFacts, MarkFacts, TaskSets
  <2>2. /\ FileSystem(fs') /\ fs'.now = fs.now \ Named(fs, Place(n), n) /\ fs'.disk = fs.disk
        /\ fs'.torn = fs.torn /\ fs'.loose = fs.loose
    BY <1>0, <1>6, RemoveIs
  <2> HIDE DEF n
  <2>3. Mark("attempt", p) \in fs.now
    <3>1. Firm(fs, "attempt", p)
      BY <1>6, LaterFacts DEF Reached
    <3> QED
      BY <3>1 DEF Firm, Kept
  <2>4. ASSUME NEW e \in Named(fs, Place(n), n) PROVE e = Mark(n, p)
    <3>1. e \in fs.now /\ e \in Made(fs) /\ e.dir = Place(n) /\ e.name = n
      BY DEF Named, Made
    <3>2. PICK u \in Marks, q \in Attempts : e = Mark(u, q)
      BY <3>1 DEF Sound, Fit
    <3>3. Place(u) = Place(n) /\ Supply!Name(u) = Supply!Name(n)
      BY <2>1, <3>1, <3>2, MarkFacts
    <3>4. e = Mark(n, q)
      BY <3>2, <3>3 DEF Mark
    <3>5. Mark(n, q) \in Made(fs) /\ "attempt" \in Preceding(n)
      BY <2>1, <3>1, <3>4, PrecedingFacts
    <3>6. Firm(fs, "attempt", q)
      BY <2>1, <3>5 DEF Sound, Sequenced
    <3>7. q = p
      BY <2>3, <3>6 DEF Sound, OneAttempt, Firm, Kept
    <3> QED
      BY <3>4, <3>7
  <2>5. Mark(t, p) # Mark(n, p)
    BY <2>1, MarkFacts
  <2>6. Kept(fs', Mark(t, p))
    BY <1>6, <2>2, <2>4, <2>5 DEF Kept
  <2>7. \A e \in fs.now : e \in fs'.now \/ e = Staged(t, p)
    BY <2>1, <2>2, <2>4
  <2>8. t # "attempt"
    BY <1>6, TaskSets
  <2>9. \A e \in fs'.disk : e \in fs'.now \/ e \notin fs.now \/ e = Staged(t, p)
    BY <2>7
  <2> QED
    BY <1>6, <2>2, <2>6, <2>7, <2>8, <2>9 DEF Changed, Made
<1> QED
  BY <1>1, <1>2, <1>3, <1>4, <1>5, <1>6

LEMMA CallsGoOn ==
  ASSUME NEW g, FileSystem(g), NEW t \in Marks, NEW p, NEW call, Underway(g, t, call, p), NEW to, NEW h,
         \/ t \in Supply!Creating /\ to = "write" /\ h = Created(g, Place(t), t, <<t, p>>)
         \/ t \in Supply!Creating /\ call = "write" /\ to = "sync" /\ h = Written(g, <<t, p>>)
         \/ t \in Supply!Creating /\ call = "sync" /\ to = "syncdir" /\ h = FileSynced(g, <<t, p>>)
         \/ t \in Supply!Making /\ to = "syncdir" /\ h = Enter(g, Place(t), t, <<t, p>>)
         \/ t \in Supply!Publishing /\ to = "sync" /\ h = Enter(g, Place(t), Supply!Name(t), <<Supply!Name(t), p>>)
         \/ t \in Supply!Publishing /\ call = "sync" /\ to = "unlink" /\ h = Synced(g, Place(t))
         \/ /\ t \in Supply!Publishing /\ call = "unlink" /\ to = "syncsource"
            /\ h = Remove(g, Place(Supply!Name(t)), Supply!Name(t))
         \/ t \in Supply!Publishing /\ call = "syncsource" /\ to = "resync" /\ h = Synced(g, Place(Supply!Name(t)))
  PROVE  Underway(h, t, to, p)
<1>1. /\ t \in Supply!Creating => t \notin Supply!Making /\ t \notin Supply!Publishing /\ Supply!Name(t) = t
      /\ t \in Supply!Making => t \notin Supply!Creating /\ t \notin Supply!Publishing /\ Supply!Name(t) = t
      /\ t \in Supply!Publishing => t \notin Supply!Creating /\ t \notin Supply!Making
  BY TaskSets, MarkFacts
<1>2. CASE t \in Supply!Creating /\ to = "write" /\ h = Created(g, Place(t), t, <<t, p>>)
  <2>1. h.now = g.now \cup {Mark(t, p)}
    BY <1>1, <1>2, CreatedIs DEF Mark
  <2> QED
    BY <1>1, <1>2, <2>1 DEF Underway
<1>3. CASE t \in Supply!Creating /\ call = "write" /\ to = "sync" /\ h = Written(g, <<t, p>>)
  <2>1. h.torn = g.torn \ {<<t, p>>} /\ h.now = g.now
    BY <1>3, WrittenIs
  <2> QED
    BY <1>1, <1>3, <2>1 DEF Underway
<1>4. CASE t \in Supply!Creating /\ call = "sync" /\ to = "syncdir" /\ h = FileSynced(g, <<t, p>>)
  <2>1. h.torn = g.torn /\ h.loose = g.loose \ {<<t, p>>} /\ h.now = g.now
    BY <1>4, FileSyncedIs
  <2> QED
    BY <1>1, <1>4, <2>1 DEF Underway
<1>5. CASE t \in Supply!Making /\ to = "syncdir" /\ h = Enter(g, Place(t), t, <<t, p>>)
  <2>1. h.now = g.now \cup {Mark(t, p)}
    BY <1>1, <1>5, EnterIs DEF Mark
  <2> QED
    BY <1>1, <1>5, <2>1 DEF Underway
<1>6. CASE t \in Supply!Publishing /\ to = "sync" /\ h = Enter(g, Place(t), Supply!Name(t), <<Supply!Name(t), p>>)
  <2>1. h.now = g.now \cup {Mark(t, p)}
    BY <1>6, EnterIs DEF Mark
  <2> QED
    BY <1>1, <1>6, <2>1 DEF Underway
<1>7. ASSUME t \in Supply!Publishing
      PROVE  /\ Mark(t, p).dir = Place(t) /\ Staged(t, p).dir = Place(Supply!Name(t))
             /\ Staged(t, p).name = Supply!Name(t) /\ Place(t) # Place(Supply!Name(t))
  <2>1. Staged(t, p) = Mark(Supply!Name(t), p) /\ Supply!Name(t) \in Marks \ Supply!Publishing
    BY <1>7, StagedFacts, MarkFacts, TaskSets
  <2>2. Place(t) # Place(Supply!Name(t))
    BY <1>7, MarkFacts, TaskSets
  <2> QED
    BY <2>1, <2>2, MarkFacts
<1>8. CASE t \in Supply!Publishing /\ call = "sync" /\ to = "unlink" /\ h = Synced(g, Place(t))
  <2>1. h.now = g.now /\ h.disk = {e \in g.disk : e.dir # Place(t)} \cup {e \in g.now : e.dir = Place(t)}
    BY <1>8, SyncedIs
  <2>2. Mark(t, p) \in g.now
    BY <1>8 DEF Underway
  <2>3. Mark(t, p) \in h.disk
    BY <1>7, <1>8, <2>1, <2>2
  <2> QED
    BY <1>1, <1>8, <2>1, <2>2, <2>3 DEF Underway
<1>9. CASE /\ t \in Supply!Publishing /\ call = "unlink" /\ to = "syncsource"
           /\ h = Remove(g, Place(Supply!Name(t)), Supply!Name(t))
  <2>1. h.now = g.now \ Named(g, Place(Supply!Name(t)), Supply!Name(t)) /\ h.disk = g.disk
    BY <1>9, RemoveIs
  <2>2. Mark(t, p) \in g.now /\ Mark(t, p) \in g.disk
    BY <1>9 DEF Underway
  <2>3. Mark(t, p) \in h.now /\ Staged(t, p) \notin h.now
    BY <1>7, <1>9, <2>1, <2>2 DEF Named
  <2> QED
    BY <1>1, <1>9, <2>1, <2>2, <2>3 DEF Underway
<1>10. CASE t \in Supply!Publishing /\ call = "syncsource" /\ to = "resync" /\ h = Synced(g, Place(Supply!Name(t)))
  <2> DEFINE d == Place(Supply!Name(t))
  <2>1. h.now = g.now /\ h.disk = {e \in g.disk : e.dir # d} \cup {e \in g.now : e.dir = d}
    BY <1>10, SyncedIs
  <2>2. Mark(t, p) \in g.now /\ Mark(t, p) \in g.disk /\ Staged(t, p) \notin g.now
    BY <1>10 DEF Underway
  <2>3. Mark(t, p) \in h.disk /\ Staged(t, p) \notin h.disk
    BY <1>7, <1>10, <2>1, <2>2
  <2> QED
    BY <1>1, <1>10, <2>1, <2>2, <2>3 DEF Underway
<1> QED
  BY <1>2, <1>3, <1>4, <1>5, <1>6, <1>8, <1>9, <1>10

LEMMA LastIsFirm ==
  ASSUME NEW g, FileSystem(g), NEW t \in Marks, NEW p, NEW call, Underway(g, t, call, p),
         \/ t \in Supply!Creating /\ call = "syncdir"
         \/ t \in Supply!Making /\ call = "syncdir"
         \/ t \in Supply!Publishing /\ call = "resync",
         NEW h, h = Synced(g, Place(t))
  PROVE  Firm(h, t, p)
<1>1. /\ h.now = g.now /\ h.torn = g.torn /\ h.loose = g.loose
      /\ h.disk = {e \in g.disk : e.dir # Place(t)} \cup {e \in g.now : e.dir = Place(t)}
  BY SyncedIs
<1>2. Mark(t, p) \in g.now /\ Mark(t, p).dir = Place(t)
  BY MarkFacts DEF Underway
<1>3. Kept(h, Mark(t, p))
  BY <1>1, <1>2 DEF Kept
<1>4. t \in Supply!Creating => <<t, p>> \notin h.torn /\ <<t, p>> \notin h.loose
  <2>1. t \in Supply!Creating => t \notin Supply!Publishing
    BY TaskSets
  <2> QED
    BY <1>1, <2>1 DEF Underway
<1>5. ASSUME t \in Supply!Publishing PROVE Staged(t, p) \notin Made(h)
  <2>1. call = "resync"
    BY <1>5, TaskSets
  <2>2. Staged(t, p) \notin g.now /\ Staged(t, p) \notin g.disk
    BY <1>5, <2>1 DEF Underway
  <2> QED
    BY <1>1, <2>2 DEF Made
<1> QED
  BY <1>3, <1>4, <1>5 DEF Firm

LEMMA WithChanged ==
  ASSUME SupplyInv, SupplyTypes', NEW p \in Attempts, task[p] \in Marks, Changed(task[p], p),
         \A q \in Attempts \ {p} : task'[q] = task[q] /\ step'[q] = step[q],
         verified' = verified, seen' = seen, Stands(p)',
         task'[p] = task[p] \/ task'[p] = Supply!After(task[p])
  PROVE  SupplyInv'
<1> DEFINE t == task[p]
<1>0. t \in Supply!Running /\ t \in Marks
  BY TaskSets
<1>1. Sound(fs')
  BY SoundStays DEF SupplyInv, Stands
<1>2. Checked(p)'
  <2>0. Checked(p)
    BY DEF SupplyInv
  <2>1. p \in verified => t \in Later
    BY <1>0, <2>0, Steps DEF Checked, Later, Marks
  <2>2. p \in verified => Firm(fs', "policy", p) /\ Firm(fs', "floor", p)
    <3>1. {"policy", "floor"} \subseteq Marks
      BY DEF Marks
    <3> QED
      BY <2>0, <2>1, <3>1, LaterFacts, FirmStays DEF Checked
  <2>3. task'[p] \in Later => p \in verified
    <3>1. CASE task'[p] = t
      BY <2>0, <3>1 DEF Checked
    <3>2. CASE task'[p] = Supply!After(t)
      <4>1. t # "verify"
        BY <1>0 DEF Marks
      <4>2. Supply!After(t) \in Later => t \in Later
        BY <1>0, <4>1, Steps
      <4> QED
        BY <2>0, <3>2, <4>2 DEF Checked
    <3> QED
      BY <3>1, <3>2
  <2>4. p \in verified => task'[p] \in Later
    BY <1>0, <2>1, Steps
  <2>5. Mark("publishPolicy", p) \in Made(fs') => p \in verified
    <3>1. CASE Mark("publishPolicy", p) \in Made(fs)
      BY <2>0, <3>1 DEF Checked
    <3>2. CASE Mark("publishPolicy", p) = Mark(t, p)
      <4>1. t = "publishPolicy"
        BY <1>0, <3>2, MarkFacts DEF Marks
      <4> QED
        BY <2>0, <4>1 DEF Checked, Later
    <3> QED
      BY <3>1, <3>2 DEF Changed
  <2> QED
    BY <2>2, <2>3, <2>4, <2>5 DEF Checked
<1>3. ASSUME NEW q \in Attempts PROVE Stands(q)' /\ Checked(q)'
  <2>1. CASE q = p
    BY <1>2, <2>1
  <2>2. CASE q # p
    BY <2>2, OthersStand DEF SupplyInv
  <2> QED
    BY <2>1, <2>2
<1>4. PairsSeen'
  <2> SUFFICES ASSUME NEW s \in seen
               PROVE  \E q \in verified \cap Attempts :
                        s = <<<<"policy", q>>, <<"floor", q>>>> /\ Firm(fs', "attempt", q)
    BY DEF PairsSeen
  <2>1. PICK q \in verified \cap Attempts : s = <<<<"policy", q>>, <<"floor", q>>>> /\ Firm(fs, "attempt", q)
    BY DEF SupplyInv, PairsSeen
  <2>2. q # p \/ "attempt" \in Preceding(t)
    <3>1. q = p => t \in Later \cup {"failed"}
      BY <2>1 DEF SupplyInv, Checked
    <3>2. t # "failed"
      BY <1>0 DEF Marks
    <3> QED
      BY <3>1, <3>2, LaterFacts
  <2>3. Firm(fs', "attempt", q)
    <3>1. "attempt" \in Marks
      BY DEF Marks
    <3> QED
      BY <2>1, <2>2, <3>1, FirmStays
  <2> QED
    BY <2>1, <2>3
<1> QED
  BY <1>1, <1>3, <1>4 DEF SupplyInv

\* One call of a task that makes an entry, and the last.
LEMMA OneCallKeeps ==
  ASSUME SupplyInv, NEW p \in Attempts, task[p] \in Marks, Changed(task[p], p),
         NEW from, NEW to \in Calls, NEW after,
         Supply!Call(p, from, to, after), Underway(fs', task[p], to, p)
  PROVE  SupplyInv'
<1>1. task' = task /\ step' = [step EXCEPT ![p] = to] /\ verified' = verified /\ seen' = seen
  BY DEF Supply!Call
<1>2. SupplyTypes'
  BY <1>1 DEF SupplyInv, SupplyTypes
<1>3. step'[p] = to /\ \A q \in Attempts \ {p} : task'[q] = task[q] /\ step'[q] = step[q]
  BY <1>1 DEF SupplyInv, SupplyTypes
<1>4. Reached(fs', task[p], p)
  BY OwnReached DEF SupplyInv, Stands
<1>5. Stands(p)'
  BY <1>1, <1>3, <1>4 DEF Stands
<1> QED
  BY <1>1, <1>2, <1>3, <1>5, WithChanged

LEMMA FirstFacts ==
  \A t : /\ Supply!First(t) \in {"create", "mkdir", "link", "go"} /\ Supply!First(t) \in Calls
         /\ \A g, p : Underway(g, t, Supply!First(t), p)
<1>1. ASSUME NEW t PROVE Supply!First(t) \in {"create", "mkdir", "link", "go"}
  BY DEF Supply!First
<1>2. ASSUME NEW t, NEW g, NEW p PROVE Underway(g, t, Supply!First(t), p)
  BY <1>1 DEF Underway
<1> QED
  BY <1>1, <1>2 DEF Calls

LEMMA LastCallKeeps ==
  ASSUME SupplyInv, NEW p \in Attempts, task[p] \in Marks, Changed(task[p], p),
         NEW from, NEW after, Supply!Last(p, from, after), verified' = verified, seen' = seen,
         Firm(fs', task[p], p)
  PROVE  SupplyInv'
<1>1. task' = [task EXCEPT ![p] = Supply!After(task[p])]
      /\ step' = [step EXCEPT ![p] = Supply!First(Supply!After(task[p]))]
  BY DEF Supply!Last
<1>2. Supply!After(task[p]) \in Supply!Tasks /\ Supply!First(Supply!After(task[p])) \in Calls
  BY TaskSets, Steps, FirstFacts
<1>3. SupplyTypes'
  BY <1>1, <1>2 DEF SupplyInv, SupplyTypes
<1>4. task'[p] = Supply!After(task[p]) /\ step'[p] = Supply!First(Supply!After(task[p]))
  BY <1>1 DEF SupplyInv, SupplyTypes
<1>5. \A q \in Attempts \ {p} : task'[q] = task[q] /\ step'[q] = step[q]
  BY <1>1 DEF SupplyInv, SupplyTypes
<1>6. Reached(fs', Supply!After(task[p]), p)
  BY OwnReached, ThenReached DEF SupplyInv, Stands
<1>7. Underway(fs', Supply!After(task[p]), Supply!First(Supply!After(task[p])), p)
  BY FirstFacts
<1>8. Stands(p)'
  BY <1>4, <1>6, <1>7 DEF Stands
<1> QED
  BY <1>3, <1>4, <1>5, <1>8, WithChanged

LEMMA SupplyCreate == ASSUME SupplyInv, NEW p \in Attempts, Supply!Create(p) PROVE SupplyInv'
<1> DEFINE t == task[p]  d == Place(t)  f == <<t, p>>
<1>1. t \in Supply!Creating /\ t \in Marks /\ Supply!Parent(t) = Place(t)
  BY TaskSets, MarkFacts DEF Marks, Supply!Create
<1>2. \/ Absent(fs, d, t) /\ Supply!Call(p, "create", "write", Created(fs, d, t, f))
      \/ Supply!Call(p, "write", "sync", Written(fs, f))
      \/ Supply!Call(p, "sync", "syncdir", FileSynced(fs, f))
      \/ Supply!Last(p, "syncdir", Synced(fs, d)) /\ verified' = verified /\ seen' = seen
  <2>1. \/ Supply!Absent(fs, d, t) /\ Supply!Call(p, "create", "write", Supply!Created(fs, d, t, f))
        \/ Supply!Call(p, "write", "sync", Supply!Written(fs, f))
        \/ Supply!Call(p, "sync", "syncdir", Supply!FileSynced(fs, f))
        \/ Supply!Last(p, "syncdir", Supply!Synced(fs, d)) /\ verified' = verified /\ seen' = seen
    BY <1>1 DEF Supply!Create
  <2> QED
    BY <2>1, SupplyFiles
<1> HIDE DEF t
<1>3. Sound(fs) /\ FileSystem(fs) /\ Reached(fs, t, p) /\ Underway(fs, t, step[p], p)
  BY DEF SupplyInv, Sound, Fit, Stands, t
<1>4. ASSUME NEW from, NEW to \in Calls, NEW after, Supply!Call(p, from, to, after),
             Changed(t, p), Underway(fs', t, to, p)
      PROVE  SupplyInv'
  BY <1>1, <1>4, OneCallKeeps DEF t
<1>5. {"write", "sync", "syncdir"} \subseteq Calls
  BY DEF Calls
<1>6. CASE Absent(fs, d, t) /\ Supply!Call(p, "create", "write", Created(fs, d, t, f))
  <2>1. fs' = Created(fs, d, t, f)
    BY <1>6 DEF Supply!Call
  <2>2. Changed(t, p)
    BY <1>1, <1>3, <1>6, <2>1, CallsChange
  <2>3. Underway(fs', t, "write", p)
    BY <1>1, <1>3, <2>1, CallsGoOn
  <2> QED
    BY <1>4, <1>5, <1>6, <2>2, <2>3
<1>7. CASE Supply!Call(p, "write", "sync", Written(fs, f))
  <2>1. fs' = Written(fs, f) /\ step[p] = "write"
    BY <1>7 DEF Supply!Call
  <2>2. Changed(t, p)
    BY <1>1, <1>3, <2>1, CallsChange
  <2>3. Underway(fs', t, "sync", p)
    BY <1>1, <1>3, <2>1, CallsGoOn
  <2> QED
    BY <1>4, <1>5, <1>7, <2>2, <2>3
<1>8. CASE Supply!Call(p, "sync", "syncdir", FileSynced(fs, f))
  <2>1. fs' = FileSynced(fs, f) /\ step[p] = "sync"
    BY <1>8 DEF Supply!Call
  <2>2. Changed(t, p)
    BY <1>1, <1>3, <2>1, CallsChange
  <2>3. Underway(fs', t, "syncdir", p)
    BY <1>1, <1>3, <2>1, CallsGoOn
  <2> QED
    BY <1>4, <1>5, <1>8, <2>2, <2>3
<1>9. CASE Supply!Last(p, "syncdir", Synced(fs, d)) /\ verified' = verified /\ seen' = seen
  <2>1. fs' = Synced(fs, d) /\ step[p] = "syncdir"
    BY <1>9 DEF Supply!Last
  <2>2. Changed(t, p)
    BY <1>1, <1>3, <2>1, CallsChange
  <2>3. Firm(fs', t, p)
    BY <1>1, <1>3, <2>1, LastIsFirm
  <2> QED
    BY <1>1, <1>9, <2>2, <2>3, LastCallKeeps DEF t
<1> QED
  BY <1>2, <1>6, <1>7, <1>8, <1>9

LEMMA SupplyMake == ASSUME SupplyInv, NEW p \in Attempts, Supply!Make(p) PROVE SupplyInv'
<1> DEFINE t == task[p]  d == Place(t)
<1>1. t \in Supply!Making /\ t \in Marks /\ Supply!Parent(t) = Place(t) /\ Supply!Name(t) = t /\ t # "attempt"
  BY TaskSets, MarkFacts DEF Marks, Supply!Make
<1>2. \/ Supply!Call(p, "mkdir", "syncdir", Enter(fs, d, t, <<t, p>>))
      \/ Supply!Last(p, "syncdir", Synced(fs, d)) /\ verified' = verified /\ seen' = seen
  <2>1. \/ Supply!Call(p, "mkdir", "syncdir", Supply!Enter(fs, d, t, <<t, p>>))
        \/ Supply!Last(p, "syncdir", Supply!Synced(fs, d)) /\ verified' = verified /\ seen' = seen
    BY <1>1 DEF Supply!Make
  <2> QED
    BY <2>1, SupplyFiles
<1> HIDE DEF t
<1>3. Sound(fs) /\ FileSystem(fs) /\ Reached(fs, t, p) /\ Underway(fs, t, step[p], p)
  BY DEF SupplyInv, Sound, Fit, Stands, t
<1>4. CASE Supply!Call(p, "mkdir", "syncdir", Enter(fs, d, t, <<t, p>>))
  <2>1. fs' = Enter(fs, d, t, <<t, p>>) /\ "syncdir" \in Calls
    BY <1>4 DEF Supply!Call, Calls
  <2>2. Changed(t, p)
    BY <1>1, <1>3, <2>1, CallsChange
  <2>3. Underway(fs', t, "syncdir", p)
    BY <1>1, <1>3, <2>1, CallsGoOn
  <2> QED
    BY <1>1, <1>4, <2>1, <2>2, <2>3, OneCallKeeps DEF t
<1>5. CASE Supply!Last(p, "syncdir", Synced(fs, d)) /\ verified' = verified /\ seen' = seen
  <2>1. fs' = Synced(fs, d) /\ step[p] = "syncdir"
    BY <1>5 DEF Supply!Last
  <2>2. Changed(t, p)
    BY <1>1, <1>3, <2>1, CallsChange
  <2>3. Firm(fs', t, p)
    BY <1>1, <1>3, <2>1, LastIsFirm
  <2> QED
    BY <1>1, <1>5, <2>2, <2>3, LastCallKeeps DEF t
<1> QED
  BY <1>2, <1>4, <1>5

LEMMA SupplyPublish == ASSUME SupplyInv, NEW p \in Attempts, Supply!Publish(p) PROVE SupplyInv'
<1> DEFINE t == task[p]  d == Place(t)  n == Supply!Name(t)  s == Place(n)
<1>1. t \in Supply!Publishing /\ t \in Marks /\ t # "attempt"
      /\ Supply!Target(t) = d /\ Supply!Source(t) = s
  BY TaskSets, MarkFacts DEF Marks, Supply!Publish
<1>2. \/ Supply!Call(p, "link", "sync", Enter(fs, d, n, <<n, p>>))
      \/ Supply!Call(p, "sync", "unlink", Synced(fs, d))
      \/ Supply!Call(p, "unlink", "syncsource", Remove(fs, s, n))
      \/ Supply!Call(p, "syncsource", "resync", Synced(fs, s))
      \/ Supply!Last(p, "resync", Synced(fs, d)) /\ verified' = verified /\ seen' = seen
  <2>1. \/ Supply!Call(p, "link", "sync", Supply!Enter(fs, d, n, <<n, p>>))
        \/ Supply!Call(p, "sync", "unlink", Supply!Synced(fs, d))
        \/ Supply!Call(p, "unlink", "syncsource", Supply!Remove(fs, s, n))
        \/ Supply!Call(p, "syncsource", "resync", Supply!Synced(fs, s))
        \/ Supply!Last(p, "resync", Supply!Synced(fs, d)) /\ verified' = verified /\ seen' = seen
    BY <1>1 DEF Supply!Publish
  <2> QED
    BY <2>1, SupplyFiles
<1> HIDE DEF t
<1>3. Sound(fs) /\ FileSystem(fs) /\ Reached(fs, t, p) /\ Underway(fs, t, step[p], p)
  BY DEF SupplyInv, Sound, Fit, Stands, t
<1>4. ASSUME NEW from, NEW to \in Calls, NEW after, Supply!Call(p, from, to, after),
             Changed(t, p), Underway(fs', t, to, p)
      PROVE  SupplyInv'
  BY <1>1, <1>4, OneCallKeeps DEF t
<1>5. {"sync", "unlink", "syncsource", "resync"} \subseteq Calls
  BY DEF Calls
<1>6. CASE Supply!Call(p, "link", "sync", Enter(fs, d, n, <<n, p>>))
  <2>1. fs' = Enter(fs, d, n, <<n, p>>)
    BY <1>6 DEF Supply!Call
  <2>2. Changed(t, p)
    BY <1>1, <1>3, <2>1, CallsChange
  <2>3. Underway(fs', t, "sync", p)
    BY <1>1, <1>3, <2>1, CallsGoOn
  <2> QED
    BY <1>4, <1>5, <1>6, <2>2, <2>3
<1>7. CASE Supply!Call(p, "sync", "unlink", Synced(fs, d))
  <2>1. fs' = Synced(fs, d) /\ step[p] = "sync"
    BY <1>7 DEF Supply!Call
  <2>2. Changed(t, p)
    BY <1>1, <1>3, <2>1, CallsChange
  <2>3. Underway(fs', t, "unlink", p)
    BY <1>1, <1>3, <2>1, CallsGoOn
  <2> QED
    BY <1>4, <1>5, <1>7, <2>2, <2>3
<1>8. CASE Supply!Call(p, "unlink", "syncsource", Remove(fs, s, n))
  <2>1. fs' = Remove(fs, s, n) /\ step[p] = "unlink"
    BY <1>8 DEF Supply!Call
  <2>2. Kept(fs, Mark(t, p))
    BY <1>1, <1>3, <2>1 DEF Underway, Kept
  <2>3. Changed(t, p)
    BY <1>1, <1>3, <2>1, <2>2, CallsChange
  <2>4. Underway(fs', t, "syncsource", p)
    BY <1>1, <1>3, <2>1, CallsGoOn
  <2> QED
    BY <1>4, <1>5, <1>8, <2>3, <2>4
<1>9. CASE Supply!Call(p, "syncsource", "resync", Synced(fs, s))
  <2>1. fs' = Synced(fs, s) /\ step[p] = "syncsource"
    BY <1>9 DEF Supply!Call
  <2>2. Changed(t, p)
    BY <1>1, <1>3, <2>1, CallsChange
  <2>3. Underway(fs', t, "resync", p)
    BY <1>1, <1>3, <2>1, CallsGoOn
  <2> QED
    BY <1>4, <1>5, <1>9, <2>2, <2>3
<1>10. CASE Supply!Last(p, "resync", Synced(fs, d)) /\ verified' = verified /\ seen' = seen
  <2>1. fs' = Synced(fs, d) /\ step[p] = "resync"
    BY <1>10 DEF Supply!Last
  <2>2. Changed(t, p)
    BY <1>1, <1>3, <2>1, CallsChange
  <2>3. Firm(fs', t, p)
    BY <1>1, <1>3, <2>1, LastIsFirm
  <2> QED
    BY <1>1, <1>10, <2>2, <2>3, LastCallKeeps DEF t
<1> QED
  BY <1>2, <1>6, <1>7, <1>8, <1>9, <1>10

\* A step that leaves the files alone.
LEMMA FilesUntouched ==
  ASSUME SupplyInv, SupplyTypes', NEW p \in Attempts, fs' = fs, PairsSeen',
         \A q \in Attempts \ {p} : /\ task'[q] = task[q] /\ step'[q] = step[q]
                                   /\ q \in verified' <=> q \in verified,
         Stands(p)', Checked(p)'
  PROVE  SupplyInv'
<1>1. Sound(fs')
  BY DEF SupplyInv
<1>2. ASSUME NEW q \in Attempts PROVE Stands(q)' /\ Checked(q)'
  <2>1. CASE q = p
    BY <2>1
  <2>2. CASE q # p
    <3>1. Stands(q) /\ Checked(q)
      BY DEF SupplyInv
    <3>2. task'[q] = task[q] /\ step'[q] = step[q] /\ (q \in verified' <=> q \in verified)
      BY <2>2
    <3>3. Stands(q)'
      BY <3>1, <3>2 DEF Stands
    <3>4. Checked(q)'
      BY <3>1, <3>2 DEF Checked
    <3> QED
      BY <3>3, <3>4
  <2> QED
    BY <2>1, <2>2
<1> QED
  BY <1>1, <1>2 DEF SupplyInv

\* What Look, Verify and Close do: the next task begins.
LEMMA NextTaskKeeps ==
  ASSUME SupplyInv, NEW p \in Attempts, NEW t \in {"look", "verify", "reverify", "close"}, task[p] = t,
         Supply!Last(p, "go", fs), seen' = seen,
         \/ t \in {"verify", "reverify"} /\ verified' = verified \cup {p}
         \/ t \in {"look", "close"} /\ verified' = verified
  PROVE  SupplyInv'
<1>1. /\ fs' = fs
      /\ task' = [task EXCEPT ![p] = Supply!After(t)]
      /\ step' = [step EXCEPT ![p] = Supply!First(Supply!After(t))]
  BY DEF Supply!Last
<1>2. t \in Supply!Running
  BY TaskSets
<1>3. SupplyTypes'
  <2>1. Supply!After(t) \in Supply!Tasks /\ Supply!First(Supply!After(t)) \in Calls
    BY <1>2, Steps, FirstFacts
  <2> QED
    BY <1>1, <2>1 DEF SupplyInv, SupplyTypes
<1>4. task'[p] = Supply!After(t) /\ step'[p] = Supply!First(Supply!After(t))
  BY <1>1 DEF SupplyInv, SupplyTypes
<1>5. \A q \in Attempts \ {p} : task'[q] = task[q] /\ step'[q] = step[q] /\ (q \in verified' <=> q \in verified)
  BY <1>1 DEF SupplyInv, SupplyTypes
<1>6. Reached(fs, t, p)
  BY DEF SupplyInv, Stands
<1>7. Reached(fs', Supply!After(t), p)
  <2>1. Preceding(Supply!After(t)) = Preceding(t) /\ Supply!After(t) \notin {"off", "look"}
    BY <1>2, Steps
  <2>2. t \notin Marks
    BY DEF Marks
  <2> QED
    BY <1>1, <1>2, <1>6, <2>1, <2>2 DEF Reached
<1>8. Stands(p)'
  BY <1>4, <1>7, FirstFacts DEF Stands
<1>9. Checked(p)
  BY DEF SupplyInv
<1>10. Checked(p)'
  <2>1. CASE t \in {"verify", "reverify"}
    <3>1. Firm(fs, "policy", p) /\ Firm(fs, "floor", p)
      <4>1. "policy" \in Preceding(t) /\ "floor" \in Preceding(t)
        BY <2>1 DEF Preceding, Marks
      <4> QED
        BY <1>6, <4>1 DEF Reached
    <3>2. Supply!After(t) \in Later
      <4>1. CASE t = "verify"
        BY <4>1, Steps DEF Later
      <4>2. CASE t = "reverify"
        BY <1>2, <4>2, Steps DEF Later
      <4> QED
        BY <2>1, <4>1, <4>2
    <3>3. p \in verified'
      BY <2>1
    <3> QED
      BY <1>1, <1>4, <3>1, <3>2, <3>3 DEF Checked
  <2>2. CASE t \in {"look", "close"}
    <3>1. verified' = verified
      BY <2>2
    <3>2. Supply!After(t) \in Later => t \in Later
      BY <1>2, <2>2, Steps
    <3>3. t \in Later => Supply!After(t) \in Later
      BY <1>2, Steps
    <3> QED
      BY <1>1, <1>4, <1>9, <2>2, <3>1, <3>2, <3>3 DEF Checked
  <2> QED
    BY <2>1, <2>2
<1>11. PairsSeen'
  BY <1>1 DEF SupplyInv, PairsSeen
<1> QED
  BY <1>1, <1>3, <1>5, <1>8, <1>10, <1>11, FilesUntouched

LEMMA SupplyReads == ASSUME SupplyInv, NEW p \in Attempts, Supply!Look(p) \/ Supply!Verify(p) \/ Supply!Close(p) PROVE SupplyInv'
<1>1. CASE Supply!Look(p)
  BY <1>1, NextTaskKeeps DEF Supply!Look
<1>2. CASE Supply!Verify(p)
  BY <1>2, NextTaskKeeps, TaskSets DEF Supply!Verify
<1>3. CASE Supply!Close(p)
  BY <1>3, NextTaskKeeps DEF Supply!Close
<1> QED
  BY <1>1, <1>2, <1>3

LEMMA SupplyStartOrFail == ASSUME SupplyInv, NEW p \in Attempts, Supply!Start(p) \/ Supply!Fail(p) PROVE SupplyInv'
<1>1. fs' = fs /\ step' = step /\ verified' = verified /\ seen' = seen
  BY DEF Supply!Start, Supply!Fail
<1>2. PICK to \in {"look", "failed"} :
        /\ task' = [task EXCEPT ![p] = to]
        /\ to = "look" => task[p] = "off"
        /\ to = "failed" => task[p] \in Supply!Running
  BY DEF Supply!Start, Supply!Fail
<1>3. SupplyTypes'
  <2>1. to \in Supply!Tasks
    BY Steps, TaskSets
  <2> QED
    BY <1>1, <1>2, <2>1 DEF SupplyInv, SupplyTypes
<1>4. task'[p] = to /\ step'[p] = step[p]
  BY <1>1, <1>2 DEF SupplyInv, SupplyTypes
<1>5. \A q \in Attempts \ {p} : task'[q] = task[q] /\ step'[q] = step[q] /\ (q \in verified' <=> q \in verified)
  BY <1>1, <1>2 DEF SupplyInv, SupplyTypes
<1>6. Reached(fs, task[p], p) /\ Checked(p)
  BY DEF SupplyInv, Stands
<1>7. Preceding(to) = {} /\ to \notin Later /\ to \notin Supply!Creating /\ to \notin Supply!Making /\ to \notin Supply!Publishing
  BY TaskSets DEF Preceding, Later, Marks
<1>8. Reached(fs, to, p)
  <2>1. CASE to = "look"
    BY <1>2, <1>6, <1>7, <2>1 DEF Reached
  <2>2. CASE to = "failed"
    <3>1. "failed" \notin Supply!Running
      BY TaskSets DEF Marks
    <3> QED
      BY <1>7, <2>2, <3>1 DEF Reached
  <2> QED
    BY <2>1, <2>2
<1>9. Underway(fs, to, step[p], p)
  BY <1>7 DEF Underway
<1>10. Stands(p)'
  BY <1>1, <1>4, <1>8, <1>9 DEF Stands
<1>11. Checked(p)'
  <2>1. to = "look" => p \notin verified
    BY <1>2, <1>6 DEF Checked, Later
  <2> QED
    BY <1>1, <1>4, <1>6, <1>7, <2>1 DEF Checked
<1>12. PairsSeen'
  BY <1>1 DEF SupplyInv, PairsSeen
<1> QED
  BY <1>1, <1>3, <1>5, <1>10, <1>11, <1>12, FilesUntouched

\* What the names lead a reader to.
LEMMA NamedIs ==
  ASSUME NEW g, Sound(g), NEW t \in Marks, NEW e \in Named(g, Place(t), Supply!Name(t))
  PROVE  \E p \in Attempts : e = Mark(t, p) /\ e \in g.now
<1>1. e \in g.now /\ e \in Made(g) /\ e.dir = Place(t) /\ e.name = Supply!Name(t)
  BY DEF Named, Made
<1>2. PICK u \in Marks, p \in Attempts : e = Mark(u, p)
  BY <1>1 DEF Sound, Fit
<1>3. Place(u) = Place(t) /\ Supply!Name(u) = Supply!Name(t)
  BY <1>1, <1>2, MarkFacts
<1>4. e = Mark(t, p)
  BY <1>2, <1>3 DEF Mark
<1> QED
  BY <1>1, <1>4

LEMMA AcceptedIs ==
  ASSUME NEW g, Sound(g), NEW t \in Marks, NEW f \in Supply!Accepted(g, Place(t), Supply!Name(t))
  PROVE  \E p \in Attempts : f = <<Supply!Name(t), p>> /\ Mark(t, p) \in g.now
<1>1. f \in Whole(g, Place(t), Supply!Name(t))
  BY SupplyFiles DEF Supply!Accepted
<1>2. PICK e \in Named(g, Place(t), Supply!Name(t)) : f = e.file
  BY <1>1 DEF Whole
<1>3. PICK p \in Attempts : e = Mark(t, p) /\ e \in g.now
  BY NamedIs
<1> QED
  BY <1>2, <1>3, MarkFacts

LEMMA PlacedReads ==
  ASSUME NEW g, Sound(g), NEW t \in Supply!Publishing, NEW p \in Attempts,
         Mark(t, p) \in g.now, Mark(Supply!Name(t), p) \notin g.now, <<Supply!Name(t), p>> \notin g.torn
  PROVE  <<Supply!Name(t), p>> \in Supply!Accepted(g, Place(t), Supply!Name(t))
<1> DEFINE n == Supply!Name(t)
<1>1. t \in Marks /\ n \in Marks /\ n \in Supply!Creating /\ Staged(t, p) = Mark(n, p) /\ t # "policy" /\ t # "floor"
  BY StagedFacts, TaskSets, MarkFacts
<1>2. Mark(t, p) \in g.now /\ Mark(n, p) \notin g.now /\ <<n, p>> \notin g.torn
  OBVIOUS
<1>3. Mark(t, p).dir = Place(t) /\ Mark(t, p).name = n /\ Mark(t, p).file = <<n, p>>
  BY <1>1, MarkFacts
<1>4. <<n, p>> \in Whole(g, Place(t), n)
  BY <1>2, <1>3 DEF Whole, Named
<1>5. ASSUME NEW e \in g.now, e.file = <<n, p>> PROVE e = Mark(t, p)
  <2>1. e \in Made(g)
    BY DEF Made
  <2>2. PICK u \in Marks, q \in Attempts : e = Mark(u, q)
    BY <2>1 DEF Sound, Fit
  <2>3. Supply!Name(u) = n /\ q = p
    BY <1>5, <2>2, MarkFacts
  <2>4. u = n \/ u = t
    <3>1. CASE u \notin Supply!Publishing
      BY <2>3, <3>1, MarkFacts
    <3>2. CASE u \in Supply!Publishing
      BY <2>3, <3>2, StagedFacts
    <3> QED
      BY <3>1, <3>2
  <2> QED
    BY <1>2, <2>2, <2>3, <2>4
<1>6. Links(g, <<n, p>>) = 1
  BY <1>2, <1>3, <1>5, OneLink
<1> QED
  BY <1>4, <1>6, SupplyFiles DEF Supply!Accepted

LEMMA FirmReads ==
  ASSUME NEW g, Sound(g), NEW t \in Supply!Publishing, NEW p \in Attempts,
         Firm(g, t, p), Firm(g, Supply!Name(t), p)
  PROVE  <<Supply!Name(t), p>> \in Supply!Accepted(g, Place(t), Supply!Name(t))
<1>1. /\ Supply!Name(t) \in Supply!Creating /\ Staged(t, p) = Mark(Supply!Name(t), p) /\ t # "policy" /\ t # "floor"
  BY StagedFacts, TaskSets, MarkFacts
<1>2. Mark(t, p) \in g.now /\ Mark(Supply!Name(t), p) \notin g.now /\ <<Supply!Name(t), p>> \notin g.torn
  BY <1>1 DEF Firm, Kept, Made
<1> QED
  BY <1>2, PlacedReads

LEMMA AttemptOf ==
  ASSUME NEW g, Sound(g), NEW t \in Marks, NEW p \in Attempts, Mark(t, p) \in g.now
  PROVE  Mark("attempt", p) \in g.now
<1>1. CASE t = "attempt"
  BY <1>1
<1>2. CASE t # "attempt"
  <2>1. Firm(g, "attempt", p)
    BY <1>2, PrecedingFacts DEF Sound, Sequenced, Made
  <2> QED
    BY <2>1 DEF Firm, Kept
<1> QED
  BY <1>1, <1>2

LEMMA SupplyObserve == ASSUME SupplyInv, Supply!Observe PROVE SupplyInv'
<1>1. fs' = fs /\ task' = task /\ step' = step /\ verified' = verified
  BY DEF Supply!Observe
<1>2. PICK f \in Supply!Accepted(fs, "supply", "policy"), h \in Supply!Accepted(fs, "trust", "floor") :
        seen' = seen \cup {<<f, h>>}
  BY DEF Supply!Observe
<1>3. /\ {"publishPolicy", "publishFloor"} \subseteq Marks
      /\ Place("publishPolicy") = "supply" /\ Supply!Name("publishPolicy") = "policy"
      /\ Place("publishFloor") = "trust" /\ Supply!Name("publishFloor") = "floor"
  BY MarkFacts DEF Marks
<1>4. Sound(fs)
  BY DEF SupplyInv
<1>5. PICK p \in Attempts : f = <<"policy", p>> /\ Mark("publishPolicy", p) \in fs.now
  <2>1. f \in Supply!Accepted(fs, Place("publishPolicy"), Supply!Name("publishPolicy"))
    BY <1>3
  <2> QED
    BY <1>3, <1>4, <2>1, AcceptedIs
<1>6. PICK q \in Attempts : h = <<"floor", q>> /\ Mark("publishFloor", q) \in fs.now
  <2>1. h \in Supply!Accepted(fs, Place("publishFloor"), Supply!Name("publishFloor"))
    BY <1>3
  <2> QED
    BY <1>3, <1>4, <2>1, AcceptedIs
<1>7. q = p
  <2>1. Mark("attempt", p) \in fs.now /\ Mark("attempt", q) \in fs.now
    BY <1>3, <1>4, <1>5, <1>6, AttemptOf
  <2> QED
    BY <1>4, <2>1 DEF Sound, OneAttempt
<1>8. p \in verified
  BY <1>5 DEF SupplyInv, Checked, Made
<1>9. Firm(fs, "attempt", p)
  <2>1. "attempt" \in Preceding("publishPolicy")
    BY LaterFacts DEF Later
  <2> QED
    BY <1>3, <1>4, <1>5, <2>1 DEF Sound, Sequenced, Made
<1>10. PairsSeen'
  <2> SUFFICES ASSUME NEW s \in seen'
               PROVE  \E u \in verified \cap Attempts :
                        s = <<<<"policy", u>>, <<"floor", u>>>> /\ Firm(fs, "attempt", u)
    BY <1>1 DEF PairsSeen
  <2>1. CASE s \in seen
    BY <2>1 DEF SupplyInv, PairsSeen
  <2>2. CASE s = <<f, h>>
    BY <1>5, <1>6, <1>7, <1>8, <1>9, <2>2
  <2> QED
    BY <1>2, <2>1, <2>2
<1>11. SupplyTypes' /\ Sound(fs')
  BY <1>1 DEF SupplyInv, SupplyTypes
<1>12. \A u \in Attempts : Stands(u)' /\ Checked(u)'
  BY <1>1 DEF SupplyInv, Stands, Checked
<1> QED
  BY <1>10, <1>11, <1>12 DEF SupplyInv

LEMMA SoundSurvives ==
  ASSUME Sound(fs), NEW g \in Crashed(fs)
  PROVE  /\ Sound(g) /\ Made(g) \subseteq Made(fs)
         /\ \A t, p : Firm(fs, t, p) => Firm(g, t, p)
<1>1. /\ FileSystem(g) /\ g.now = g.disk /\ g.loose = {}
      /\ fs.now \cap fs.disk \subseteq g.now /\ g.now \subseteq fs.now \cup fs.disk
      /\ g.torn \subseteq fs.torn \cup fs.loose
  BY CrashedIs
<1>2. Made(g) \subseteq Made(fs)
  BY <1>1 DEF Made
<1>3. \A e : Kept(fs, e) => Kept(g, e)
  BY <1>1 DEF Kept
<1>4. \A t, p : Firm(fs, t, p) => Firm(g, t, p)
  BY <1>1, <1>2, <1>3 DEF Firm
<1>5. Fit(g)
  <2>1. \A e \in Made(g) : \E t \in Marks, p \in Attempts : e = Mark(t, p)
    BY <1>2 DEF Sound, Fit
  <2>2. \A x \in g.torn \cup g.loose : \E t \in Supply!Creating, p \in Attempts : x = <<t, p>>
    BY <1>1 DEF Sound, Fit
  <2> QED
    BY <1>1, <2>1, <2>2 DEF Fit
<1>6. OneAttempt(g)
  <2>1. ASSUME NEW p \in Attempts, Mark("attempt", p) \in g.now PROVE Mark("attempt", p) \in fs.now
    <3>1. \A t \in Supply!Publishing, q \in Attempts : Mark("attempt", p) # Staged(t, q)
      <4>1. "attempt" \in Marks /\ \A t \in Supply!Publishing : Supply!Name(t) # "attempt"
        BY StagedFacts DEF Marks
      <4> QED
        BY <4>1, StagedFacts, MarkFacts
    <3> QED
      BY <1>1, <2>1, <3>1 DEF Sound, Fit
  <2> QED
    BY <2>1 DEF Sound, OneAttempt
<1>7. Sequenced(g)
  BY <1>2, <1>4 DEF Sound, Sequenced
<1> QED
  BY <1>2, <1>4, <1>5, <1>6, <1>7 DEF Sound

LEMMA SupplyPowerLoss == ASSUME SupplyInv, Supply!PowerLoss PROVE SupplyInv'
<1>1. fs' \in Crashed(fs) /\ step' = step /\ verified' = verified /\ seen' = seen
  BY SupplyFiles DEF Supply!PowerLoss
<1>2. task' = [p \in Attempts |-> IF task[p] \in Supply!Running THEN "failed" ELSE task[p]]
  BY DEF Supply!PowerLoss
<1>3. /\ Sound(fs') /\ Made(fs') \subseteq Made(fs)
      /\ \A t, p : Firm(fs, t, p) => Firm(fs', t, p)
  BY <1>1, SoundSurvives DEF SupplyInv
<1>4. SupplyTypes'
  BY <1>1, <1>2, Steps DEF SupplyInv, SupplyTypes
<1>5. PairsSeen'
  BY <1>1, <1>3 DEF SupplyInv, PairsSeen
<1>6. ASSUME NEW p \in Attempts PROVE Stands(p)' /\ Checked(p)'
  <2> DEFINE to == task'[p]
  <2>1. to = "failed" \/ (to = task[p] /\ task[p] \notin Supply!Running)
    BY <1>2
  <2>2. Reached(fs, task[p], p) /\ Checked(p) /\ step'[p] = step[p]
    BY <1>1 DEF SupplyInv, Stands
  <2>3. "failed" \notin Supply!Running /\ Preceding("failed") = {} /\ "failed" \notin Later
    BY TaskSets DEF Marks, Preceding, Later
  <2>4. to \notin Supply!Running
    BY <2>1, <2>3
  <2>5. Reached(fs', to, p)
    <3>1. CASE to = "failed"
      BY <2>3, <3>1 DEF Reached
    <3>2. CASE to = task[p] /\ task[p] \notin Supply!Running
      BY <1>3, <2>2, <2>4, <3>2 DEF Reached
    <3> QED
      BY <2>1, <3>1, <3>2
  <2>6. Underway(fs', to, step'[p], p)
    <3>1. to \notin Supply!Creating /\ to \notin Supply!Making /\ to \notin Supply!Publishing
      BY <2>4, TaskSets DEF Marks
    <3> QED
      BY <3>1 DEF Underway
  <2>7. Stands(p)'
    BY <2>5, <2>6 DEF Stands
  <2>8. Checked(p)'
    BY <1>1, <1>3, <2>1, <2>2, <2>3 DEF Checked
  <2> QED
    BY <2>7, <2>8
<1> QED
  BY <1>3, <1>4, <1>5, <1>6 DEF SupplyInv

LEMMA SupplyBegins == ASSUME Supply!Init PROVE SupplyInv
<1>1. FileSystem(Empty) /\ Empty.now = {} /\ Empty.disk = {} /\ Empty.torn = {} /\ Empty.loose = {}
  BY DEF FileSystem, Empty
<1>2. /\ fs = Empty /\ task = [p \in Attempts |-> "off"] /\ step = [p \in Attempts |-> "go"]
      /\ verified = {} /\ seen = {}
  BY SupplyFiles DEF Supply!Init
<1>3. Made(fs) = {}
  BY <1>1, <1>2 DEF Made
<1>4. Sound(fs)
  BY <1>1, <1>2, <1>3 DEF Sound, Fit, OneAttempt, Sequenced
<1>5. Preceding("off") = {} /\ "off" \notin Supply!Creating /\ "off" \notin Supply!Making
      /\ "off" \notin Supply!Publishing /\ "off" \notin Later
  BY TaskSets DEF Preceding, Later
<1>6. ASSUME NEW p \in Attempts PROVE Stands(p) /\ Checked(p)
  <2>1. task[p] = "off"
    BY <1>2
  <2>2. Reached(fs, "off", p)
    BY <1>3, <1>5 DEF Reached
  <2>3. Underway(fs, "off", step[p], p)
    BY <1>5 DEF Underway
  <2> QED
    BY <1>2, <1>3, <1>5, <2>1, <2>2, <2>3 DEF Stands, Checked
<1>7. SupplyTypes /\ PairsSeen
  BY <1>2, Steps DEF SupplyTypes, PairsSeen, Calls
<1> QED
  BY <1>4, <1>6, <1>7 DEF SupplyInv

LEMMA SupplyStep == ASSUME SupplyInv, Supply!Next \/ UNCHANGED <<vars, supply>> PROVE SupplyInv'
<1>1. CASE Supply!Next
  BY <1>1, SupplyStartOrFail, SupplyReads, SupplyCreate, SupplyMake, SupplyPublish, SupplyObserve, SupplyPowerLoss
     DEF Supply!Next, Supply!Installer
<1>2. CASE UNCHANGED <<vars, supply>>
  <2>1. fs' = fs /\ task' = task /\ step' = step /\ verified' = verified /\ seen' = seen
    BY <1>2 DEF vars, supply
  <2> QED
    BY <2>1 DEF SupplyInv, SupplyTypes, PairsSeen, Stands, Checked
<1> QED
  BY <1>1, <1>2

LEMMA SupplyHolds == MCSpec => [](program = "supply" => SupplyInv)
<1> DEFINE Inv == program = "supply" => SupplyInv
<1>1. MCInit => Inv
  BY SupplyBegins DEF MCInit
<1>2. Inv /\ [MCNext]_<<program, vars, supply, storage>> => Inv'
  <2> SUFFICES ASSUME Inv, [MCNext]_<<program, vars, supply, storage>>, program' = "supply" PROVE SupplyInv'
    OBVIOUS
  <2>1. program' = program /\ (Supply!Next \/ UNCHANGED <<vars, supply>>)
    BY DEF MCNext
  <2> QED
    BY <2>1, SupplyStep
<1> QED
  BY <1>1, <1>2, PTL DEF MCSpec

LEMMA PairMeans == ASSUME SupplyInv PROVE Supply!ReaderSeesOnePair
<1>1. \A s \in seen : \E p \in verified \cap Attempts :
        s = <<<<"policy", p>>, <<"floor", p>>>> /\ Firm(fs, "attempt", p)
  BY DEF SupplyInv, PairsSeen
<1>2. \A s, r \in seen : s = r
  <2> SUFFICES ASSUME NEW s \in seen, NEW r \in seen PROVE s = r
    OBVIOUS
  <2>1. PICK p \in Attempts : s = <<<<"policy", p>>, <<"floor", p>>>> /\ Firm(fs, "attempt", p)
    BY <1>1
  <2>2. PICK q \in Attempts : r = <<<<"policy", q>>, <<"floor", q>>>> /\ Firm(fs, "attempt", q)
    BY <1>1
  <2>3. p = q
    BY <2>1, <2>2 DEF SupplyInv, Sound, OneAttempt, Firm, Kept
  <2> QED
    BY <2>1, <2>2, <2>3
<1>3. Cardinality(seen) <= 1
  <2>1. CASE seen = {}
    BY <2>1, FS_EmptySet
  <2>2. CASE seen # {}
    <3>1. PICK s \in seen : TRUE
      BY <2>2
    <3>2. seen = {s}
      BY <1>2, <3>1
    <3>3. Cardinality(seen) = 1
      BY <3>2, FS_Singleton
    <3> QED
      BY <3>3
  <2> QED
    BY <2>1, <2>2
<1>4. Supply!Cardinality(seen) <= 1
  BY <1>3, SupplyFiles
<1> QED
  BY <1>1, <1>4 DEF Supply!ReaderSeesOnePair

\* Where the marks of the names are.
LEMMA Names ==
  /\ Marks = Supply!Making \cup Supply!Creating \cup Supply!Publishing
  /\ \A t \in {"supply", "trust", "complete", "attempt"} :
       t \in Marks /\ t \in Marks \ Supply!Publishing /\ Supply!Name(t) = t /\ Supply!Parent(t) = Place(t)
  /\ {"publishPolicy", "publishFloor", "complete", "policy", "floor"} \subseteq Marks
  /\ Place("publishPolicy") = "supply" /\ Supply!Name("publishPolicy") = "policy"
  /\ Place("publishFloor") = "trust" /\ Supply!Name("publishFloor") = "floor"
  /\ Place("attempt") = "base" /\ Place("complete") = "base" /\ Supply!Name("complete") = "complete"
<1>1. Marks = Supply!Making \cup Supply!Creating \cup Supply!Publishing
  BY TaskSets DEF Marks
<1>2. \A t \in {"supply", "trust", "complete", "attempt"} : t \in Marks \ Supply!Publishing
  BY TaskSets DEF Marks
<1>3. {"publishPolicy", "publishFloor", "complete", "policy", "floor"} \subseteq Marks
  BY DEF Marks
<1> QED
  BY <1>1, <1>2, <1>3, MarkFacts

LEMMA InPlace ==
  ASSUME NEW g, Sound(g), NEW p \in Attempts, NEW t,
         \A s \in Preceding(t) : Firm(g, s, p)
  PROVE  /\ "publishPolicy" \in Preceding(t) => Supply!Accepted(g, "supply", "policy") # {}
         /\ "publishFloor" \in Preceding(t) => Supply!Accepted(g, "trust", "floor") # {}
<1>1. /\ "policy" \in Preceding("publishPolicy") /\ "floor" \in Preceding("publishFloor")
      /\ {"publishPolicy", "publishFloor"} = Supply!Publishing
  BY LaterFacts, TaskSets DEF Later
<1>2. ASSUME "publishPolicy" \in Preceding(t) PROVE Supply!Accepted(g, "supply", "policy") # {}
  <2>1. "policy" \in Preceding(t)
    BY <1>1, <1>2, PrecedingFacts
  <2>2. <<"policy", p>> \in Supply!Accepted(g, Place("publishPolicy"), Supply!Name("publishPolicy"))
    BY <1>1, <1>2, <2>1, FirmReads, Names
  <2> QED
    BY <2>2, Names
<1>3. ASSUME "publishFloor" \in Preceding(t) PROVE Supply!Accepted(g, "trust", "floor") # {}
  <2>1. "floor" \in Preceding(t)
    BY <1>1, <1>3, PrecedingFacts
  <2>2. <<"floor", p>> \in Supply!Accepted(g, Place("publishFloor"), Supply!Name("publishFloor"))
    BY <1>1, <1>3, <2>1, FirmReads, Names
  <2> QED
    BY <2>2, Names
<1> QED
  BY <1>2, <1>3

LEMMA OrderMeans == ASSUME SupplyInv PROVE Supply!EffectsStayInOrder
<1> SUFFICES ASSUME NEW g \in Supply!Crashed(fs)
             PROVE  /\ (\E t \in {"supply", "trust", "complete"} : ~Supply!Absent(g, Supply!Parent(t), t))
                         => ~Supply!Absent(g, "base", "attempt")
                    /\ Supply!Accepted(g, "trust", "floor") # {} => Supply!Accepted(g, "supply", "policy") # {}
  BY DEF Supply!EffectsStayInOrder
<1>1. Sound(g)
  BY SupplyFiles, SoundSurvives DEF SupplyInv
<1>2. ASSUME NEW t \in {"supply", "trust", "complete"}, ~Supply!Absent(g, Supply!Parent(t), t)
      PROVE  ~Supply!Absent(g, "base", "attempt")
  <2>1. PICK e \in Named(g, Place(t), Supply!Name(t)) : TRUE
    BY <1>2, SupplyFiles, Names DEF Absent
  <2>2. PICK p \in Attempts : Mark(t, p) \in g.now
    BY <1>1, <2>1, NamedIs, Names
  <2>3. Mark("attempt", p) \in g.now
    BY <1>1, <2>2, AttemptOf, Names
  <2>4. Mark("attempt", p).dir = "base" /\ Mark("attempt", p).name = "attempt"
    BY MarkFacts, Names
  <2>5. ~Absent(g, "base", "attempt")
    BY <2>3, <2>4 DEF Absent, Named
  <2> QED
    BY <2>5, SupplyFiles
<1>3. ASSUME Supply!Accepted(g, "trust", "floor") # {} PROVE Supply!Accepted(g, "supply", "policy") # {}
  <2>1. PICK f \in Supply!Accepted(g, Place("publishFloor"), Supply!Name("publishFloor")) : TRUE
    BY <1>3, Names
  <2>2. PICK p \in Attempts : Mark("publishFloor", p) \in g.now
    BY <1>1, <2>1, AcceptedIs, Names
  <2>3. \A s \in Preceding("publishFloor") : Firm(g, s, p)
    BY <1>1, <2>2, Names DEF Sound, Sequenced, Made
  <2>4. "publishPolicy" \in Preceding("publishFloor")
    BY DEF Preceding, Marks
  <2> QED
    BY <1>1, <2>3, <2>4, InPlace
<1> QED
  BY <1>2, <1>3

LEMMA CompletionMeans == ASSUME SupplyInv PROVE Supply!CompletionIsLasting
<1>1. ASSUME NEW g \in Supply!Crashed(fs) \cup {fs}
      PROVE  Sound(g) /\ \A t, p : Firm(fs, t, p) => Firm(g, t, p)
  <2>1. CASE g = fs
    BY <2>1 DEF SupplyInv
  <2>2. CASE g \in Supply!Crashed(fs)
    BY <2>2, SupplyFiles, SoundSurvives DEF SupplyInv
  <2> QED
    BY <2>1, <2>2
<1>2. ASSUME NEW g \in Supply!Crashed(fs) \cup {fs}, Supply!Whole(g, "base", "complete") # {}
      PROVE  Supply!Accepted(g, "supply", "policy") # {} /\ Supply!Accepted(g, "trust", "floor") # {}
  <2>1. PICK e \in Named(g, Place("complete"), Supply!Name("complete")) : TRUE
    BY <1>2, SupplyFiles, Names DEF Whole
  <2>2. PICK p \in Attempts : Mark("complete", p) \in g.now
    BY <1>1, <2>1, NamedIs, Names
  <2>3. \A s \in Preceding("complete") : Firm(g, s, p)
    BY <1>1, <2>2, Names DEF Sound, Sequenced, Made
  <2>4. "publishPolicy" \in Preceding("complete") /\ "publishFloor" \in Preceding("complete")
    BY DEF Preceding, Marks
  <2> QED
    BY <1>1, <2>3, <2>4, InPlace
<1>3. ASSUME NEW p \in Attempts, task[p] = "done", NEW g \in Supply!Crashed(fs)
      PROVE  <<"complete", p>> \in Supply!Whole(g, "base", "complete")
  <2>1. "complete" \in Preceding("done") /\ "complete" \in Supply!Creating
    BY TaskSets DEF Preceding, Marks
  <2>2. Firm(g, "complete", p)
    BY <1>1, <1>3, <2>1 DEF SupplyInv, Stands, Reached
  <2>3. Mark("complete", p) \in g.now /\ <<"complete", p>> \notin g.torn
    BY <2>1, <2>2 DEF Firm, Kept
  <2>4. Mark("complete", p).dir = "base" /\ Mark("complete", p).name = "complete"
        /\ Mark("complete", p).file = <<"complete", p>>
    BY MarkFacts, Names
  <2>5. <<"complete", p>> \in Whole(g, "base", "complete")
    BY <2>3, <2>4 DEF Whole, Named
  <2> QED
    BY <2>5, SupplyFiles
<1>4. ASSUME NEW p \in verified, NEW g \in Supply!Crashed(fs), NEW n \in {"policy", "floor"}
      PROVE  Supply!Links(g, <<n, p>>) >= 1 /\ <<n, p>> \notin g.torn
  <2>0. p \in Attempts
    BY DEF SupplyInv, SupplyTypes
  <2>1. Firm(g, n, p)
    BY <1>1, <2>0 DEF SupplyInv, Checked
  <2>2. n \in Supply!Creating /\ n \in Marks /\ Supply!Name(n) = n
    BY TaskSets, MarkFacts DEF Marks
  <2>3. <<n, p>> \notin g.torn
    BY <2>1, <2>2 DEF Firm
  <2> DEFINE entries == {e \in g.now : e.file = <<n, p>>}
  <2>4. entries # {}
    <3>1. \/ Mark(n, p) \in g.now
          \/ n = "policy" /\ Mark("publishPolicy", p) \in g.now
          \/ n = "floor" /\ Mark("publishFloor", p) \in g.now
      BY <2>1 DEF Firm, Kept
    <3>2. /\ Mark(n, p).file = <<n, p>>
          /\ Mark("publishPolicy", p).file = <<"policy", p>> /\ Mark("publishFloor", p).file = <<"floor", p>>
      BY <2>2, MarkFacts, Names
    <3> QED
      BY <3>1, <3>2
  <2>5. entries \subseteq {Mark(n, p), Mark("publishPolicy", p), Mark("publishFloor", p)}
    <3> SUFFICES ASSUME NEW e \in g.now, e.file = <<n, p>>
                 PROVE  e \in {Mark(n, p), Mark("publishPolicy", p), Mark("publishFloor", p)}
      OBVIOUS
    <3>1. PICK u \in Marks, q \in Attempts : e = Mark(u, q)
      BY <1>1 DEF Sound, Fit, Made
    <3>2. Supply!Name(u) = n /\ q = p
      BY <3>1, MarkFacts
    <3>3. CASE u \notin Supply!Publishing
      BY <3>1, <3>2, <3>3, MarkFacts
    <3>4. CASE u \in Supply!Publishing
      BY <3>1, <3>2, <3>4, TaskSets
    <3> QED
      BY <3>3, <3>4
  <2>6. IsFiniteSet(entries)
    <3>1. IsFiniteSet({} \cup {Mark(n, p)} \cup {Mark("publishPolicy", p)} \cup {Mark("publishFloor", p)})
      BY FS_EmptySet, FS_AddElement
    <3>2. entries \subseteq {} \cup {Mark(n, p)} \cup {Mark("publishPolicy", p)} \cup {Mark("publishFloor", p)}
      BY <2>5
    <3> HIDE DEF entries
    <3> QED
      BY <3>1, <3>2, FS_Subset
  <2>7. Cardinality(entries) \in Nat /\ Cardinality(entries) # 0
    <3> HIDE DEF entries
    <3> QED
      BY <2>4, <2>6, FS_EmptySet, FS_CardinalityType
  <2>8. Links(g, <<n, p>>) = Cardinality(entries)
    BY DEF Links
  <2>9. Links(g, <<n, p>>) >= 1
    <3> HIDE DEF entries
    <3> QED
      BY <2>7, <2>8
  <2> QED
    BY <2>3, <2>9, SupplyFiles
<1> QED
  BY <1>2, <1>3, <1>4 DEF Supply!CompletionIsLasting

\* ReaderSeesOnePair of MCInstallers: whatever failed, was started twice or lost power, the
\* readers of supply_initialize.py's result only ever accept one pair, of one installer, that
\* the native reader had accepted before it was published.
THEOREM OnePairIsSeen == MCSpec => []ReaderSeesOnePair
<1>1. (program = "supply" => SupplyInv) => ReaderSeesOnePair
  BY PairMeans DEF ReaderSeesOnePair
<1> QED
  BY <1>1, SupplyHolds, PTL

\* PairIsLasting: no power loss forgets the attempt and keeps an effect of it, or keeps a floor
\* that readers accept without such a policy; a completion record that can be read stands beside
\* an accepted pair; no power loss takes away that of a success, or a file that was verified.
THEOREM PairLasts == MCSpec => []PairIsLasting
<1>1. (program = "supply" => SupplyInv) => PairIsLasting
  BY OrderMeans, CompletionMeans DEF PairIsLasting, Supply!PairIsLasting
<1> QED
  BY <1>1, SupplyHolds, PTL

(***************************************************************************)
(* The installer of the native store and the root bank.  The command that  *)
(* works on the bank is an actor of its own, which may outlive the         *)
(* installer that started it.                                              *)
(***************************************************************************)
LEMMA StorageFiles ==
  /\ Storage!Empty = Empty
  /\ \A d, n, x : Storage!Entry(d, n, x) = Entry(d, n, x)
  /\ \A f, d, n : Storage!Named(f, d, n) = Named(f, d, n) /\ (Storage!Absent(f, d, n) <=> Absent(f, d, n))
  /\ \A f, d, n : Storage!Whole(f, d, n) = Whole(f, d, n) /\ Storage!Remove(f, d, n) = Remove(f, d, n)
  /\ \A f, d, n, x : Storage!Enter(f, d, n, x) = Enter(f, d, n, x) /\ Storage!Created(f, d, n, x) = Created(f, d, n, x)
  /\ \A f, x : Storage!Written(f, x) = Written(f, x) /\ Storage!FileSynced(f, x) = FileSynced(f, x)
  /\ \A f, d : Storage!Synced(f, d) = Synced(f, d)
  /\ \A f : Storage!Crashed(f) = Crashed(f)
<1>1. Storage!Empty = Empty
  BY DEF Storage!Empty, Empty
<1>2. \A d, n, x : Storage!Entry(d, n, x) = Entry(d, n, x)
  BY DEF Storage!Entry, Entry
<1>3. \A f, d, n : Storage!Named(f, d, n) = Named(f, d, n)
  BY DEF Storage!Named, Named
<1>4. \A f, d, n : Storage!Absent(f, d, n) <=> Absent(f, d, n)
  BY <1>3 DEF Storage!Absent, Absent
<1>5. \A f, d, n : Storage!Whole(f, d, n) = Whole(f, d, n)
  BY <1>3 DEF Storage!Whole, Whole
<1>6. \A f, d, n : Storage!Remove(f, d, n) = Remove(f, d, n)
  BY <1>3 DEF Storage!Remove, Remove
<1>7. \A f, d, n, x : Storage!Enter(f, d, n, x) = Enter(f, d, n, x)
  BY <1>2 DEF Storage!Enter, Enter
<1>8. \A f, d, n, x : Storage!Created(f, d, n, x) = Created(f, d, n, x)
  BY <1>7 DEF Storage!Created, Created
<1>9. \A f, x : Storage!Written(f, x) = Written(f, x) /\ Storage!FileSynced(f, x) = FileSynced(f, x)
  BY DEF Storage!Written, Written, Storage!FileSynced, FileSynced
<1>10. \A f, d : Storage!Synced(f, d) = Synced(f, d)
  BY DEF Storage!Synced, Synced
<1>11. ASSUME NEW f PROVE Storage!Crashed(f) = Crashed(f)
  BY DEF Storage!Crashed, Crashed
<1>12. \A f : Storage!Crashed(f) = Crashed(f)
  BY <1>11
<1> QED
  BY <1>1, <1>2, <1>3, <1>4, <1>5, <1>6, <1>7, <1>8, <1>9, <1>10, <1>12

\* What an installer and its command make, in order, and what is sure when a task begins.  The
\* drop-in and its file are sure together.
Pieces == {"intent", "core", "store", "roots", "dropin", "conf", "bank.json", "bank.lock", "complete"}
Stores == {"intent", "core", "store", "roots"}
Mounts == Stores \cup {"dropin", "conf"}
Banks  == Mounts \cup {"bank.json", "bank.lock"}

Earlier(t) ==
  CASE t = "core"  -> {"intent"}
    [] t = "store" -> {"intent", "core"}
    [] t = "roots" -> {"intent", "core", "store"}
    [] t \in {"native", "dropin", "conf"} -> Stores
    [] t \in {"mount", "fresh", "rw", "provision", "bank.json"} -> Mounts
    [] t = "bank.lock" -> Mounts \cup {"bank.json"}
    [] t \in {"readonly", "verify", "complete"} -> Banks
    [] t = "done"  -> Pieces
    [] OTHER       -> {}

\* What it may have made by then.
Allowed(t) == Earlier(t) \cup (Pieces \cap {t})
                \cup (IF t = "conf" THEN {"dropin"} ELSE {})
                \cup (IF t = "provision" THEN {"bank.json", "bank.lock"} ELSE {})

Piece(t, p) == Entry(Storage!Parent(t), t, <<t, p>>)
Contents    == {"intent", "conf", "bank.json", "complete"}

Sure(g, t, p) ==
  /\ Kept(g, Piece(t, p))
  /\ t \in Contents => <<t, p>> \notin g.torn /\ <<t, p>> \notin g.loose

Formed(g) ==
  /\ FileSystem(g)
  /\ \A e \in Made(g) : e.name = "lost+found" \/ \E t \in Pieces, p \in Attempts : e = Piece(t, p)
  /\ \A e \in g.disk : e.name # "lost+found" => e \in g.now

OneInstall(g) == \A p, q \in Attempts : Piece("intent", p) \in g.now /\ Piece("intent", q) \in g.now => p = q
InOrder(g)    == \A t \in Pieces, p \in Attempts : Piece(t, p) \in Made(g) => \A s \in Earlier(t) : Sure(g, s, p)

Proper(g) == Formed(g) /\ OneInstall(g) /\ InOrder(g)

Active == Storage!Running \ {"undo"}

Arrived(g, at, p) ==
  /\ \A s \in Earlier(at) : Sure(g, s, p)
  /\ \A t \in Pieces : Piece(t, p) \in Made(g) => at \notin {"off", "look"} /\ (at \in Active => t \in Allowed(at))

Engaged(g, at, call, p) ==
  /\ at \in {"intent", "complete", "conf"} =>
       /\ call \in {"write", "sync", "syncdir", "syncparent"} => Piece(at, p) \in g.now
       /\ call \in {"sync", "syncdir", "syncparent"} => <<at, p>> \notin g.torn
       /\ call \in {"syncdir", "syncparent"} => <<at, p>> \notin g.loose
       /\ call = "syncparent" => Piece(at, p) \in g.disk
  /\ at \in Storage!Making /\ call = "syncdir" => Piece(at, p) \in g.now
  /\ at = "conf" => Piece("dropin", p) \in g.now

\* How far the command has come, for an installer that awaits it or is gone.
Follows(g, c) ==
  c.of # NoInstaller =>
    /\ c.of \in Attempts
    /\ \A s \in Mounts : Sure(g, s, c.of)
    /\ Piece("complete", c.of) \notin Made(g)
    /\ c.does \in {"rw", "provision"}
    /\ c.does = "rw" => c.step \in {"remount", "exited"}
    /\ c.does = "provision" =>
         /\ c.step \in {"create", "write", "sync", "syncdir", "lock", "resync", "exited"}
         /\ c.step # "create" => Piece("bank.json", c.of) \in g.now
         /\ c.step \in {"sync", "syncdir", "lock", "resync", "exited"} => <<"bank.json", c.of>> \notin g.torn
         /\ c.step \in {"syncdir", "lock", "resync", "exited"} => <<"bank.json", c.of>> \notin g.loose
         /\ c.step \in {"write", "sync", "syncdir", "lock"} => Piece("bank.lock", c.of) \notin Made(g)
         /\ c.step \in {"lock", "resync", "exited"} => Piece("bank.json", c.of) \in g.disk
         /\ c.step \in {"resync", "exited"} => Piece("bank.lock", c.of) \in g.now
         /\ c.step = "exited" => Piece("bank.lock", c.of) \in g.disk

Awaited(c, at) == \* of the installer that started it
  at \in {"rw", "provision", "failed"} /\ (at # "failed" => c.does = at)

Moves == {"go", "create", "write", "sync", "syncdir", "mkdir", "syncparent", "spawn", "await"}

StorageTypes == /\ task \in [Attempts -> Storage!Tasks] /\ step \in [Attempts -> Moves]
                /\ child = [of |-> child.of, does |-> child.does, step |-> child.step]
                /\ child.of = NoInstaller => child = Storage!NoChild

Keeps(p)   == Arrived(fs, task[p], p) /\ Engaged(fs, task[p], step[p], p)
\* The store has been checked from here on; the bank is read-only once it has been verified.
Ready      == {"dropin", "conf", "mount", "fresh", "rw", "provision", "readonly", "verify", "complete", "done"}
StoreOf(p) == task[p] \in Ready \/ Piece("complete", p) \in Made(fs) => store = "ready"
BankOf(p)  == task[p] \in {"complete", "done"} \/ Piece("complete", p) \in Made(fs) => ro = TRUE

StorageInv ==
  /\ StorageTypes /\ Proper(fs)
  /\ Follows(fs, child)
  /\ child.of \in Attempts => Awaited(child, task[child.of])
  /\ \A p \in Attempts : Keeps(p) /\ StoreOf(p) /\ BankOf(p)

LEMMA StorageSets ==
  /\ Storage!Tasks = {"look", "intent", "core", "store", "roots", "native", "dropin", "conf", "mount", "fresh",
                      "rw", "provision", "readonly", "verify", "complete", "done", "off", "undo", "failed"}
  /\ Storage!Running = {"look", "intent", "core", "store", "roots", "native", "dropin", "conf", "mount", "fresh",
                        "rw", "provision", "readonly", "verify", "complete", "undo"}
  /\ Active = {"look", "intent", "core", "store", "roots", "native", "dropin", "conf", "mount", "fresh",
               "rw", "provision", "readonly", "verify", "complete"}
  /\ Storage!Making = {"core", "store", "roots"} /\ Storage!Creating = {"intent", "complete"}
  /\ Storage!Writable = {"rw", "provision"}
  /\ Storage!After("look") = "intent" /\ Storage!After("intent") = "core" /\ Storage!After("core") = "store"
  /\ Storage!After("store") = "roots" /\ Storage!After("roots") = "native" /\ Storage!After("native") = "dropin"
  /\ Storage!After("dropin") = "conf" /\ Storage!After("conf") = "mount" /\ Storage!After("mount") = "fresh"
  /\ Storage!After("fresh") = "rw" /\ Storage!After("rw") = "provision" /\ Storage!After("provision") = "readonly"
  /\ Storage!After("readonly") = "verify" /\ Storage!After("verify") = "complete"
  /\ Storage!After("complete") = "done"
<1>1. Len(Storage!Order) = 16 /\ 1 .. 16 = {1, 2, 3, 4, 5, 6, 7, 8, 9, 10, 11, 12, 13, 14, 15, 16}
  BY DEF Storage!Order
<1>2. /\ Storage!Order[1] = "look" /\ Storage!Order[2] = "intent" /\ Storage!Order[3] = "core"
      /\ Storage!Order[4] = "store" /\ Storage!Order[5] = "roots" /\ Storage!Order[6] = "native"
      /\ Storage!Order[7] = "dropin" /\ Storage!Order[8] = "conf" /\ Storage!Order[9] = "mount"
      /\ Storage!Order[10] = "fresh" /\ Storage!Order[11] = "rw" /\ Storage!Order[12] = "provision"
      /\ Storage!Order[13] = "readonly" /\ Storage!Order[14] = "verify" /\ Storage!Order[15] = "complete"
      /\ Storage!Order[16] = "done"
  BY DEF Storage!Order
<1>3. Storage!Tasks = {"look", "intent", "core", "store", "roots", "native", "dropin", "conf", "mount", "fresh",
                       "rw", "provision", "readonly", "verify", "complete", "done", "off", "undo", "failed"}
  <2>1. Storage!Tasks = {Storage!Order[i] : i \in {1, 2, 3, 4, 5, 6, 7, 8, 9, 10, 11, 12, 13, 14, 15, 16}}
                           \cup {"off", "undo", "failed"}
    BY <1>1 DEF Storage!Tasks
  <2> QED
    BY <1>2, <2>1
<1>4. ASSUME NEW i \in 1 .. 15 PROVE Storage!After(Storage!Order[i]) = Storage!Order[i + 1]
  <2>1. \A j \in 1 .. 16 : Storage!Order[j] = Storage!Order[i] => j = i
    BY <1>1, <1>2
  <2>2. (CHOOSE j \in 1 .. Len(Storage!Order) : Storage!Order[j] = Storage!Order[i]) = i
    BY <1>1, <2>1
  <2> QED
    BY <2>2 DEF Storage!After
<1>5. /\ Storage!After("look") = "intent" /\ Storage!After("intent") = "core" /\ Storage!After("core") = "store"
      /\ Storage!After("store") = "roots" /\ Storage!After("roots") = "native" /\ Storage!After("native") = "dropin"
      /\ Storage!After("dropin") = "conf" /\ Storage!After("conf") = "mount" /\ Storage!After("mount") = "fresh"
      /\ Storage!After("fresh") = "rw" /\ Storage!After("rw") = "provision" /\ Storage!After("provision") = "readonly"
      /\ Storage!After("readonly") = "verify" /\ Storage!After("verify") = "complete"
      /\ Storage!After("complete") = "done"
  BY <1>2, <1>4
<1>6. Storage!Running = {"look", "intent", "core", "store", "roots", "native", "dropin", "conf", "mount", "fresh",
                         "rw", "provision", "readonly", "verify", "complete", "undo"}
  BY <1>3 DEF Storage!Running
<1>7. Active = {"look", "intent", "core", "store", "roots", "native", "dropin", "conf", "mount", "fresh",
                "rw", "provision", "readonly", "verify", "complete"}
  BY <1>6 DEF Active
<1> QED
  BY <1>3, <1>5, <1>6, <1>7 DEF Storage!Making, Storage!Creating, Storage!Writable

LEMMA EarlierFacts ==
  /\ \A t : Earlier(t) \subseteq Pieces
  /\ \A t \in Pieces : t \notin Earlier(t) /\ (t # "intent" => "intent" \in Earlier(t))
  /\ \A t \in Pieces : \A s \in Earlier(t) : s # t
  /\ \A t \in Active : /\ Storage!After(t) \in Storage!Tasks
                       /\ Storage!After(t) \notin {"off", "look", "failed", "undo"}
                       /\ Storage!After(t) \in Active => Allowed(t) \subseteq Allowed(Storage!After(t))
  /\ \A t \in {"look", "native", "dropin", "mount", "fresh", "rw", "readonly", "verify"} :
       Earlier(Storage!After(t)) = Earlier(t)
  /\ \A t \in {"intent", "core", "store", "roots", "complete"} : Earlier(Storage!After(t)) = Earlier(t) \cup {t}
  /\ Earlier("mount") = Earlier("conf") \cup {"dropin", "conf"}
  /\ Earlier("readonly") = Earlier("provision") \cup {"bank.json", "bank.lock"}
  /\ Earlier("rw") = Mounts /\ Earlier("provision") = Mounts
  /\ Earlier("failed") = {} /\ Earlier("undo") = {} /\ Earlier("off") = {} /\ Earlier("look") = {}
<1>1. \A t : Earlier(t) \subseteq Pieces
  BY DEF Earlier, Pieces, Banks, Mounts, Stores
<1>2. \A t \in Pieces : t \notin Earlier(t) /\ (t # "intent" => "intent" \in Earlier(t))
  BY DEF Earlier, Pieces, Banks, Mounts, Stores
<1>3. \A t \in Active : /\ Storage!After(t) \in Storage!Tasks
                        /\ Storage!After(t) \notin {"off", "look", "failed", "undo"}
  BY StorageSets
<1>4. \A t \in {"look", "native", "dropin", "mount", "fresh", "rw", "readonly", "verify"} :
        Earlier(Storage!After(t)) = Earlier(t)
  BY StorageSets DEF Earlier
<1>5. \A t \in {"intent", "core", "store", "roots", "complete"} : Earlier(Storage!After(t)) = Earlier(t) \cup {t}
  BY StorageSets DEF Earlier, Pieces, Banks, Mounts, Stores
<1>6. /\ Earlier("mount") = Earlier("conf") \cup {"dropin", "conf"}
      /\ Earlier("readonly") = Earlier("provision") \cup {"bank.json", "bank.lock"}
      /\ Earlier("rw") = Mounts /\ Earlier("provision") = Mounts
      /\ Earlier("failed") = {} /\ Earlier("undo") = {} /\ Earlier("off") = {} /\ Earlier("look") = {}
  BY DEF Earlier, Banks, Mounts
<1>7. ASSUME NEW t \in Active, Storage!After(t) \in Active PROVE Allowed(t) \subseteq Allowed(Storage!After(t))
  <2>1. CASE t \in {"look", "native", "mount", "fresh", "rw", "readonly", "verify"}
    <3>1. Earlier(Storage!After(t)) = Earlier(t) /\ Allowed(t) = Earlier(t)
      BY <1>4, <2>1 DEF Allowed, Pieces
    <3> QED
      BY <3>1 DEF Allowed
  <2>2. CASE t \in {"intent", "core", "store", "roots"}
    <3>1. Earlier(Storage!After(t)) = Earlier(t) \cup {t} /\ Allowed(t) = Earlier(t) \cup {t}
      BY <1>5, <2>2 DEF Allowed, Pieces
    <3> QED
      BY <3>1 DEF Allowed
  <2>3. CASE t = "dropin"
    <3>1. Earlier("conf") = Earlier("dropin") /\ Allowed("dropin") = Earlier("dropin") \cup {"dropin"}
      BY DEF Allowed, Pieces, Earlier
    <3> QED
      BY <2>3, <3>1, StorageSets DEF Allowed
  <2>4. CASE t = "conf"
    <3>1. Allowed("conf") = Earlier("conf") \cup {"dropin", "conf"}
      BY DEF Allowed, Pieces
    <3> QED
      BY <1>6, <2>4, <3>1, StorageSets DEF Allowed
  <2>5. CASE t = "provision"
    <3>1. Allowed("provision") = Earlier("provision") \cup {"bank.json", "bank.lock"}
      BY DEF Allowed, Pieces
    <3> QED
      BY <1>6, <2>5, <3>1, StorageSets DEF Allowed
  <2>6. t # "complete"
    BY <1>7, StorageSets
  <2> QED
    BY <2>1, <2>2, <2>3, <2>4, <2>5, <2>6, StorageSets
<1> QED
  BY <1>1, <1>2, <1>3, <1>4, <1>5, <1>6, <1>7

LEMMA PieceFacts ==
  /\ \A t, p : Piece(t, p).dir = Storage!Parent(t) /\ Piece(t, p).name = t /\ Piece(t, p).file = <<t, p>>
  /\ \A t, s, p, q : Piece(t, p) = Piece(s, q) => t = s /\ p = q
  /\ \A t \in Pieces : t # "lost+found"
  /\ \A t \in {"intent", "core", "roots", "complete"} : Storage!Parent(t) = "base"
  /\ Storage!Parent("store") = "core" /\ Storage!Parent("dropin") = "systemd" /\ Storage!Parent("conf") = "dropin"
  /\ Storage!Parent("bank.json") = "bank" /\ Storage!Parent("bank.lock") = "bank"
<1>1. \A t, p : Piece(t, p).dir = Storage!Parent(t) /\ Piece(t, p).name = t /\ Piece(t, p).file = <<t, p>>
  BY DEF Piece, Entry
<1>2. ASSUME NEW t, NEW s, NEW p, NEW q, Piece(t, p) = Piece(s, q) PROVE t = s /\ p = q
  <2>1. <<t, p>> = <<s, q>>
    BY <1>1, <1>2
  <2> QED
    BY <2>1
<1>3. \A t \in Pieces : t # "lost+found"
  BY DEF Pieces
<1> QED
  BY <1>1, <1>2, <1>3 DEF Storage!Parent

\* What a step does to the files when it makes or writes the pieces M, which are one or none.
Moved(M) ==
  /\ FileSystem(fs')
  /\ \A e \in Made(fs') : e \in Made(fs) \/ \E m \in M : e = Piece(m[1], m[2])
  /\ \A e \in fs'.now : e \in fs.now \/ \E m \in M : e = Piece(m[1], m[2])
  /\ \A e \in fs.now : e.name # "lost+found" => e \in fs'.now
  /\ \A e \in fs.disk : e.name # "lost+found" => e \in fs'.disk
  /\ \A e \in fs'.disk : e.name # "lost+found" => e \in fs'.now
  /\ \A x \in fs'.torn : x \in fs.torn \/ x \in M
  /\ \A x \in fs'.loose : x \in fs.loose \/ x \in M
  /\ \A q \in Attempts : Piece("intent", q) \in fs'.now => Piece("intent", q) \in fs.now \/ Absent(fs, "base", "intent")

\* A piece may be made when what comes before it is sure and what comes after is not there.
Due(t, p) ==
  /\ t \in Pieces /\ p \in Attempts
  /\ \A s \in Earlier(t) : Sure(fs, s, p)
  /\ \A u \in Pieces : t \in Earlier(u) => Piece(u, p) \notin Made(fs)

LEMMA SureStays ==
  ASSUME NEW M, Moved(M), NEW s \in Pieces, NEW q, <<s, q>> \notin M, Sure(fs, s, q)
  PROVE  Sure(fs', s, q)
<1>1. Piece(s, q).name # "lost+found"
  BY PieceFacts
<1>2. Kept(fs', Piece(s, q))
  BY <1>1 DEF Sure, Kept, Moved
<1>3. s \in Contents => <<s, q>> \notin fs'.torn /\ <<s, q>> \notin fs'.loose
  BY DEF Sure, Moved
<1> QED
  BY <1>2, <1>3 DEF Sure

LEMMA NotMadeStays ==
  ASSUME NEW M, M \subseteq Pieces \X Attempts, Moved(M), NEW s \in Pieces, NEW q, <<s, q>> \notin M
  PROVE  /\ Piece(s, q) \in Made(fs') => Piece(s, q) \in Made(fs)
         /\ Piece(s, q) \in fs'.now => Piece(s, q) \in fs.now
<1>1. \A m \in M : Piece(s, q) # Piece(m[1], m[2])
  <2> SUFFICES ASSUME NEW m \in M, Piece(s, q) = Piece(m[1], m[2]) PROVE FALSE
    OBVIOUS
  <2>1. s = m[1] /\ q = m[2]
    BY PieceFacts
  <2>2. m = <<m[1], m[2]>>
    OBVIOUS
  <2> QED
    BY <2>1, <2>2
<1> QED
  BY <1>1 DEF Moved

LEMMA ProperStays ==
  ASSUME Proper(fs), NEW t, NEW p, NEW M, M \subseteq {<<t, p>>}, \A m \in M : Due(m[1], m[2]), Moved(M)
  PROVE  Proper(fs')
<1>0. M \subseteq Pieces \X Attempts
  BY DEF Due
<1>1. Formed(fs')
  <2>1. \A e \in Made(fs') : e.name = "lost+found" \/ \E u \in Pieces, q \in Attempts : e = Piece(u, q)
    <3> SUFFICES ASSUME NEW e \in Made(fs')
                 PROVE  e.name = "lost+found" \/ \E u \in Pieces, q \in Attempts : e = Piece(u, q)
      OBVIOUS
    <3>1. CASE e \in Made(fs)
      BY <3>1 DEF Proper, Formed
    <3>2. CASE \E m \in M : e = Piece(m[1], m[2])
      BY <3>2 DEF Due
    <3> QED
      BY <3>1, <3>2 DEF Moved
  <2> QED
    BY <2>1 DEF Moved, Formed
<1>2. OneInstall(fs')
  <2> SUFFICES ASSUME NEW q \in Attempts, NEW r \in Attempts,
                      Piece("intent", q) \in fs'.now, Piece("intent", r) \in fs'.now
               PROVE  q = r
    BY DEF OneInstall
  <2>1. "intent" \in Pieces
    BY DEF Pieces
  <2>2. ASSUME NEW u \in Attempts, Piece("intent", u) \in fs'.now
        PROVE  Piece("intent", u) \in fs.now \/ (<<"intent", u>> = <<t, p>> /\ Absent(fs, "base", "intent"))
    BY <1>0, <2>1, <2>2, NotMadeStays DEF Moved
  <2>3. Absent(fs, "base", "intent") => \A u \in Attempts : Piece("intent", u) \notin fs.now
    BY PieceFacts DEF Absent, Named
  <2>4. CASE Absent(fs, "base", "intent")
    <3>1. <<"intent", q>> = <<t, p>> /\ <<"intent", r>> = <<t, p>>
      BY <2>2, <2>3, <2>4
    <3> QED
      BY <3>1
  <2>5. CASE ~Absent(fs, "base", "intent")
    BY <2>2, <2>5 DEF Proper, OneInstall
  <2> QED
    BY <2>4, <2>5
<1>3. InOrder(fs')
  <2> SUFFICES ASSUME NEW u \in Pieces, NEW q \in Attempts, Piece(u, q) \in Made(fs'), NEW s \in Earlier(u)
               PROVE  Sure(fs', s, q)
    BY DEF InOrder
  <2>1. s \in Pieces /\ s # u
    BY EarlierFacts
  <2>2. CASE <<u, q>> \in M
    <3>1. u = t /\ q = p /\ Due(u, q)
      <4>1. <<u, q>>[1] = u /\ <<u, q>>[2] = q
        OBVIOUS
      <4> QED
        BY <2>2, <4>1
    <3>2. Sure(fs, s, q)
      BY <3>1 DEF Due
    <3>3. <<s, q>> \notin M
      BY <2>1, <3>1
    <3> QED
      BY <2>1, <3>2, <3>3, SureStays
  <2>3. CASE <<u, q>> \notin M
    <3>1. Piece(u, q) \in Made(fs)
      BY <1>0, <2>3, NotMadeStays
    <3>2. Sure(fs, s, q)
      BY <3>1 DEF Proper, InOrder
    <3>3. <<s, q>> \notin M
      <4> SUFFICES ASSUME <<s, q>> \in M PROVE FALSE
        OBVIOUS
      <4>1. Due(<<s, q>>[1], <<s, q>>[2])
        OBVIOUS
      <4>2. Due(s, q)
        BY <4>1
      <4> QED
        BY <3>1, <4>2 DEF Due
    <3> QED
      BY <2>1, <3>2, <3>3, SureStays
  <2> QED
    BY <2>2, <2>3
<1> QED
  BY <1>1, <1>2, <1>3 DEF Proper

LEMMA ArrivedStays ==
  ASSUME NEW M, M \subseteq Pieces \X Attempts, Moved(M), NEW at, NEW q, Arrived(fs, at, q),
         \A s \in Pieces : <<s, q>> \in M =>
           s \notin Earlier(at) /\ at \notin {"off", "look"} /\ (at \in Active => s \in Allowed(at))
  PROVE  Arrived(fs', at, q)
<1>1. ASSUME NEW s \in Earlier(at) PROVE Sure(fs', s, q)
  <2>1. s \in Pieces
    BY EarlierFacts
  <2>2. Sure(fs, s, q)
    BY DEF Arrived
  <2> QED
    BY <2>1, <2>2, SureStays
<1>2. ASSUME NEW s \in Pieces, Piece(s, q) \in Made(fs')
      PROVE  at \notin {"off", "look"} /\ (at \in Active => s \in Allowed(at))
  <2>1. CASE <<s, q>> \in M
    BY <2>1
  <2>2. CASE <<s, q>> \notin M
    BY <1>2, <2>2, NotMadeStays DEF Arrived
  <2> QED
    BY <2>1, <2>2
<1> QED
  BY <1>1, <1>2 DEF Arrived

LEMMA EngagedStays ==
  ASSUME NEW M, Moved(M), NEW at, NEW call, NEW q, Engaged(fs, at, call, q), <<at, q>> \notin M
  PROVE  Engaged(fs', at, call, q)
<1>1. ASSUME NEW t \in Pieces PROVE /\ Piece(t, q) \in fs.now => Piece(t, q) \in fs'.now
                                    /\ Piece(t, q) \in fs.disk => Piece(t, q) \in fs'.disk
  BY PieceFacts DEF Moved
<1>2. (<<at, q>> \notin fs.torn => <<at, q>> \notin fs'.torn) /\ (<<at, q>> \notin fs.loose => <<at, q>> \notin fs'.loose)
  BY DEF Moved
<1>3. "dropin" \in Pieces /\ (at \in {"intent", "complete", "conf"} \cup Storage!Making => at \in Pieces)
  BY StorageSets DEF Pieces
<1> QED
  BY <1>1, <1>2, <1>3 DEF Engaged

LEMMA FollowsStays ==
  ASSUME NEW M, M \subseteq Pieces \X Attempts, Moved(M), NEW c, Follows(fs, c),
         \A s \in Banks \cup {"complete"} : <<s, c.of>> \notin M
  PROVE  Follows(fs', c)
<1> SUFFICES ASSUME c.of # NoInstaller PROVE Follows(fs', c)
  BY DEF Follows
<1>0. Banks \subseteq Pieces /\ Mounts \subseteq Banks /\ "complete" \in Pieces /\ {"bank.json", "bank.lock"} \subseteq Banks
  BY DEF Banks, Mounts, Stores, Pieces
<1>1. \A s \in Mounts : Sure(fs', s, c.of)
  BY <1>0, SureStays DEF Follows
<1>2. Piece("complete", c.of) \notin Made(fs')
  BY <1>0, NotMadeStays DEF Follows
<1>3. Piece("bank.lock", c.of) \notin Made(fs) => Piece("bank.lock", c.of) \notin Made(fs')
  BY <1>0, NotMadeStays
<1>4. \A t \in {"bank.json", "bank.lock"} : /\ Piece(t, c.of) \in fs.now => Piece(t, c.of) \in fs'.now
                                            /\ Piece(t, c.of) \in fs.disk => Piece(t, c.of) \in fs'.disk
  BY <1>0, PieceFacts DEF Moved
<1>5. /\ <<"bank.json", c.of>> \notin fs.torn => <<"bank.json", c.of>> \notin fs'.torn
      /\ <<"bank.json", c.of>> \notin fs.loose => <<"bank.json", c.of>> \notin fs'.loose
  BY <1>0 DEF Moved
<1> QED
  BY <1>1, <1>2, <1>3, <1>4, <1>5 DEF Follows

\* A step that leaves an installer's entries alone keeps what is said of it.
LEMMA MadeOf ==
  ASSUME NEW M, M \subseteq Pieces \X Attempts, Moved(M), NEW q, <<"complete", q>> \notin M
  PROVE  Piece("complete", q) \in Made(fs') => Piece("complete", q) \in Made(fs)
<1>1. "complete" \in Pieces
  BY DEF Pieces
<1> QED
  BY <1>1, NotMadeStays

\* An installer past its intent is the only one there is.
LEMMA OneIsPast ==
  ASSUME NEW g, Proper(g), NEW p \in Attempts, NEW q \in Attempts,
         NEW t \in Pieces, Piece(t, p) \in g.now, NEW u \in Pieces, Piece(u, q) \in g.now
  PROVE  p = q
<1>1. ASSUME NEW r \in Attempts, NEW s \in Pieces, Piece(s, r) \in g.now PROVE Piece("intent", r) \in g.now
  <2>1. CASE s = "intent"
    BY <1>1, <2>1
  <2>2. CASE s # "intent"
    <3>1. Sure(g, "intent", r)
      BY <1>1, <2>2, EarlierFacts DEF Proper, InOrder, Made
    <3> QED
      BY <3>1 DEF Sure, Kept
  <2> QED
    BY <2>1, <2>2
<1> QED
  BY <1>1 DEF Proper, OneInstall

\* What the calls do.
LEMMA StorageCalls ==
  ASSUME Proper(fs), NEW t \in Pieces, NEW p \in Attempts
  PROVE  /\ fs' = Created(fs, Storage!Parent(t), t, <<t, p>>) /\ Absent(fs, Storage!Parent(t), t) => Moved({<<t, p>>})
         /\ fs' = Written(fs, <<t, p>>) => Moved({<<t, p>>})
         /\ fs' = FileSynced(fs, <<t, p>>) => Moved({<<t, p>>})
         /\ fs' = Enter(fs, Storage!Parent(t), t, <<t, p>>) /\ t # "intent" => Moved({<<t, p>>})
         /\ \A d, M : fs' = Synced(fs, d) => Moved(M)
         /\ \A M : fs' = Remove(fs, "bank", "lost+found") => Moved(M)
         /\ \A M : fs' = fs => Moved(M)
<1>0. /\ FileSystem(fs)
      /\ \A e \in fs.disk : e.name # "lost+found" => e \in fs.now
  BY DEF Proper, Formed
<1>1. \A m \in {<<t, p>>} : m[1] = t /\ m[2] = p
  OBVIOUS
<1>2. Piece(t, p).name = t /\ t # "lost+found"
  BY PieceFacts
<1>3. \A q : Piece("intent", q) = Piece(t, p) => t = "intent"
  BY PieceFacts
<1>4. ASSUME fs' = Created(fs, Storage!Parent(t), t, <<t, p>>), Absent(fs, Storage!Parent(t), t) PROVE Moved({<<t, p>>})
  <2>1. /\ FileSystem(fs') /\ fs'.now = fs.now \cup {Piece(t, p)} /\ fs'.disk = fs.disk
        /\ fs'.torn = fs.torn \cup {<<t, p>>} /\ fs'.loose = fs.loose
    BY <1>0, <1>4, CreatedIs DEF Piece
  <2>2. t = "intent" => Absent(fs, "base", "intent")
    BY <1>4, PieceFacts
  <2> QED
    BY <1>0, <1>1, <1>2, <1>3, <2>1, <2>2 DEF Moved, Made
<1>5. ASSUME fs' = Written(fs, <<t, p>>) PROVE Moved({<<t, p>>})
  <2>1. /\ FileSystem(fs') /\ fs'.now = fs.now /\ fs'.disk = fs.disk
        /\ fs'.torn = fs.torn \ {<<t, p>>} /\ fs'.loose = fs.loose \cup {<<t, p>>}
    BY <1>0, <1>5, WrittenIs
  <2> QED
    BY <1>0, <2>1 DEF Moved, Made
<1>6. ASSUME fs' = FileSynced(fs, <<t, p>>) PROVE Moved({<<t, p>>})
  <2>1. /\ FileSystem(fs') /\ fs'.now = fs.now /\ fs'.disk = fs.disk
        /\ fs'.torn = fs.torn /\ fs'.loose = fs.loose \ {<<t, p>>}
    BY <1>0, <1>6, FileSyncedIs
  <2> QED
    BY <1>0, <2>1 DEF Moved, Made
<1>7. ASSUME fs' = Enter(fs, Storage!Parent(t), t, <<t, p>>), t # "intent" PROVE Moved({<<t, p>>})
  <2>1. /\ FileSystem(fs') /\ fs'.now = fs.now \cup {Piece(t, p)} /\ fs'.disk = fs.disk
        /\ fs'.torn = fs.torn /\ fs'.loose = fs.loose
    BY <1>0, <1>7, EnterIs DEF Piece
  <2> QED
    BY <1>0, <1>1, <1>2, <1>3, <1>7, <2>1 DEF Moved, Made
<1>8. ASSUME NEW d, NEW M, fs' = Synced(fs, d) PROVE Moved(M)
  <2>1. /\ FileSystem(fs') /\ fs'.now = fs.now /\ fs'.torn = fs.torn /\ fs'.loose = fs.loose
        /\ fs'.disk = {e \in fs.disk : e.dir # d} \cup {e \in fs.now : e.dir = d}
    BY <1>0, <1>8, SyncedIs
  <2> QED
    BY <1>0, <2>1 DEF Moved, Made
<1>9. ASSUME NEW M, fs' = Remove(fs, "bank", "lost+found") PROVE Moved(M)
  <2>1. /\ FileSystem(fs') /\ fs'.now = fs.now \ Named(fs, "bank", "lost+found") /\ fs'.disk = fs.disk
        /\ fs'.torn = fs.torn /\ fs'.loose = fs.loose
    BY <1>0, <1>9, RemoveIs
  <2>2. \A e \in Named(fs, "bank", "lost+found") : e.name = "lost+found"
    BY DEF Named
  <2> QED
    BY <1>0, <2>1, <2>2 DEF Moved, Made
<1>10. ASSUME NEW M, fs' = fs PROVE Moved(M)
  BY <1>0, <1>10 DEF Moved, Made
<1> QED
  BY <1>4, <1>5, <1>6, <1>7, <1>8, <1>9, <1>10

LEMMA MoreOnTasks ==
  /\ \A t \in Pieces \ {"bank.json", "bank.lock"} :
       t \in Active /\ t \in Allowed(t) /\ (\A u \in Allowed(t) : t \notin Earlier(u)) /\ t \notin {"rw", "provision", "failed"}
  /\ Pieces \cap Storage!Tasks = Pieces \ {"bank.json", "bank.lock"}
  /\ \A t \in Active : Storage!After(t) \in Ready => t \in Ready \cup {"native"}
  /\ \A t \in Active : Storage!After(t) \in {"complete", "done"} => t \in {"verify", "complete"}
  /\ \A t : Storage!First(t) \in {"go", "create", "mkdir", "spawn"} /\ Storage!First(t) \in Moves
  /\ \A g, t, p : t # "conf" => Engaged(g, t, Storage!First(t), p)
<1>1. \A t \in Pieces \ {"bank.json", "bank.lock"} : t \in Active /\ t \notin {"rw", "provision", "failed"}
  BY StorageSets DEF Pieces
<1>2. ASSUME NEW t \in Pieces \ {"bank.json", "bank.lock"} PROVE t \in Allowed(t) /\ \A u \in Allowed(t) : t \notin Earlier(u)
  <2>1. Allowed(t) = Earlier(t) \cup {t} \cup (IF t = "conf" THEN {"dropin"} ELSE {})
    BY DEF Allowed, Pieces
  <2>2. t \notin Earlier(t)
    BY EarlierFacts
  <2>3. \A u \in Earlier(t) : t \notin Earlier(u)
    BY DEF Earlier, Pieces, Banks, Mounts, Stores
  <2>4. "conf" \notin Earlier("dropin")
    BY DEF Earlier, Stores
  <2> QED
    BY <2>1, <2>2, <2>3, <2>4
<1>3. Pieces \cap Storage!Tasks = Pieces \ {"bank.json", "bank.lock"}
  BY StorageSets DEF Pieces
<1>4. /\ \A t \in Active : Storage!After(t) \in Ready => t \in Ready \cup {"native"}
      /\ \A t \in Active : Storage!After(t) \in {"complete", "done"} => t \in {"verify", "complete"}
  BY StorageSets DEF Ready
<1>5. \A t : Storage!First(t) \in {"go", "create", "mkdir", "spawn"}
  BY DEF Storage!First
<1>6. \A g, t, p : t # "conf" => Engaged(g, t, Storage!First(t), p)
  BY <1>5 DEF Engaged
<1> QED
  BY <1>1, <1>2, <1>3, <1>4, <1>5, <1>6 DEF Moves

\* A step of one installer, or of its command: what is said of the others stays.
LEMMA StepKeeps ==
  ASSUME StorageInv, NEW p \in Attempts, NEW t, NEW M, M \subseteq {<<t, p>>}, \A m \in M : Due(m[1], m[2]), Moved(M),
         StorageTypes', Follows(fs', child'), child'.of \in Attempts => Awaited(child', task'[child'.of]),
         \A q \in Attempts \ {p} : task'[q] = task[q] /\ step'[q] = step[q],
         store = "ready" => store' = "ready", ro = TRUE => ro' = TRUE,
         Keeps(p)', StoreOf(p)', BankOf(p)'
  PROVE  StorageInv'
<1>0. M \subseteq Pieces \X Attempts
  BY DEF Due
<1>1. Proper(fs')
  BY ProperStays DEF StorageInv
<1>2. ASSUME NEW q \in Attempts PROVE Keeps(q)' /\ StoreOf(q)' /\ BankOf(q)'
  <2>1. CASE q = p
    BY <2>1
  <2>2. CASE q # p
    <3>1. task'[q] = task[q] /\ step'[q] = step[q]
      BY <2>2
    <3>2. \A s : <<s, q>> \notin M
      BY <2>2
    <3> DEFINE at == task[q]  call == step[q]
    <3>3. Arrived(fs, at, q) /\ Engaged(fs, at, call, q)
      BY DEF StorageInv, Keeps
    <3> HIDE DEF at, call
    <3>4. Arrived(fs', at, q)
      BY <1>0, <3>2, <3>3, ArrivedStays
    <3>5. Engaged(fs', at, call, q)
      BY <3>2, <3>3, EngagedStays
    <3>6. Keeps(q)'
      BY <3>1, <3>4, <3>5 DEF Keeps, at, call
    <3>7. Piece("complete", q) \in Made(fs') => Piece("complete", q) \in Made(fs)
      BY <1>0, <3>2, MadeOf
    <3>8. StoreOf(q) /\ BankOf(q)
      BY DEF StorageInv
    <3>9. StoreOf(q)' /\ BankOf(q)'
      BY <3>1, <3>7, <3>8 DEF StoreOf, BankOf
    <3> QED
      BY <3>6, <3>9
  <2> QED
    BY <2>1, <2>2
<1> QED
  BY <1>1, <1>2 DEF StorageInv

\* The command of another installer is not concerned, nor one that is waited for, if nothing is made.
LEMMA ChildStays ==
  ASSUME StorageInv, NEW p \in Attempts, NEW t, NEW M, M \subseteq Pieces \X Attempts, M \subseteq {<<t, p>>}, Moved(M),
         M = {} \/ child.of # p,
         child' = child \/ child' = Storage!NoChild,
         child' = child => /\ \A q \in Attempts \ {p} : task'[q] = task[q]
                           /\ child.of = p => Awaited(child, task'[p])
  PROVE  /\ Follows(fs', child')
         /\ child'.of \in Attempts => Awaited(child', task'[child'.of])
         /\ child' = [of |-> child'.of, does |-> child'.does, step |-> child'.step]
         /\ child'.of = NoInstaller => child' = Storage!NoChild
<1>1. CASE child' = Storage!NoChild
  <2>1. /\ Storage!NoChild.of = NoInstaller
        /\ Storage!NoChild = [of |-> Storage!NoChild.of, does |-> Storage!NoChild.does, step |-> Storage!NoChild.step]
    BY DEF Storage!NoChild
  <2>2. NoInstaller \notin Attempts
    BY OtherAssumptions DEF Storage!NobodyAssumption
  <2> QED
    BY <1>1, <2>1, <2>2 DEF Follows
<1>2. CASE child' = child
  <2>1. Follows(fs', child)
    <3>1. \A s : <<s, child.of>> \notin M
      OBVIOUS
    <3>2. Follows(fs, child)
      BY DEF StorageInv
    <3> QED
      BY <3>1, <3>2, FollowsStays
  <2>2. child.of \in Attempts => Awaited(child, task'[child.of])
    BY <1>2 DEF StorageInv
  <2> QED
    BY <1>2, <2>1, <2>2 DEF StorageInv, StorageTypes
<1> QED
  BY <1>1, <1>2

\* An installer that makes something has no command.
LEMMA NoCommand ==
  ASSUME StorageInv, NEW p \in Attempts, task[p] \notin {"rw", "provision", "failed"}
  PROVE  child.of # p
  BY DEF StorageInv, Awaited

LEMMA OwnDue ==
  ASSUME StorageInv, NEW p \in Attempts, task[p] \in Pieces
  PROVE  Due(task[p], p) /\ task[p] \in Active /\ task[p] \in Pieces \ {"bank.json", "bank.lock"}
<1> DEFINE t == task[p]
<1>1. t \in Pieces \ {"bank.json", "bank.lock"}
  BY MoreOnTasks DEF StorageInv, StorageTypes
<1>2. Arrived(fs, t, p)
  BY DEF StorageInv, Keeps
<1> HIDE DEF t
<1>3. t \in Active /\ \A u \in Allowed(t) : t \notin Earlier(u)
  BY <1>1, MoreOnTasks
<1>4. \A u \in Pieces : t \in Earlier(u) => Piece(u, p) \notin Made(fs)
  BY <1>2, <1>3 DEF Arrived
<1>5. Due(t, p)
  BY <1>1, <1>2, <1>4 DEF Due, Arrived
<1> QED
  BY <1>1, <1>3, <1>5 DEF t

\* A call that is not the last of its task.
LEMMA StorageCallKeeps ==
  ASSUME StorageInv, NEW p \in Attempts, NEW t \in Pieces, task[p] = t, Moved({<<t, p>>}),
         NEW from, NEW to \in Moves, NEW after, Storage!Call(p, from, to, after), Engaged(fs', t, to, p),
         child' = child, store' = store, ro' = ro
  PROVE  StorageInv'
<1>1. step' = [step EXCEPT ![p] = to] /\ task' = task
  BY DEF Storage!Call
<1>2. StorageTypes'
  BY <1>1 DEF StorageInv, StorageTypes
<1>3. step'[p] = to /\ \A q \in Attempts \ {p} : task'[q] = task[q] /\ step'[q] = step[q]
  BY <1>1 DEF StorageInv, StorageTypes
<1>4. Due(t, p) /\ t \in Active /\ t \in Pieces \ {"bank.json", "bank.lock"}
  BY OwnDue
<1>5. \A m \in {<<t, p>>} : Due(m[1], m[2])
  <2>1. \A m \in {<<t, p>>} : m[1] = t /\ m[2] = p
    OBVIOUS
  <2> QED
    BY <1>4, <2>1
<1>6. {<<t, p>>} \subseteq Pieces \X Attempts
  OBVIOUS
<1>7. child.of # p
  BY <1>4, MoreOnTasks, NoCommand
<1>8. Follows(fs', child') /\ (child'.of \in Attempts => Awaited(child', task'[child'.of]))
  BY <1>1, <1>6, <1>7, ChildStays
<1>9. Arrived(fs', t, p)
  <2>1. Arrived(fs, t, p)
    BY DEF StorageInv, Keeps
  <2>2. \A s \in Pieces : <<s, p>> \in {<<t, p>>} => s = t
    OBVIOUS
  <2>3. t \notin Earlier(t) /\ t \in Allowed(t) /\ t \notin {"off", "look"}
    BY <1>4, EarlierFacts, MoreOnTasks DEF Pieces
  <2> QED
    BY <1>6, <2>1, <2>2, <2>3, ArrivedStays
<1>10. Keeps(p)'
  BY <1>1, <1>3, <1>9 DEF Keeps
<1>11. StoreOf(p)' /\ BankOf(p)'
  <2>1. StoreOf(p) /\ BankOf(p)
    BY DEF StorageInv
  <2>2. CASE t = "complete"
    BY <1>1, <2>1, <2>2 DEF StoreOf, BankOf, Ready
  <2>3. CASE t # "complete"
    <3>1. Piece("complete", p) \in Made(fs') => Piece("complete", p) \in Made(fs)
      <4>1. <<"complete", p>> \notin {<<t, p>>}
        BY <2>3
      <4> QED
        BY <1>6, <4>1, MadeOf
    <3> QED
      BY <1>1, <2>1, <3>1 DEF StoreOf, BankOf
  <2> QED
    BY <2>2, <2>3
<1> QED
  BY <1>2, <1>3, <1>5, <1>8, <1>10, <1>11, StepKeeps

\* The last call of a task: the next one begins.
LEMMA StorageLastKeeps ==
  ASSUME StorageInv, NEW p \in Attempts, NEW t \in Active, task[p] = t,
         NEW M, M = {} \/ (M = {<<t, p>>} /\ t \in Pieces), Moved(M),
         NEW from, NEW after, Storage!Last(p, from, after),
         \A s \in Earlier(Storage!After(t)) : Sure(fs', s, p),
         Engaged(fs', Storage!After(t), Storage!First(Storage!After(t)), p),
         (child' = child /\ t \notin Storage!Writable) \/ child' = Storage!NoChild,
         store = "ready" => store' = "ready", t = "native" => store' = "ready",
         ro = TRUE => ro' = TRUE, t = "verify" => ro = TRUE
  PROVE  StorageInv'
<1> DEFINE at == Storage!After(t)
<1>1. task' = [task EXCEPT ![p] = at] /\ step' = [step EXCEPT ![p] = Storage!First(at)]
  BY DEF Storage!Last
<1>2. at \in Storage!Tasks /\ at \notin {"off", "look"} /\ (at \in Active => Allowed(t) \subseteq Allowed(at))
  BY EarlierFacts
<1>3. Storage!First(at) \in Moves
  BY MoreOnTasks
<1>4. (at \in Ready => t \in Ready \cup {"native"}) /\ (at \in {"complete", "done"} => t \in {"verify", "complete"})
  BY MoreOnTasks
<1>5. \A s \in Earlier(at) : Sure(fs', s, p)
  OBVIOUS
<1>6. Engaged(fs', at, Storage!First(at), p)
  OBVIOUS
<1> HIDE DEF at
<1>7. task'[p] = at /\ step'[p] = Storage!First(at) /\ \A q \in Attempts \ {p} : task'[q] = task[q] /\ step'[q] = step[q]
  BY <1>1 DEF StorageInv, StorageTypes
<1>8. M \subseteq {<<t, p>>} /\ M \subseteq Pieces \X Attempts
  OBVIOUS
<1>9. \A m \in M : Due(m[1], m[2])
  <2>1. CASE M = {}
    BY <2>1
  <2>2. CASE M = {<<t, p>>} /\ t \in Pieces
    <3>1. \A m \in M : m[1] = t /\ m[2] = p
      BY <2>2
    <3>2. Due(t, p)
      BY <2>2, OwnDue
    <3> QED
      BY <3>1, <3>2
  <2> QED
    BY <2>1, <2>2
<1>10. /\ Follows(fs', child')
       /\ child'.of \in Attempts => Awaited(child', task'[child'.of])
       /\ child' = [of |-> child'.of, does |-> child'.does, step |-> child'.step]
       /\ child'.of = NoInstaller => child' = Storage!NoChild
  <2>1. CASE child' = child /\ t \notin Storage!Writable
    <3>1. child.of # p
      BY <2>1, StorageSets, NoCommand
    <3> QED
      BY <1>7, <1>8, <2>1, <3>1, ChildStays
  <2>2. CASE child' = Storage!NoChild /\ (child' # child \/ t \in Storage!Writable)
    <3>1. M = {} \/ child.of # p
      <4>1. t \in Pieces => t \notin {"rw", "provision", "failed"}
        BY StorageSets DEF Pieces
      <4> QED
        BY <4>1, NoCommand
    <3>2. child' = child => child.of # p
      <4>1. NoInstaller \notin Attempts /\ Storage!NoChild.of = NoInstaller
        BY OtherAssumptions DEF Storage!NobodyAssumption, Storage!NoChild
      <4> QED
        BY <2>2, <4>1
    <3> QED
      BY <1>7, <1>8, <2>2, <3>1, <3>2, ChildStays
  <2> QED
    BY <2>1, <2>2
<1>11. StorageTypes'
  BY <1>1, <1>2, <1>3, <1>10 DEF StorageInv, StorageTypes
<1>12. Arrived(fs', at, p)
  <2>1. ASSUME NEW u \in Pieces, Piece(u, p) \in Made(fs'), at \in Active PROVE u \in Allowed(at)
    <3>1. CASE <<u, p>> \in M
      <4>1. u = t /\ t \in Pieces
        BY <3>1
      <4>2. t \in Allowed(t)
        BY <4>1 DEF Allowed
      <4> QED
        BY <1>2, <2>1, <4>1, <4>2
    <3>2. CASE <<u, p>> \notin M
      <4>1. Piece(u, p) \in Made(fs)
        BY <1>8, <2>1, <3>2, NotMadeStays
      <4>2. u \in Allowed(t)
        BY <4>1 DEF StorageInv, Keeps, Arrived
      <4> QED
        BY <1>2, <2>1, <4>2
    <3> QED
      BY <3>1, <3>2
  <2> QED
    BY <1>2, <1>5, <2>1 DEF Arrived
<1>13. Keeps(p)'
  BY <1>6, <1>7, <1>12 DEF Keeps
<1>14. StoreOf(p)' /\ BankOf(p)'
  <2>1. StoreOf(p) /\ BankOf(p)
    BY DEF StorageInv
  <2>2. ASSUME Piece("complete", p) \in Made(fs') PROVE t = "complete" \/ Piece("complete", p) \in Made(fs)
    <3>1. CASE t # "complete"
      <4>1. <<"complete", p>> \notin M
        BY <3>1
      <4> QED
        BY <1>8, <2>2, <4>1, MadeOf
    <3> QED
      BY <3>1
  <2>3. StoreOf(p)'
    <3>1. at \in Ready => store' = "ready"
      BY <1>4, <2>1 DEF StoreOf
    <3>2. Piece("complete", p) \in Made(fs') => store' = "ready"
      BY <2>1, <2>2 DEF StoreOf, Ready
    <3> QED
      BY <1>7, <3>1, <3>2 DEF StoreOf
  <2>4. BankOf(p)'
    <3>1. at \in {"complete", "done"} => ro' = TRUE
      BY <1>4, <2>1 DEF BankOf
    <3>2. Piece("complete", p) \in Made(fs') => ro' = TRUE
      BY <2>1, <2>2 DEF BankOf
    <3> QED
      BY <1>7, <3>1, <3>2 DEF BankOf
  <2> QED
    BY <2>3, <2>4
<1> QED
  BY <1>7, <1>8, <1>9, <1>10, <1>11, <1>13, <1>14, StepKeeps

\* An installer that begins or stops.
LEMMA StopKeeps ==
  ASSUME StorageInv, NEW p \in Attempts, Moved({}), step' = step,
         NEW to \in {"look", "failed", "undo"}, task' = [task EXCEPT ![p] = to], to = "look" => task[p] = "off",
         to # "look" => task[p] \in Storage!Running,
         child' = child \/ child' = Storage!NoChild, child' = child /\ child.of = p => to = "failed",
         store' = store, ro = TRUE => ro' = TRUE
  PROVE  StorageInv'
<1>1. task'[p] = to /\ step'[p] = step[p] /\ \A q \in Attempts \ {p} : task'[q] = task[q] /\ step'[q] = step[q]
  BY DEF StorageInv, StorageTypes
<1>2. /\ Follows(fs', child')
      /\ child'.of \in Attempts => Awaited(child', task'[child'.of])
      /\ child' = [of |-> child'.of, does |-> child'.does, step |-> child'.step]
      /\ child'.of = NoInstaller => child' = Storage!NoChild
  <2>1. child' = child /\ child.of = p => Awaited(child, task'[p])
    BY <1>1 DEF Awaited
  <2>2. {} \subseteq Pieces \X Attempts /\ {} \subseteq {<<to, p>>}
    OBVIOUS
  <2> QED
    BY <1>1, <2>1, <2>2, ChildStays
<1>3. StorageTypes'
  BY <1>2, StorageSets DEF StorageInv, StorageTypes
<1>4. Arrived(fs, task[p], p) /\ StoreOf(p) /\ BankOf(p)
  BY DEF StorageInv, Keeps
<1>5. \A u \in Pieces : Piece(u, p) \in Made(fs') => Piece(u, p) \in Made(fs)
  <2> DEFINE M == {}
  <2>1. M \subseteq Pieces \X Attempts /\ Moved(M) /\ \A u : <<u, p>> \notin M
    OBVIOUS
  <2> HIDE DEF M
  <2> QED
    BY <2>1, NotMadeStays
<1>6. Arrived(fs', to, p)
  <2>1. Earlier(to) = {}
    BY EarlierFacts
  <2>2. CASE to = "look"
    <3>1. \A u \in Pieces : Piece(u, p) \notin Made(fs)
      BY <1>4, <2>2 DEF Arrived
    <3> QED
      BY <1>5, <2>1, <3>1 DEF Arrived
  <2>3. CASE to # "look"
    <3>1. to \notin Active /\ to \notin {"off", "look"}
      BY <2>3, StorageSets
    <3> QED
      BY <2>1, <3>1 DEF Arrived
  <2> QED
    BY <2>2, <2>3
<1>7. Engaged(fs', to, step[p], p)
  BY StorageSets DEF Engaged
<1>8. Keeps(p)'
  BY <1>1, <1>6, <1>7 DEF Keeps
<1>9. StoreOf(p)' /\ BankOf(p)'
  <2>1. Piece("complete", p) \in Made(fs') => Piece("complete", p) \in Made(fs)
    BY <1>5 DEF Pieces
  <2> QED
    BY <1>1, <1>4, <2>1 DEF StoreOf, BankOf, Ready
<1> DEFINE M == {}
<1>10. M \subseteq {<<to, p>>} /\ Moved(M) /\ \A m \in M : Due(m[1], m[2])
  OBVIOUS
<1> HIDE DEF M
<1> QED
  BY <1>1, <1>2, <1>3, <1>8, <1>9, <1>10, StepKeeps

LEMMA EarlierStays ==
  ASSUME NEW M, Moved(M), NEW t, NEW p, M = {} \/ M = {<<t, p>>}, Arrived(fs, t, p)
  PROVE  \A s \in Earlier(t) : Sure(fs', s, p)
<1> SUFFICES ASSUME NEW s \in Earlier(t) PROVE Sure(fs', s, p)
  OBVIOUS
<1>1. s \in Pieces /\ (t \in Pieces => s # t) /\ Sure(fs, s, p)
  BY EarlierFacts DEF Arrived
<1>2. s # t
  <2>1. CASE t \in Pieces
    BY <1>1, <2>1
  <2>2. CASE t \notin Pieces
    BY <1>1, <2>2
  <2> QED
    BY <2>1, <2>2
<1>3. <<s, p>> \notin M
  BY <1>2
<1> QED
  BY <1>1, <1>3, SureStays

\* How a record, a file of the drop-in or a directory comes to be sure.
LEMMA CallsEngage ==
  ASSUME Proper(fs), NEW t \in Pieces, NEW p \in Attempts, NEW call, Engaged(fs, t, call, p)
  PROVE  /\ t \notin Storage!Making /\ fs' = Created(fs, Storage!Parent(t), t, <<t, p>>) => Engaged(fs', t, "write", p)
         /\ t \notin Storage!Making /\ call = "write" /\ fs' = Written(fs, <<t, p>>) => Engaged(fs', t, "sync", p)
         /\ t \notin Storage!Making /\ call = "sync" /\ fs' = FileSynced(fs, <<t, p>>) => Engaged(fs', t, "syncdir", p)
         /\ t = "conf" /\ call = "syncdir" /\ fs' = Synced(fs, "dropin") => Engaged(fs', t, "syncparent", p)
         /\ t \in Storage!Creating /\ call = "syncdir" /\ fs' = Synced(fs, Storage!Parent(t)) => Sure(fs', t, p)
         /\ t \in Storage!Making /\ fs' = Enter(fs, Storage!Parent(t), t, <<t, p>>) => Engaged(fs', t, "syncdir", p)
         /\ t \in Storage!Making /\ call = "syncdir" /\ fs' = Synced(fs, Storage!Parent(t)) => Sure(fs', t, p)
         /\ t = "conf" /\ call = "syncparent" /\ fs' = Synced(fs, "systemd") => Sure(fs', "dropin", p) /\ Sure(fs', "conf", p)
<1>0. FileSystem(fs)
  BY DEF Proper, Formed
<1>1. /\ Storage!Making = {"core", "store", "roots"} /\ Storage!Creating = {"intent", "complete"}
      /\ Piece(t, p).dir = Storage!Parent(t) /\ Piece("dropin", p).dir = "systemd"
      /\ Storage!Parent("conf") = "dropin"
  BY StorageSets, PieceFacts
<1>2. ASSUME t \notin Storage!Making, fs' = Created(fs, Storage!Parent(t), t, <<t, p>>) PROVE Engaged(fs', t, "write", p)
  <2>1. fs'.now = fs.now \cup {Piece(t, p)}
    BY <1>0, <1>2, CreatedIs DEF Piece
  <2> QED
    BY <1>2, <2>1 DEF Engaged
<1>3. ASSUME t \notin Storage!Making, call = "write", fs' = Written(fs, <<t, p>>) PROVE Engaged(fs', t, "sync", p)
  <2>1. fs'.now = fs.now /\ fs'.torn = fs.torn \ {<<t, p>>}
    BY <1>0, <1>3, WrittenIs
  <2> QED
    BY <1>3, <2>1 DEF Engaged
<1>4. ASSUME t \notin Storage!Making, call = "sync", fs' = FileSynced(fs, <<t, p>>) PROVE Engaged(fs', t, "syncdir", p)
  <2>1. fs'.now = fs.now /\ fs'.torn = fs.torn /\ fs'.loose = fs.loose \ {<<t, p>>}
    BY <1>0, <1>4, FileSyncedIs
  <2> QED
    BY <1>4, <2>1 DEF Engaged
<1>5. ASSUME NEW d, fs' = Synced(fs, d)
      PROVE  /\ fs'.now = fs.now /\ fs'.torn = fs.torn /\ fs'.loose = fs.loose
             /\ \A e \in fs.now : e.dir = d => e \in fs'.disk
             /\ \A e \in fs.disk : e.dir # d => e \in fs'.disk
  BY <1>0, <1>5, SyncedIs
<1>6. ASSUME t = "conf", call = "syncdir", fs' = Synced(fs, "dropin") PROVE Engaged(fs', t, "syncparent", p)
  BY <1>1, <1>5, <1>6 DEF Engaged
<1>7. ASSUME t \in Storage!Creating, call = "syncdir", fs' = Synced(fs, Storage!Parent(t)) PROVE Sure(fs', t, p)
  BY <1>1, <1>5, <1>7 DEF Engaged, Sure, Kept
<1>8. ASSUME t \in Storage!Making, fs' = Enter(fs, Storage!Parent(t), t, <<t, p>>) PROVE Engaged(fs', t, "syncdir", p)
  <2>1. fs'.now = fs.now \cup {Piece(t, p)}
    BY <1>0, <1>8, EnterIs DEF Piece
  <2> QED
    BY <1>1, <1>8, <2>1 DEF Engaged
<1>9. ASSUME t \in Storage!Making, call = "syncdir", fs' = Synced(fs, Storage!Parent(t)) PROVE Sure(fs', t, p)
  BY <1>1, <1>5, <1>9 DEF Engaged, Sure, Kept, Contents
<1>10. ASSUME t = "conf", call = "syncparent", fs' = Synced(fs, "systemd")
       PROVE  Sure(fs', "dropin", p) /\ Sure(fs', "conf", p)
  BY <1>1, <1>5, <1>10 DEF Engaged, Sure, Kept, Contents
<1> QED
  BY <1>2, <1>3, <1>4, <1>6, <1>7, <1>8, <1>9, <1>10

LEMMA StorageRecord == ASSUME StorageInv, NEW p \in Attempts, Storage!Record(p) PROVE StorageInv'
<1> DEFINE t == task[p]  d == Storage!Parent(t)  f == <<t, p>>
<1>1. t \in Storage!Creating /\ child' = child /\ store' = store /\ ro' = ro
  BY DEF Storage!Record, Storage!bankVars
<1>2. t \in Pieces /\ t \in Active /\ t \notin Storage!Making /\ t \notin Storage!Writable
      /\ t \notin {"native", "verify", "conf"} /\ Storage!After(t) # "conf"
  BY <1>1, StorageSets DEF Pieces
<1>3. \/ Absent(fs, d, t) /\ Storage!Call(p, "create", "write", Created(fs, d, t, f))
      \/ Storage!Call(p, "write", "sync", Written(fs, f))
      \/ Storage!Call(p, "sync", "syncdir", FileSynced(fs, f))
      \/ Storage!Last(p, "syncdir", Synced(fs, d))
  <2>1. \/ Storage!Absent(fs, d, t) /\ Storage!Call(p, "create", "write", Storage!Created(fs, d, t, f))
        \/ Storage!Call(p, "write", "sync", Storage!Written(fs, f))
        \/ Storage!Call(p, "sync", "syncdir", Storage!FileSynced(fs, f))
        \/ Storage!Last(p, "syncdir", Storage!Synced(fs, d))
    BY DEF Storage!Record
  <2> QED
    BY <2>1, StorageFiles
<1>4. Proper(fs) /\ Engaged(fs, t, step[p], p) /\ Arrived(fs, t, p)
  BY DEF StorageInv, Keeps
<1>5. {"write", "sync", "syncdir"} \subseteq Moves
  BY DEF Moves
<1>6. task[p] = t
  OBVIOUS
<1> HIDE DEF t
<1>7. ASSUME NEW from, NEW to \in Moves, NEW after, Storage!Call(p, from, to, after),
             Moved({<<t, p>>}), Engaged(fs', t, to, p)
      PROVE  StorageInv'
  BY <1>1, <1>2, <1>6, <1>7, StorageCallKeeps
<1>8. CASE Absent(fs, d, t) /\ Storage!Call(p, "create", "write", Created(fs, d, t, f))
  <2>1. fs' = Created(fs, d, t, f)
    BY <1>8 DEF Storage!Call
  <2>2. Moved({<<t, p>>}) /\ Engaged(fs', t, "write", p)
    BY <1>2, <1>4, <1>8, <2>1, StorageCalls, CallsEngage
  <2> QED
    BY <1>5, <1>7, <1>8, <2>2
<1>9. CASE Storage!Call(p, "write", "sync", Written(fs, f))
  <2>1. fs' = Written(fs, f) /\ step[p] = "write"
    BY <1>9 DEF Storage!Call
  <2>2. Moved({<<t, p>>}) /\ Engaged(fs', t, "sync", p)
    BY <1>2, <1>4, <2>1, StorageCalls, CallsEngage
  <2> QED
    BY <1>5, <1>7, <1>9, <2>2
<1>10. CASE Storage!Call(p, "sync", "syncdir", FileSynced(fs, f))
  <2>1. fs' = FileSynced(fs, f) /\ step[p] = "sync"
    BY <1>10 DEF Storage!Call
  <2>2. Moved({<<t, p>>}) /\ Engaged(fs', t, "syncdir", p)
    BY <1>2, <1>4, <2>1, StorageCalls, CallsEngage
  <2> QED
    BY <1>5, <1>7, <1>10, <2>2
<1>11. CASE Storage!Last(p, "syncdir", Synced(fs, d))
  <2>1. fs' = Synced(fs, d) /\ step[p] = "syncdir"
    BY <1>11 DEF Storage!Last
  <2> DEFINE M == {}
  <2>2. Moved(M) /\ M = {}
    BY <1>2, <1>4, <2>1, StorageCalls
  <2>3. Sure(fs', t, p)
    BY <1>1, <1>2, <1>4, <2>1, CallsEngage
  <2> HIDE DEF M
  <2>4. \A s \in Earlier(t) : Sure(fs', s, p)
    BY <1>4, <2>2, EarlierStays
  <2>5. Earlier(Storage!After(t)) = Earlier(t) \cup {t}
    BY <1>1, StorageSets, EarlierFacts
  <2>6. \A s \in Earlier(Storage!After(t)) : Sure(fs', s, p)
    BY <2>3, <2>4, <2>5
  <2>7. Engaged(fs', Storage!After(t), Storage!First(Storage!After(t)), p)
    BY <1>2, MoreOnTasks
  <2> QED
    BY <1>1, <1>2, <1>6, <1>11, <2>2, <2>6, <2>7, StorageLastKeeps
<1> QED
  BY <1>3, <1>8, <1>9, <1>10, <1>11

LEMMA StorageMake == ASSUME StorageInv, NEW p \in Attempts, Storage!Make(p) PROVE StorageInv'
<1> DEFINE t == task[p]  d == Storage!Parent(t)
<1>1. t \in Storage!Making /\ child' = child /\ store' = store /\ ro' = ro
  BY DEF Storage!Make, Storage!bankVars
<1>2. t \in Pieces /\ t \in Active /\ t \notin Storage!Writable /\ t # "intent"
      /\ t \notin {"native", "verify", "conf"} /\ Storage!After(t) # "conf"
  BY <1>1, StorageSets DEF Pieces
<1>3. \/ Storage!Call(p, "mkdir", "syncdir", Enter(fs, d, t, <<t, p>>))
      \/ Storage!Last(p, "syncdir", Synced(fs, d))
  <2>1. \/ Storage!Call(p, "mkdir", "syncdir", Storage!Enter(fs, d, t, <<t, p>>))
        \/ Storage!Last(p, "syncdir", Storage!Synced(fs, d))
    BY DEF Storage!Make
  <2> QED
    BY <2>1, StorageFiles
<1>4. Proper(fs) /\ Engaged(fs, t, step[p], p) /\ Arrived(fs, t, p)
  BY DEF StorageInv, Keeps
<1>5. task[p] = t /\ "syncdir" \in Moves
  BY DEF Moves
<1> HIDE DEF t
<1>6. CASE Storage!Call(p, "mkdir", "syncdir", Enter(fs, d, t, <<t, p>>))
  <2>1. fs' = Enter(fs, d, t, <<t, p>>)
    BY <1>6 DEF Storage!Call
  <2>2. Moved({<<t, p>>}) /\ Engaged(fs', t, "syncdir", p)
    BY <1>1, <1>2, <1>4, <2>1, StorageCalls, CallsEngage
  <2> QED
    BY <1>1, <1>2, <1>5, <1>6, <2>2, StorageCallKeeps
<1>7. CASE Storage!Last(p, "syncdir", Synced(fs, d))
  <2>1. fs' = Synced(fs, d) /\ step[p] = "syncdir"
    BY <1>7 DEF Storage!Last
  <2> DEFINE M == {}
  <2>2. Moved(M) /\ M = {}
    BY <1>2, <1>4, <2>1, StorageCalls
  <2>3. Sure(fs', t, p)
    BY <1>1, <1>2, <1>4, <2>1, CallsEngage
  <2> HIDE DEF M
  <2>4. \A s \in Earlier(t) : Sure(fs', s, p)
    BY <1>4, <2>2, EarlierStays
  <2>5. Earlier(Storage!After(t)) = Earlier(t) \cup {t}
    BY <1>1, StorageSets, EarlierFacts
  <2>6. \A s \in Earlier(Storage!After(t)) : Sure(fs', s, p)
    BY <2>3, <2>4, <2>5
  <2>7. Engaged(fs', Storage!After(t), Storage!First(Storage!After(t)), p)
    BY <1>2, MoreOnTasks
  <2> QED
    BY <1>1, <1>2, <1>5, <1>7, <2>2, <2>6, <2>7, StorageLastKeeps
<1> QED
  BY <1>3, <1>6, <1>7

LEMMA StorageInstallMount == ASSUME StorageInv, NEW p \in Attempts, Storage!InstallMount(p) PROVE StorageInv'
<1>1. child' = child /\ store' = store /\ ro' = ro
  BY DEF Storage!InstallMount, Storage!bankVars
<1>2. /\ {"dropin", "conf"} \subseteq Pieces /\ {"dropin", "conf"} \subseteq Active
      /\ Storage!After("dropin") = "conf" /\ Storage!After("conf") = "mount"
      /\ "dropin" \notin Storage!Writable /\ "conf" \notin Storage!Writable
      /\ "conf" \notin Storage!Making
      /\ {"write", "sync", "syncdir", "syncparent"} \subseteq Moves
  BY StorageSets DEF Pieces, Moves
<1>3. Proper(fs) /\ FileSystem(fs) /\ Storage!Parent("dropin") = "systemd" /\ Storage!Parent("conf") = "dropin"
  BY PieceFacts DEF StorageInv, Proper, Formed
<1>4. CASE task[p] = "dropin"
  <2>1. Storage!Last(p, "mkdir", Enter(fs, "systemd", "dropin", <<"dropin", p>>))
    BY <1>4, StorageFiles DEF Storage!InstallMount
  <2>2. fs' = Enter(fs, "systemd", "dropin", <<"dropin", p>>)
    BY <2>1 DEF Storage!Last
  <2>3. Moved({<<"dropin", p>>})
    BY <1>2, <1>3, <2>2, StorageCalls
  <2>4. Piece("dropin", p) \in fs'.now
    BY <1>3, <2>2, EnterIs DEF Piece
  <2>5. \A s \in Earlier("dropin") : Sure(fs', s, p)
    <3>1. Arrived(fs, "dropin", p)
      BY <1>4 DEF StorageInv, Keeps
    <3> QED
      BY <2>3, <3>1, EarlierStays
  <2>6. Earlier("conf") = Earlier("dropin")
    BY DEF Earlier
  <2>7. Engaged(fs', "conf", Storage!First("conf"), p)
    <3>1. Storage!First("conf") \in {"go", "create", "mkdir", "spawn"}
      BY MoreOnTasks
    <3> QED
      BY <2>4, <3>1, StorageSets DEF Engaged
  <2>8. \A s \in Earlier(Storage!After("dropin")) : Sure(fs', s, p)
    BY <1>2, <2>5, <2>6
  <2>9. Engaged(fs', Storage!After("dropin"), Storage!First(Storage!After("dropin")), p)
    BY <1>2, <2>7
  <2> QED
    BY <1>1, <1>2, <1>4, <2>1, <2>3, <2>8, <2>9, StorageLastKeeps
<1>5. CASE task[p] = "conf"
  <2> DEFINE f == <<"conf", p>>
  <2>1. \/ Absent(fs, "dropin", "conf") /\ Storage!Call(p, "create", "write", Created(fs, "dropin", "conf", f))
        \/ Storage!Call(p, "write", "sync", Written(fs, f))
        \/ Storage!Call(p, "sync", "syncdir", FileSynced(fs, f))
        \/ Storage!Call(p, "syncdir", "syncparent", Synced(fs, "dropin"))
        \/ Storage!Last(p, "syncparent", Synced(fs, "systemd"))
    <3>1. \/ Storage!Absent(fs, "dropin", "conf") /\ Storage!Call(p, "create", "write", Storage!Created(fs, "dropin", "conf", f))
          \/ Storage!Call(p, "write", "sync", Storage!Written(fs, f))
          \/ Storage!Call(p, "sync", "syncdir", Storage!FileSynced(fs, f))
          \/ Storage!Call(p, "syncdir", "syncparent", Storage!Synced(fs, "dropin"))
          \/ Storage!Last(p, "syncparent", Storage!Synced(fs, "systemd"))
      BY <1>5 DEF Storage!InstallMount
    <3> QED
      BY <3>1, StorageFiles
  <2>2. Engaged(fs, "conf", step[p], p) /\ Arrived(fs, "conf", p)
    BY <1>5 DEF StorageInv, Keeps
  <2>3. ASSUME NEW from, NEW to \in Moves, NEW after, Storage!Call(p, from, to, after),
               Moved({<<"conf", p>>}), Engaged(fs', "conf", to, p)
        PROVE  StorageInv'
    BY <1>1, <1>2, <1>5, <2>3, StorageCallKeeps
  <2>4. CASE Absent(fs, "dropin", "conf") /\ Storage!Call(p, "create", "write", Created(fs, "dropin", "conf", f))
    <3>1. fs' = Created(fs, "dropin", "conf", f)
      BY <2>4 DEF Storage!Call
    <3>2. Moved({<<"conf", p>>}) /\ Engaged(fs', "conf", "write", p)
      BY <1>2, <1>3, <2>2, <2>4, <3>1, StorageCalls, CallsEngage
    <3> QED
      BY <1>2, <2>3, <2>4, <3>2
  <2>5. CASE Storage!Call(p, "write", "sync", Written(fs, f))
    <3>1. fs' = Written(fs, f) /\ step[p] = "write"
      BY <2>5 DEF Storage!Call
    <3>2. Moved({<<"conf", p>>}) /\ Engaged(fs', "conf", "sync", p)
      BY <1>2, <1>3, <2>2, <3>1, StorageCalls, CallsEngage
    <3> QED
      BY <1>2, <2>3, <2>5, <3>2
  <2>6. CASE Storage!Call(p, "sync", "syncdir", FileSynced(fs, f))
    <3>1. fs' = FileSynced(fs, f) /\ step[p] = "sync"
      BY <2>6 DEF Storage!Call
    <3>2. Moved({<<"conf", p>>}) /\ Engaged(fs', "conf", "syncdir", p)
      BY <1>2, <1>3, <2>2, <3>1, StorageCalls, CallsEngage
    <3> QED
      BY <1>2, <2>3, <2>6, <3>2
  <2>7. CASE Storage!Call(p, "syncdir", "syncparent", Synced(fs, "dropin"))
    <3>1. fs' = Synced(fs, "dropin") /\ step[p] = "syncdir"
      BY <2>7 DEF Storage!Call
    <3>2. Moved({<<"conf", p>>}) /\ Engaged(fs', "conf", "syncparent", p)
      BY <1>2, <1>3, <2>2, <3>1, StorageCalls, CallsEngage
    <3> QED
      BY <1>2, <2>3, <2>7, <3>2
  <2>8. CASE Storage!Last(p, "syncparent", Synced(fs, "systemd"))
    <3>1. fs' = Synced(fs, "systemd") /\ step[p] = "syncparent"
      BY <2>8 DEF Storage!Last
    <3> DEFINE M == {}
    <3>2. Moved(M) /\ M = {}
      BY <1>2, <1>3, <3>1, StorageCalls
    <3>3. Sure(fs', "dropin", p) /\ Sure(fs', "conf", p)
      BY <1>2, <1>3, <2>2, <3>1, CallsEngage
    <3> HIDE DEF M
    <3>4. \A s \in Earlier("conf") : Sure(fs', s, p)
      BY <2>2, <3>2, EarlierStays
    <3>5. \A s \in Earlier(Storage!After("conf")) : Sure(fs', s, p)
      BY <1>2, <3>3, <3>4, EarlierFacts
    <3>6. Engaged(fs', Storage!After("conf"), Storage!First(Storage!After("conf")), p)
      BY <1>2, MoreOnTasks
    <3> QED
      BY <1>1, <1>2, <1>5, <2>8, <3>2, <3>5, <3>6, StorageLastKeeps
  <2> QED
    BY <2>1, <2>4, <2>5, <2>6, <2>7, <2>8
<1> QED
  BY <1>4, <1>5 DEF Storage!InstallMount

LEMMA SettledIs == ASSUME Proper(fs), fs' = Storage!Settled, NEW M PROVE Moved(M)
<1> DEFINE g == Synced(fs, "bank")
<1>1. fs' = [g EXCEPT !.loose = {f \in g.loose : f[1] # "bank.json"}]
  BY StorageFiles DEF Storage!Settled
<1>2. /\ FileSystem(g) /\ g.now = fs.now /\ g.torn = fs.torn /\ g.loose = fs.loose
      /\ g.disk = {e \in fs.disk : e.dir # "bank"} \cup {e \in fs.now : e.dir = "bank"}
      /\ \A e \in fs.disk : e.name # "lost+found" => e \in fs.now
  BY SyncedIs DEF Proper, Formed
<1> HIDE DEF g
<1>3. FileSystem(fs') /\ fs'.now = g.now /\ fs'.disk = g.disk /\ fs'.torn = g.torn /\ fs'.loose \subseteq g.loose
  BY <1>1, <1>2 DEF FileSystem
<1> QED
  BY <1>2, <1>3 DEF Moved, Made

\* A task of one step that makes nothing.
LEMMA PlainKeeps ==
  ASSUME StorageInv, NEW p \in Attempts,
         NEW t \in {"look", "native", "mount", "fresh", "readonly", "verify"}, task[p] = t, Moved({}),
         NEW after, Storage!Last(p, "go", after), child' = child,
         store = "ready" => store' = "ready", t = "native" => store' = "ready",
         ro = TRUE => ro' = TRUE, t = "verify" => ro = TRUE
  PROVE  StorageInv'
<1> DEFINE M == {}
<1>1. Moved(M) /\ M = {}
  OBVIOUS
<1> HIDE DEF M
<1>2. t \in Active /\ t \notin Storage!Writable /\ Storage!After(t) # "conf"
  BY StorageSets
<1>3. \A s \in Earlier(t) : Sure(fs', s, p)
  <2>1. Arrived(fs, t, p)
    BY DEF StorageInv, Keeps
  <2> QED
    BY <1>1, <2>1, EarlierStays
<1>4. \A s \in Earlier(Storage!After(t)) : Sure(fs', s, p)
  BY <1>3, EarlierFacts
<1>5. Engaged(fs', Storage!After(t), Storage!First(Storage!After(t)), p)
  BY <1>2, MoreOnTasks
<1> QED
  BY <1>1, <1>2, <1>4, <1>5, StorageLastKeeps

LEMMA StoragePlain ==
  ASSUME StorageInv, NEW p \in Attempts,
         \/ Storage!Look(p) \/ Storage!Mount(p) \/ Storage!Fresh(p) \/ Storage!Readonly(p) \/ Storage!Verify(p)
  PROVE  StorageInv'
<1>1. ASSUME fs' = fs PROVE Moved({})
  <2>1. "intent" \in Pieces /\ Proper(fs)
    BY DEF Pieces, StorageInv
  <2> QED
    BY <1>1, <2>1, StorageCalls
<1>2. ASSUME NEW after, Storage!Last(p, "go", after) PROVE fs' = after
  BY <1>2 DEF Storage!Last
<1>3. CASE Storage!Look(p)
  BY <1>1, <1>2, <1>3, PlainKeeps DEF Storage!Look, Storage!bankVars
<1>4. CASE Storage!Mount(p)
  BY <1>1, <1>2, <1>4, PlainKeeps DEF Storage!Mount
<1>5. CASE Storage!Fresh(p)
  BY <1>1, <1>2, <1>5, PlainKeeps DEF Storage!Fresh, Storage!bankVars
<1>6. CASE Storage!Readonly(p)
  <2>1. fs' = Storage!Settled
    BY <1>2, <1>6 DEF Storage!Readonly
  <2>2. Moved({})
    BY <2>1, SettledIs DEF StorageInv
  <2> QED
    BY <1>6, <2>2, PlainKeeps DEF Storage!Readonly
<1>7. CASE Storage!Verify(p)
  <2>1. ro = TRUE
    BY <1>7 DEF Storage!Verify
  <2> QED
    BY <1>1, <1>2, <1>7, <2>1, PlainKeeps DEF Storage!Verify, Storage!bankVars
<1> QED
  BY <1>3, <1>4, <1>5, <1>6, <1>7

\* A step that leaves the files and the installers alone, and the bank no more writable.
LEMMA OnlyOthersMove ==
  ASSUME StorageInv, fs' = fs, task' = task, step' = step, child' = child,
         ro = TRUE => ro' = TRUE, store = "ready" => store' = "ready"
  PROVE  StorageInv'
<1>1. StorageTypes' /\ Proper(fs') /\ Follows(fs', child') /\ (child'.of \in Attempts => Awaited(child', task'[child'.of]))
  BY DEF StorageInv, StorageTypes
<1>2. ASSUME NEW p \in Attempts PROVE Keeps(p)' /\ StoreOf(p)' /\ BankOf(p)'
  <2>1. Keeps(p) /\ StoreOf(p) /\ BankOf(p)
    BY DEF StorageInv
  <2> QED
    BY <2>1 DEF Keeps, StoreOf, BankOf
<1> QED
  BY <1>1, <1>2 DEF StorageInv

LEMMA StorageNative == ASSUME StorageInv, NEW p \in Attempts, Storage!Native(p) PROVE StorageInv'
<1>1. CASE store = "none" /\ store' = "made" /\ UNCHANGED <<fs, task, step>>
  BY <1>1, OnlyOthersMove DEF Storage!Native
<1>2. CASE store = "made" /\ Storage!Last(p, "go", fs) /\ store' = "ready"
  <2>1. fs' = fs /\ "intent" \in Pieces /\ Proper(fs)
    BY <1>2 DEF Storage!Last, Pieces, StorageInv
  <2>2. Moved({})
    BY <2>1, StorageCalls
  <2> QED
    BY <1>2, <2>2, PlainKeeps DEF Storage!Native
<1> QED
  BY <1>1, <1>2 DEF Storage!Native

LEMMA StorageStops ==
  ASSUME StorageInv, NEW p \in Attempts, Storage!Start(p) \/ Storage!Fail(p) \/ Storage!Undo(p) \/ Storage!Kill(p)
  PROVE  StorageInv'
<1>1. ASSUME fs' = fs PROVE Moved({})
  <2>1. "intent" \in Pieces /\ Proper(fs)
    BY DEF Pieces, StorageInv
  <2> QED
    BY <1>1, <2>1, StorageCalls
<1>2. CASE Storage!Start(p)
  <2>1. child.of # p
    BY <1>2, NoCommand DEF Storage!Start
  <2> QED
    BY <1>1, <1>2, <2>1, StopKeeps DEF Storage!Start, Storage!bankVars
<1>3. CASE Storage!Fail(p)
  <2>1. PICK to \in {"failed", "undo"} : task' = [task EXCEPT ![p] = to]
    BY <1>3 DEF Storage!Fail
  <2>2. task[p] \in Storage!Running /\ fs' = fs /\ step' = step /\ store' = store /\ ro' = ro
    BY <1>3 DEF Storage!Fail
  <2>3. (child' = child \/ child' = Storage!NoChild) /\ (child' = child => child.of # p)
    <3>1. Storage!NoChild.of # p
      BY OtherAssumptions DEF Storage!NoChild, Storage!NobodyAssumption
    <3> QED
      BY <1>3, <3>1 DEF Storage!Fail
  <2> QED
    BY <1>1, <2>1, <2>2, <2>3, StopKeeps
<1>4. CASE Storage!Undo(p)
  <2>1. task[p] \in Storage!Running /\ child.of # p
    BY <1>4, StorageSets, NoCommand DEF Storage!Undo
  <2>2. Moved({})
    BY <1>1, <1>4, SettledIs DEF Storage!Undo, StorageInv
  <2> QED
    BY <1>4, <2>1, <2>2, StopKeeps DEF Storage!Undo
<1>5. CASE Storage!Kill(p)
  BY <1>1, <1>5, StopKeeps DEF Storage!Kill, Storage!bankVars
<1> QED
  BY <1>2, <1>3, <1>4, <1>5

LEMMA StorageSpawn == ASSUME StorageInv, NEW p \in Attempts, Storage!Spawn(p) PROVE StorageInv'
<1> DEFINE at == task[p]
<1>1. /\ at \in {"rw", "provision"} /\ fs' = fs /\ task' = task /\ ro' = ro /\ store' = store
      /\ step' = [step EXCEPT ![p] = "await"]
      /\ child' = [of |-> p, does |-> at, step |-> IF at = "rw" THEN "remount" ELSE "create"]
  BY StorageSets DEF Storage!Spawn
<1>2. Arrived(fs, at, p) /\ StoreOf(p) /\ BankOf(p)
  BY DEF StorageInv, Keeps
<1>3. p # NoInstaller
  BY OtherAssumptions DEF Storage!NobodyAssumption
<1> HIDE DEF at
<1>4. child'.of = p /\ child'.does = at /\ child'.step = (IF at = "rw" THEN "remount" ELSE "create")
  BY <1>1
<1>5. StorageTypes'
  BY <1>1, <1>3, <1>4 DEF StorageInv, StorageTypes, Moves
<1>6. Follows(fs', child')
  <2>1. \A s \in Mounts : Sure(fs, s, p)
    BY <1>1, <1>2, EarlierFacts DEF Arrived
  <2>2. Piece("complete", p) \notin Made(fs)
    <3>1. "complete" \in Pieces /\ at \in Active /\ "complete" \notin Allowed(at)
      <4>1. Earlier(at) = Mounts
        BY <1>1, EarlierFacts
      <4> QED
        BY <1>1, <4>1, StorageSets DEF Allowed, Pieces, Mounts, Stores
    <3> QED
      BY <1>2, <3>1 DEF Arrived
  <2> QED
    BY <1>1, <1>4, <2>1, <2>2 DEF Follows
<1>7. child'.of \in Attempts => Awaited(child', task'[child'.of])
  BY <1>1, <1>4 DEF Awaited, at
<1>8. Keeps(p)'
  <2>1. Engaged(fs', at, "await", p)
    BY <1>1, StorageSets DEF Engaged
  <2>2. step'[p] = "await"
    BY <1>1 DEF StorageInv, StorageTypes
  <2> QED
    BY <1>1, <1>2, <2>1, <2>2 DEF Keeps, at
<1>9. StoreOf(p)' /\ BankOf(p)'
  BY <1>1, <1>2 DEF StoreOf, BankOf
<1>10. \A q \in Attempts \ {p} : task'[q] = task[q] /\ step'[q] = step[q]
  BY <1>1 DEF StorageInv, StorageTypes
<1> DEFINE M == {}
<1>11. M \subseteq {<<at, p>>} /\ Moved(M) /\ \A m \in M : Due(m[1], m[2])
  <2>1. "intent" \in Pieces /\ Proper(fs)
    BY DEF Pieces, StorageInv
  <2> QED
    BY <1>1, <2>1, StorageCalls
<1> HIDE DEF M
<1> QED
  BY <1>1, <1>5, <1>6, <1>7, <1>8, <1>9, <1>10, <1>11, StepKeeps

LEMMA StorageReap == ASSUME StorageInv, NEW p \in Attempts, Storage!Reap(p) PROVE StorageInv'
<1> DEFINE t == task[p]  after == IF t = "rw" THEN Remove(fs, "bank", "lost+found") ELSE fs
<1>1. /\ t \in {"rw", "provision"} /\ child.of = p /\ child.step = "exited" /\ child' = Storage!NoChild
      /\ ro' = ro /\ store' = store /\ Storage!Last(p, "await", after)
  BY StorageSets, StorageFiles DEF Storage!Reap
<1>2. Arrived(fs, t, p) /\ Awaited(child, t) /\ Follows(fs, child) /\ Proper(fs)
  BY <1>1 DEF StorageInv, Keeps
<1>3. fs' = after /\ task[p] = t
  BY <1>1 DEF Storage!Last
<1> DEFINE M == {}
<1>4. Moved(M) /\ M = {}
  <2>1. "intent" \in Pieces
    BY DEF Pieces
  <2> QED
    BY <1>2, <1>3, <2>1, StorageCalls
<1> HIDE DEF t, after, M
<1>5. t \in Active /\ t \notin {"native", "verify"} /\ Storage!After(t) # "conf"
  BY <1>1, StorageSets
<1>6. \A s \in Earlier(t) : Sure(fs', s, p)
  BY <1>2, <1>4, EarlierStays
<1>7. \A s \in Earlier(Storage!After(t)) : Sure(fs', s, p)
  <2>1. CASE t = "rw"
    BY <1>6, <2>1, StorageSets, EarlierFacts
  <2>2. CASE t = "provision"
    <3>1. child.does = "provision" /\ child.of # NoInstaller
      BY <1>1, <1>2, <2>2, OtherAssumptions DEF Awaited, Storage!NobodyAssumption
    <3>2. Sure(fs, "bank.json", p) /\ Sure(fs, "bank.lock", p)
      BY <1>1, <1>2, <3>1 DEF Follows, Sure, Kept, Contents
    <3>3. Sure(fs', "bank.json", p) /\ Sure(fs', "bank.lock", p)
      <4>1. {"bank.json", "bank.lock"} \subseteq Pieces /\ \A s : <<s, p>> \notin M
        BY <1>4 DEF Pieces
      <4> QED
        BY <1>4, <3>2, <4>1, SureStays
    <3> QED
      BY <1>6, <2>2, <3>3, StorageSets, EarlierFacts
  <2> QED
    BY <1>1, <2>1, <2>2
<1>8. Engaged(fs', Storage!After(t), Storage!First(Storage!After(t)), p)
  BY <1>5, MoreOnTasks
<1> QED
  BY <1>1, <1>3, <1>4, <1>5, <1>7, <1>8, StorageLastKeeps

LEMMA StorageMountUnit == ASSUME StorageInv, Storage!MountUnit PROVE StorageInv'
  BY OnlyOthersMove DEF Storage!MountUnit

\* The command that an installer waits for, or that outlived it.
LEMMA CommandOf ==
  ASSUME StorageInv, child.step # "none"
  PROVE  child.of \in Attempts /\ child.of # NoInstaller
<1>1. child.of # NoInstaller
  BY DEF StorageInv, StorageTypes, Storage!NoChild
<1> QED
  BY <1>1 DEF StorageInv, Follows

LEMMA StorageRemount == ASSUME StorageInv, Storage!Remount PROVE StorageInv'
<1> DEFINE c == child.of
<1>1. /\ child.step = "remount" /\ child' = [child EXCEPT !.step = "exited"] /\ ro' = FALSE
      /\ fs' = fs /\ task' = task /\ step' = step /\ store' = store
  BY DEF Storage!Remount
<1>2. c \in Attempts /\ c # NoInstaller
  BY <1>1, CommandOf
<1>3. Follows(fs, child) /\ Awaited(child, task[c]) /\ Proper(fs)
  BY <1>2 DEF StorageInv
<1>4. child' = [of |-> c, does |-> child.does, step |-> "exited"]
  BY <1>1 DEF StorageInv, StorageTypes
<1> HIDE DEF c
<1>5. child'.of = c /\ child'.does = child.does /\ child'.step = "exited"
  BY <1>4
<1>6. /\ child.of = c /\ \A s \in Mounts : Sure(fs, s, c)
      /\ Piece("complete", c) \notin Made(fs) /\ child.does = "rw"
  BY <1>1, <1>2, <1>3 DEF Follows, c
<1>7. Follows(fs', child')
  BY <1>1, <1>2, <1>5, <1>6 DEF Follows
<1>8. child'.of \in Attempts => Awaited(child', task'[child'.of])
  BY <1>1, <1>3, <1>5 DEF Awaited
<1>9. StorageTypes' /\ Proper(fs')
  BY <1>1, <1>2, <1>4, <1>5 DEF StorageInv, StorageTypes
<1>10. ASSUME NEW q \in Attempts, task[q] \in {"complete", "done"} \/ Piece("complete", q) \in Made(fs) PROVE FALSE
  <2>1. Piece("intent", c) \in fs.now /\ "intent" \in Pieces /\ "complete" \in Pieces
    BY <1>6 DEF Mounts, Stores, Sure, Kept, Pieces
  <2>2. Piece("intent", q) \in fs.now
    <3>1. CASE task[q] \in {"complete", "done"}
      <4>1. "intent" \in Earlier(task[q])
        BY <3>1 DEF Earlier, Banks, Mounts, Stores, Pieces
      <4> QED
        BY <4>1 DEF StorageInv, Keeps, Arrived, Sure, Kept
    <3>2. CASE Piece("complete", q) \in Made(fs)
      <4>1. Sure(fs, "intent", q)
        BY <1>3, <2>1, <3>2, EarlierFacts DEF Proper, InOrder
      <4> QED
        BY <4>1 DEF Sure, Kept
    <3> QED
      BY <1>10, <3>1, <3>2
  <2>3. q = c
    BY <1>2, <1>3, <2>1, <2>2, OneIsPast
  <2> QED
    BY <1>3, <1>6, <1>10, <2>3 DEF Awaited
<1>11. ASSUME NEW q \in Attempts PROVE Keeps(q)' /\ StoreOf(q)' /\ BankOf(q)'
  <2>1. Keeps(q) /\ StoreOf(q)
    BY DEF StorageInv
  <2>2. Keeps(q)' /\ StoreOf(q)'
    BY <1>1, <2>1 DEF Keeps, StoreOf
  <2>3. BankOf(q)'
    BY <1>1, <1>10 DEF BankOf
  <2> QED
    BY <2>2, <2>3
<1> QED
  BY <1>7, <1>8, <1>9, <1>11 DEF StorageInv

LEMMA StorageChildEnds == ASSUME StorageInv, Storage!ChildEnds PROVE StorageInv'
<1>1. child' = Storage!NoChild /\ fs' = fs /\ task' = task /\ step' = step /\ ro' = ro /\ store' = store
  BY DEF Storage!ChildEnds
<1>2. Storage!NoChild.of = NoInstaller /\ NoInstaller \notin Attempts
      /\ Storage!NoChild = [of |-> Storage!NoChild.of, does |-> Storage!NoChild.does, step |-> Storage!NoChild.step]
  BY OtherAssumptions DEF Storage!NoChild, Storage!NobodyAssumption
<1>3. Follows(fs', child') /\ (child'.of \in Attempts => Awaited(child', task'[child'.of]))
  BY <1>1, <1>2 DEF Follows
<1>4. StorageTypes' /\ Proper(fs')
  BY <1>1, <1>2 DEF StorageInv, StorageTypes
<1>5. ASSUME NEW p \in Attempts PROVE Keeps(p)' /\ StoreOf(p)' /\ BankOf(p)'
  <2>1. Keeps(p) /\ StoreOf(p) /\ BankOf(p)
    BY DEF StorageInv
  <2> QED
    BY <1>1, <2>1 DEF Keeps, StoreOf, BankOf
<1> QED
  BY <1>3, <1>4, <1>5 DEF StorageInv

\* A step of the command: it only makes the bank's files.
LEMMA CommandKeeps ==
  ASSUME StorageInv, NEW c \in Attempts, child.of = c, child.does = "provision",
         NEW t \in {"bank.json", "bank.lock"}, NEW M, M = {} \/ (M = {<<t, c>>} /\ Due(t, c)), Moved(M),
         NEW to, child' = [child EXCEPT !.step = to], Follows(fs', child'),
         task' = task, step' = step, ro' = ro, store' = store
  PROVE  StorageInv'
<1> DEFINE at == task[c]  call == step[c]
<1>1. child' = [of |-> c, does |-> "provision", step |-> to]
  BY DEF StorageInv, StorageTypes
<1>2. child'.of = c /\ child'.does = "provision" /\ child'.step = to
  BY <1>1
<1>3. Awaited(child, at) /\ Arrived(fs, at, c) /\ c # NoInstaller /\ StoreOf(c) /\ BankOf(c)
  BY OtherAssumptions DEF StorageInv, Keeps, Storage!NobodyAssumption
<1>4. at \in {"provision", "failed"}
  BY <1>3 DEF Awaited
<1>5. Awaited(child', at)
  BY <1>2, <1>4 DEF Awaited
<1>6. StorageTypes'
  BY <1>1, <1>2, <1>3 DEF StorageInv, StorageTypes
<1>7. M \subseteq {<<t, c>>} /\ M \subseteq Pieces \X Attempts /\ \A m \in M : Due(m[1], m[2])
  <2>1. CASE M = {}
    BY <2>1
  <2>2. CASE M = {<<t, c>>} /\ Due(t, c)
    <3>1. \A m \in M : m[1] = t /\ m[2] = c
      BY <2>2
    <3> QED
      BY <2>2, <3>1 DEF Due
  <2> QED
    BY <2>1, <2>2
<1>8. Keeps(c)'
  <2> HIDE DEF at
  <2>1. t \notin Earlier(at) /\ (at \in Active => t \in Allowed(at)) /\ at \notin {"off", "look"}
    <3>1. "failed" \notin Active
      BY StorageSets
    <3>2. t \notin Earlier("provision") /\ t \notin Earlier("failed") /\ t \in Allowed("provision")
      BY EarlierFacts DEF Mounts, Stores, Allowed
    <3> QED
      BY <1>4, <3>1, <3>2
  <2>2. \A s \in Pieces : <<s, c>> \in M => s = t
    BY <1>7
  <2>3. Arrived(fs', at, c)
    BY <1>3, <1>7, <2>1, <2>2, ArrivedStays
  <2>4. Engaged(fs', at, call, c)
    BY <1>4, StorageSets DEF Engaged
  <2> QED
    BY <2>3, <2>4 DEF Keeps, at
<1>9. StoreOf(c)' /\ BankOf(c)'
  <2>1. <<"complete", c>> \notin M
    BY <1>7
  <2>2. Piece("complete", c) \in Made(fs') => Piece("complete", c) \in Made(fs)
    BY <1>7, <2>1, MadeOf
  <2> QED
    BY <1>3, <2>2 DEF StoreOf, BankOf
<1> QED
  BY <1>2, <1>5, <1>6, <1>7, <1>8, <1>9, StepKeeps

LEMMA StorageProvision == ASSUME StorageInv, Storage!Provision PROVE StorageInv'
<1> DEFINE c == child.of  json == <<"bank.json", c>>  lock == <<"bank.lock", c>>
           Goes(to) == child' = [child EXCEPT !.step = to]
<1>1. child.does = "provision" /\ task' = task /\ step' = step /\ ro' = ro /\ store' = store
  BY DEF Storage!Provision
<1>2. \/ /\ child.step = "create" /\ (\A e \in fs.now : e.dir # "bank")
         /\ Goes("write") /\ fs' = Created(fs, "bank", "bank.json", json)
      \/ child.step = "write" /\ Goes("sync") /\ fs' = Written(fs, json)
      \/ child.step = "sync" /\ Goes("syncdir") /\ fs' = FileSynced(fs, json)
      \/ child.step = "syncdir" /\ Goes("lock") /\ fs' = Synced(fs, "bank")
      \/ child.step = "lock" /\ Goes("resync") /\ fs' = Enter(fs, "bank", "bank.lock", lock)
      \/ child.step = "resync" /\ Goes("exited") /\ fs' = Synced(fs, "bank")
  BY StorageFiles DEF Storage!Provision
<1>3. c \in Attempts /\ c # NoInstaller
  BY <1>2, CommandOf
<1>4. Follows(fs, child) /\ Proper(fs) /\ FileSystem(fs)
  BY DEF StorageInv, Proper, Formed
<1>5. child = [of |-> c, does |-> "provision", step |-> child.step]
  BY <1>1 DEF StorageInv, StorageTypes
<1>6. /\ {"bank.json", "bank.lock"} \subseteq Pieces /\ Mounts \subseteq Pieces /\ "complete" \in Pieces
      /\ Storage!Parent("bank.json") = "bank" /\ Storage!Parent("bank.lock") = "bank"
      /\ "bank.json" \notin Mounts /\ "bank.lock" \notin Mounts /\ "complete" \notin Mounts
  BY PieceFacts DEF Pieces, Mounts, Stores
<1> HIDE DEF c
<1>7. ASSUME NEW to, Goes(to) PROVE child'.of = c /\ child'.does = "provision" /\ child'.step = to
  BY <1>5, <1>7
<1>8. child.of = c
  BY DEF c
<1>9. (\A s \in Mounts : Sure(fs, s, c)) /\ Piece("complete", c) \notin Made(fs)
  BY <1>3, <1>4, <1>8 DEF Follows
\* What stays as it is.
<1>10. ASSUME NEW t \in {"bank.json", "bank.lock"}, NEW M, M \subseteq {<<t, c>>}, Moved(M)
       PROVE  /\ \A s \in Mounts : Sure(fs', s, c)
              /\ Piece("complete", c) \notin Made(fs')
              /\ t = "bank.json" /\ Piece("bank.lock", c) \notin Made(fs) => Piece("bank.lock", c) \notin Made(fs')
              /\ \A s \in {"bank.json", "bank.lock"} : /\ Piece(s, c) \in fs.now => Piece(s, c) \in fs'.now
                                                       /\ Piece(s, c) \in fs.disk => Piece(s, c) \in fs'.disk
  <2>1. \A s : <<s, c>> \in M => s = t
    BY <1>10
  <2>2. M \subseteq Pieces \X Attempts
    BY <1>3, <1>6, <1>10
  <2>3. \A s \in Mounts : Sure(fs', s, c)
    BY <1>6, <1>9, <1>10, <2>1, SureStays
  <2>4. Piece("complete", c) \notin Made(fs')
    BY <1>6, <1>9, <1>10, <2>1, <2>2, NotMadeStays
  <2>5. t = "bank.json" /\ Piece("bank.lock", c) \notin Made(fs) => Piece("bank.lock", c) \notin Made(fs')
    BY <1>6, <1>10, <2>1, <2>2, NotMadeStays
  <2>6. \A s \in {"bank.json", "bank.lock"} : /\ Piece(s, c) \in fs.now => Piece(s, c) \in fs'.now
                                              /\ Piece(s, c) \in fs.disk => Piece(s, c) \in fs'.disk
    BY <1>6, <1>10, PieceFacts DEF Moved
  <2> QED
    BY <2>3, <2>4, <2>5, <2>6
<1>11. Piece("bank.lock", c) \notin Made(fs) => Due("bank.json", c)
  <2>1. Earlier("bank.json") = Mounts
    BY DEF Earlier
  <2>2. \A u \in Pieces : "bank.json" \in Earlier(u) => u \in {"bank.lock", "complete"}
    BY DEF Pieces, Earlier, Mounts, Stores
  <2> QED
    BY <1>3, <1>6, <1>9, <2>1, <2>2 DEF Due
<1>12. Sure(fs, "bank.json", c) => Due("bank.lock", c)
  <2>1. Earlier("bank.lock") = Mounts \cup {"bank.json"}
    BY DEF Earlier
  <2>2. \A u \in Pieces : "bank.lock" \in Earlier(u) => u = "complete"
    BY DEF Pieces, Earlier, Mounts, Stores
  <2> QED
    BY <1>3, <1>6, <1>9, <2>1, <2>2 DEF Due
<1>13. ASSUME NEW t \in {"bank.json", "bank.lock"}, NEW M, M = {} \/ (M = {<<t, c>>} /\ Due(t, c)), Moved(M),
              NEW to, Goes(to), Follows(fs', child')
       PROVE  StorageInv'
  BY <1>1, <1>3, <1>8, <1>13, CommandKeeps
<1>14. CASE /\ child.step = "create" /\ (\A e \in fs.now : e.dir # "bank")
            /\ Goes("write") /\ fs' = Created(fs, "bank", "bank.json", json)
  <2>1. Absent(fs, "bank", "bank.json")
    BY <1>14 DEF Absent, Named
  <2>2. Moved({json})
    BY <1>3, <1>4, <1>6, <1>14, <2>1, StorageCalls
  <2>3. Piece("bank.lock", c) \notin Made(fs)
    <3>1. Piece("bank.lock", c).dir = "bank" /\ Piece("bank.lock", c).name # "lost+found"
      BY <1>6, PieceFacts
    <3> QED
      BY <1>4, <1>14, <3>1 DEF Made, Proper, Formed
  <2>4. Piece("bank.json", c) \in fs'.now
    BY <1>4, <1>6, <1>14, CreatedIs DEF Piece
  <2>5. Follows(fs', child')
    <3>1. child'.of = c /\ child'.does = "provision" /\ child'.step = "write"
      BY <1>7, <1>14
    <3>2. (\A s \in Mounts : Sure(fs', s, c)) /\ Piece("complete", c) \notin Made(fs')
          /\ Piece("bank.lock", c) \notin Made(fs')
      BY <1>10, <2>2, <2>3
    <3> QED
      BY <1>3, <2>4, <3>1, <3>2 DEF Follows
  <2> QED
    BY <1>11, <1>13, <1>14, <2>2, <2>3, <2>5
<1>15. CASE child.step = "write" /\ Goes("sync") /\ fs' = Written(fs, json)
  <2>1. Moved({json})
    BY <1>3, <1>4, <1>6, <1>15, StorageCalls
  <2>2. Piece("bank.lock", c) \notin Made(fs) /\ Piece("bank.json", c) \in fs.now
    BY <1>1, <1>3, <1>4, <1>8, <1>15 DEF Follows
  <2>3. json \notin fs'.torn
    BY <1>4, <1>15, WrittenIs
  <2>4. Follows(fs', child')
    <3>1. child'.of = c /\ child'.does = "provision" /\ child'.step = "sync"
      BY <1>7, <1>15
    <3>2. (\A s \in Mounts : Sure(fs', s, c)) /\ Piece("complete", c) \notin Made(fs')
          /\ Piece("bank.lock", c) \notin Made(fs') /\ Piece("bank.json", c) \in fs'.now
      BY <1>10, <2>1, <2>2
    <3> QED
      BY <1>3, <2>3, <3>1, <3>2 DEF Follows
  <2> QED
    BY <1>11, <1>13, <1>15, <2>1, <2>2, <2>4
<1>16. CASE child.step = "sync" /\ Goes("syncdir") /\ fs' = FileSynced(fs, json)
  <2>1. Moved({json})
    BY <1>3, <1>4, <1>6, <1>16, StorageCalls
  <2>2. Piece("bank.lock", c) \notin Made(fs) /\ Piece("bank.json", c) \in fs.now /\ json \notin fs.torn
    BY <1>1, <1>3, <1>4, <1>8, <1>16 DEF Follows
  <2>3. json \notin fs'.torn /\ json \notin fs'.loose
    BY <1>4, <1>16, <2>2, FileSyncedIs
  <2>4. Follows(fs', child')
    <3>1. child'.of = c /\ child'.does = "provision" /\ child'.step = "syncdir"
      BY <1>7, <1>16
    <3>2. (\A s \in Mounts : Sure(fs', s, c)) /\ Piece("complete", c) \notin Made(fs')
          /\ Piece("bank.lock", c) \notin Made(fs') /\ Piece("bank.json", c) \in fs'.now
      BY <1>10, <2>1, <2>2
    <3> QED
      BY <1>3, <2>3, <3>1, <3>2 DEF Follows
  <2> QED
    BY <1>11, <1>13, <1>16, <2>1, <2>2, <2>4
<1>17. CASE child.step = "syncdir" /\ Goes("lock") /\ fs' = Synced(fs, "bank")
  <2> DEFINE M == {}
  <2>1. Moved(M) /\ M = {} /\ M \subseteq {json}
    BY <1>3, <1>4, <1>6, <1>17, StorageCalls
  <2> HIDE DEF M
  <2>2. Piece("bank.lock", c) \notin Made(fs) /\ Piece("bank.json", c) \in fs.now
        /\ json \notin fs.torn /\ json \notin fs.loose
    BY <1>1, <1>3, <1>4, <1>8, <1>17 DEF Follows
  <2>3. json \notin fs'.torn /\ json \notin fs'.loose /\ Piece("bank.json", c) \in fs'.disk
    BY <1>4, <1>6, <1>17, <2>2, SyncedIs, PieceFacts
  <2>4. Follows(fs', child')
    <3>1. child'.of = c /\ child'.does = "provision" /\ child'.step = "lock"
      BY <1>7, <1>17
    <3>2. (\A s \in Mounts : Sure(fs', s, c)) /\ Piece("complete", c) \notin Made(fs')
          /\ Piece("bank.lock", c) \notin Made(fs') /\ Piece("bank.json", c) \in fs'.now
      BY <1>10, <2>1, <2>2
    <3> QED
      BY <1>3, <2>3, <3>1, <3>2 DEF Follows
  <2> QED
    BY <1>13, <1>17, <2>1, <2>4
<1>18. CASE child.step = "lock" /\ Goes("resync") /\ fs' = Enter(fs, "bank", "bank.lock", lock)
  <2>1. Moved({lock})
    BY <1>3, <1>4, <1>6, <1>18, StorageCalls
  <2>2. Piece("bank.json", c) \in fs.now /\ Piece("bank.json", c) \in fs.disk /\ json \notin fs.torn /\ json \notin fs.loose
    BY <1>1, <1>3, <1>4, <1>8, <1>18 DEF Follows
  <2>3. json \notin fs'.torn /\ json \notin fs'.loose /\ Piece("bank.lock", c) \in fs'.now
    BY <1>4, <1>6, <1>18, <2>2, EnterIs DEF Piece
  <2>4. Sure(fs, "bank.json", c)
    BY <2>2 DEF Sure, Kept
  <2>5. Follows(fs', child')
    <3>1. child'.of = c /\ child'.does = "provision" /\ child'.step = "resync"
      BY <1>7, <1>18
    <3>2. (\A s \in Mounts : Sure(fs', s, c)) /\ Piece("complete", c) \notin Made(fs')
          /\ Piece("bank.json", c) \in fs'.now /\ Piece("bank.json", c) \in fs'.disk
      BY <1>10, <2>1, <2>2
    <3> QED
      BY <1>3, <2>3, <3>1, <3>2 DEF Follows
  <2> QED
    BY <1>12, <1>13, <1>18, <2>1, <2>4, <2>5
<1>19. CASE child.step = "resync" /\ Goes("exited") /\ fs' = Synced(fs, "bank")
  <2> DEFINE M == {}
  <2>1. Moved(M) /\ M = {} /\ M \subseteq {lock}
    BY <1>3, <1>4, <1>6, <1>19, StorageCalls
  <2> HIDE DEF M
  <2>2. /\ Piece("bank.json", c) \in fs.now /\ Piece("bank.json", c) \in fs.disk /\ json \notin fs.torn /\ json \notin fs.loose
        /\ Piece("bank.lock", c) \in fs.now
    BY <1>1, <1>3, <1>4, <1>8, <1>19 DEF Follows
  <2>3. json \notin fs'.torn /\ json \notin fs'.loose /\ Piece("bank.lock", c) \in fs'.disk
    BY <1>4, <1>6, <1>19, <2>2, SyncedIs, PieceFacts
  <2>4. Follows(fs', child')
    <3>1. child'.of = c /\ child'.does = "provision" /\ child'.step = "exited"
      BY <1>7, <1>19
    <3>2. (\A s \in Mounts : Sure(fs', s, c)) /\ Piece("complete", c) \notin Made(fs')
          /\ Piece("bank.json", c) \in fs'.now /\ Piece("bank.json", c) \in fs'.disk
          /\ Piece("bank.lock", c) \in fs'.now
      BY <1>10, <2>1, <2>2
    <3> QED
      BY <1>3, <2>3, <3>1, <3>2 DEF Follows
  <2> QED
    BY <1>13, <1>19, <2>1, <2>4
<1> QED
  BY <1>2, <1>14, <1>15, <1>16, <1>17, <1>18, <1>19

LEMMA ProperSurvives ==
  ASSUME Proper(fs), NEW g \in Crashed(fs)
  PROVE  /\ Proper(g) /\ Made(g) \subseteq Made(fs)
         /\ \A t, p : Sure(fs, t, p) => Sure(g, t, p)
<1>1. /\ FileSystem(g) /\ g.now = g.disk /\ g.loose = {}
      /\ fs.now \cap fs.disk \subseteq g.now /\ g.now \subseteq fs.now \cup fs.disk
      /\ g.torn \subseteq fs.torn \cup fs.loose
  BY CrashedIs
<1>2. Made(g) \subseteq Made(fs)
  BY <1>1 DEF Made
<1>3. \A t, p : Sure(fs, t, p) => Sure(g, t, p)
  BY <1>1 DEF Sure, Kept
<1>4. Formed(g)
  BY <1>1, <1>2 DEF Proper, Formed
<1>5. OneInstall(g)
  <2>1. ASSUME NEW p \in Attempts, Piece("intent", p) \in g.now PROVE Piece("intent", p) \in fs.now
    <3>1. Piece("intent", p).name # "lost+found"
      BY PieceFacts
    <3> QED
      BY <1>1, <2>1, <3>1 DEF Proper, Formed
  <2> QED
    BY <2>1 DEF Proper, OneInstall
<1>6. InOrder(g)
  BY <1>2, <1>3 DEF Proper, InOrder
<1> QED
  BY <1>2, <1>3, <1>4, <1>5, <1>6 DEF Proper

LEMMA StoragePowerLoss == ASSUME StorageInv, Storage!PowerLoss PROVE StorageInv'
<1>1. fs' \in Crashed(fs) /\ step' = step /\ store' = store /\ ro' = TRUE /\ child' = Storage!NoChild
  BY StorageFiles DEF Storage!PowerLoss
<1>2. task' = [p \in Attempts |-> IF task[p] \in Storage!Running THEN "failed" ELSE task[p]]
  BY DEF Storage!PowerLoss
<1>3. Proper(fs') /\ Made(fs') \subseteq Made(fs) /\ \A t, p : Sure(fs, t, p) => Sure(fs', t, p)
  BY <1>1, ProperSurvives DEF StorageInv
<1>4. Storage!NoChild.of = NoInstaller /\ NoInstaller \notin Attempts
      /\ Storage!NoChild = [of |-> Storage!NoChild.of, does |-> Storage!NoChild.does, step |-> Storage!NoChild.step]
  BY OtherAssumptions DEF Storage!NoChild, Storage!NobodyAssumption
<1>5. Follows(fs', child') /\ (child'.of \in Attempts => Awaited(child', task'[child'.of]))
  BY <1>1, <1>4 DEF Follows
<1>6. StorageTypes'
  BY <1>1, <1>2, <1>4, StorageSets DEF StorageInv, StorageTypes
<1>7. ASSUME NEW p \in Attempts PROVE Keeps(p)' /\ StoreOf(p)' /\ BankOf(p)'
  <2> DEFINE to == task'[p]  at == task[p]
  <2>1. to = "failed" \/ (to = at /\ at \notin Storage!Running)
    BY <1>2
  <2>2. Arrived(fs, at, p) /\ StoreOf(p) /\ step'[p] = step[p]
    BY <1>1 DEF StorageInv, Keeps
  <2> HIDE DEF at
  <2>3. to \notin Active /\ to \notin Storage!Running
    BY <2>1, StorageSets
  <2>4. Arrived(fs', to, p)
    <3>1. CASE to = "failed"
      BY <2>3, <3>1, EarlierFacts DEF Arrived
    <3>2. CASE to = at
      BY <1>3, <2>2, <2>3, <3>2 DEF Arrived
    <3> QED
      BY <2>1, <3>1, <3>2
  <2>5. Engaged(fs', to, step'[p], p)
    <3>1. to \notin {"intent", "complete", "conf"} /\ to \notin Storage!Making
      BY <2>3, StorageSets
    <3> QED
      BY <3>1 DEF Engaged
  <2>6. Keeps(p)'
    BY <2>4, <2>5 DEF Keeps
  <2>7. StoreOf(p)'
    BY <1>1, <1>3, <2>1, <2>2 DEF StoreOf, Ready, at
  <2>8. BankOf(p)'
    BY <1>1 DEF BankOf
  <2> QED
    BY <2>6, <2>7, <2>8
<1> QED
  BY <1>3, <1>5, <1>6, <1>7 DEF StorageInv

LEMMA StorageBegins == ASSUME Storage!Init PROVE StorageInv
<1>1. /\ task = [p \in Attempts |-> "off"] /\ step = [p \in Attempts |-> "go"]
      /\ child = Storage!NoChild
  BY DEF Storage!Init
<1>2. FileSystem(fs) /\ fs.disk = fs.now /\ \A e \in fs.now : e.name = "lost+found"
  <2>1. FileSystem(Empty) /\ Empty.now = {} /\ Empty.disk = {} /\ Empty.torn = {} /\ Empty.loose = {}
    BY DEF FileSystem, Empty
  <2>2. CASE fs = Empty
    BY <2>1, <2>2
  <2>3. CASE fs # Empty
    <3> DEFINE e == Entry("bank", "lost+found", <<"lost+found", NoInstaller>>)
    <3>1. fs = [Empty EXCEPT !.now = {e}, !.disk = {e}]
      BY <2>3, StorageFiles DEF Storage!Init
    <3>2. e.name = "lost+found"
      BY DEF Entry
    <3> HIDE DEF e
    <3>3. fs = [now |-> {e}, disk |-> {e}, torn |-> {}, loose |-> {}]
      BY <3>1 DEF Empty
    <3> QED
      BY <3>2, <3>3 DEF FileSystem
  <2> QED
    BY <2>2, <2>3
<1>3. \A t \in Pieces, p \in Attempts : Piece(t, p) \notin Made(fs)
  BY <1>2, PieceFacts DEF Made
<1>4. Proper(fs)
  <2>1. "intent" \in Pieces
    BY DEF Pieces
  <2> QED
    BY <1>2, <1>3, <2>1 DEF Proper, Formed, OneInstall, InOrder, Made
<1>5. Storage!NoChild.of = NoInstaller /\ NoInstaller \notin Attempts
      /\ Storage!NoChild = [of |-> Storage!NoChild.of, does |-> Storage!NoChild.does, step |-> Storage!NoChild.step]
  BY OtherAssumptions DEF Storage!NoChild, Storage!NobodyAssumption
<1>6. StorageTypes
  BY <1>1, <1>5, StorageSets DEF StorageTypes, Moves
<1>7. Follows(fs, child) /\ (child.of \in Attempts => Awaited(child, task[child.of]))
  BY <1>1, <1>5 DEF Follows
<1>8. ASSUME NEW p \in Attempts PROVE Keeps(p) /\ StoreOf(p) /\ BankOf(p)
  <2>1. task[p] = "off"
    BY <1>1
  <2>2. Arrived(fs, "off", p)
    BY <1>3, EarlierFacts DEF Arrived
  <2>3. Engaged(fs, "off", step[p], p)
    BY StorageSets DEF Engaged
  <2>4. Piece("complete", p) \notin Made(fs)
    BY <1>3 DEF Pieces
  <2> QED
    BY <2>1, <2>2, <2>3, <2>4 DEF Keeps, StoreOf, BankOf, Ready
<1> QED
  BY <1>4, <1>6, <1>7, <1>8 DEF StorageInv

LEMMA StorageStep == ASSUME StorageInv, Storage!Next \/ UNCHANGED <<vars, storage>> PROVE StorageInv'
<1>1. ASSUME NEW p \in Attempts, Storage!Installer(p) PROVE StorageInv'
  BY <1>1, StorageRecord, StorageMake, StorageInstallMount, StoragePlain, StorageNative, StorageStops, StorageSpawn,
     StorageReap DEF Storage!Installer
<1>2. CASE Storage!Next
  BY <1>1, <1>2, StorageMountUnit, StorageRemount, StorageProvision, StorageChildEnds, StoragePowerLoss
     DEF Storage!Next
<1>3. CASE UNCHANGED <<vars, storage>>
  BY <1>3, OnlyOthersMove DEF vars, storage
<1> QED
  BY <1>2, <1>3

LEMMA StorageHolds == MCSpec => [](program = "storage" => StorageInv)
<1> DEFINE Inv == program = "storage" => StorageInv
<1>1. MCInit => Inv
  BY StorageBegins DEF MCInit
<1>2. Inv /\ [MCNext]_<<program, vars, supply, storage>> => Inv'
  <2> SUFFICES ASSUME Inv, [MCNext]_<<program, vars, supply, storage>>, program' = "storage" PROVE StorageInv'
    OBVIOUS
  <2>1. program' = program /\ (Storage!Next \/ UNCHANGED <<vars, storage>>)
    BY DEF MCNext
  <2> QED
    BY <2>1, StorageStep
<1> QED
  BY <1>1, <1>2, PTL DEF MCSpec

\* Names and pieces: a name that is there is that of a piece.
LEMMA PieceNamed ==
  ASSUME NEW g, Proper(g), NEW t \in Pieces
  PROVE  /\ \A e \in Named(g, Storage!Parent(t), t) : \E p \in Attempts : e = Piece(t, p)
         /\ \A p : Piece(t, p) \in g.now => ~Absent(g, Storage!Parent(t), t)
         /\ \A p : Piece(t, p) \in g.now /\ <<t, p>> \notin g.torn => <<t, p>> \in Whole(g, Storage!Parent(t), t)
<1>1. ASSUME NEW e \in Named(g, Storage!Parent(t), t) PROVE \E p \in Attempts : e = Piece(t, p)
  <2>1. e \in Made(g) /\ e.name = t
    BY DEF Named, Made
  <2>2. PICK u \in Pieces, p \in Attempts : e = Piece(u, p)
    BY <2>1, PieceFacts DEF Proper, Formed
  <2>3. u = t
    BY <2>1, <2>2, PieceFacts
  <2> QED
    BY <2>2, <2>3
<1>2. \A p : Piece(t, p).dir = Storage!Parent(t) /\ Piece(t, p).name = t /\ Piece(t, p).file = <<t, p>>
  BY PieceFacts
<1>3. \A p : Piece(t, p) \in g.now => Piece(t, p) \in Named(g, Storage!Parent(t), t)
  BY <1>2 DEF Named
<1>4. \A p : Piece(t, p) \in g.now => ~Absent(g, Storage!Parent(t), t)
  BY <1>3 DEF Absent
<1>5. \A p : Piece(t, p) \in g.now /\ <<t, p>> \notin g.torn => <<t, p>> \in Whole(g, Storage!Parent(t), t)
  BY <1>2, <1>3 DEF Whole
<1> QED
  BY <1>1, <1>4, <1>5

\* What passes the check has been completed, so all that comes before the completion is sure.
LEMMA PassesMeans ==
  ASSUME NEW g, Proper(g), Storage!Passes(g)
  PROVE  \E p \in Attempts : Piece("complete", p) \in g.now /\ \A s \in Banks : Sure(g, s, p)
<1>1. PICK p \in Attempts : <<"complete", p>> \in Whole(g, "base", "complete")
  BY StorageFiles DEF Storage!Passes
<1>2. PICK e \in Named(g, "base", "complete") : e.file = <<"complete", p>>
  BY <1>1 DEF Whole
<1>3. "complete" \in Pieces /\ Storage!Parent("complete") = "base"
  BY PieceFacts DEF Pieces
<1>4. PICK q \in Attempts : e = Piece("complete", q)
  BY <1>2, <1>3, PieceNamed
<1>5. Piece("complete", q) \in g.now
  BY <1>2, <1>4 DEF Named
<1>6. Earlier("complete") = Banks
  BY DEF Earlier
<1> QED
  BY <1>3, <1>5, <1>6 DEF Proper, InOrder, Made

LEMMA CheckedMeans == ASSUME StorageInv PROVE Storage!CheckedIsWhole
<1>1. ASSUME NEW g \in Storage!Crashed(fs) \cup {fs} PROVE Proper(g) /\ Made(g) \subseteq Made(fs)
  <2>1. CASE g = fs
    BY <2>1 DEF StorageInv
  <2>2. CASE g \in Storage!Crashed(fs)
    BY <2>2, StorageFiles, ProperSurvives DEF StorageInv
  <2> QED
    BY <2>1, <2>2
<1>2. ASSUME NEW g \in Storage!Crashed(fs) \cup {fs}, Storage!Passes(g)
      PROVE  /\ store = "ready"
             /\ Storage!Whole(g, "bank", "bank.json") # {}
             /\ \A t \in Storage!Making : ~Storage!Absent(g, Storage!Parent(t), t)
  <2>1. PICK p \in Attempts : Piece("complete", p) \in g.now /\ \A s \in Banks : Sure(g, s, p)
    BY <1>1, <1>2, PassesMeans
  <2>2. store = "ready"
    BY <1>1, <2>1 DEF StorageInv, StoreOf, Made
  <2>3. Whole(g, "bank", "bank.json") # {}
    <3>1. "bank.json" \in Pieces /\ "bank.json" \in Banks /\ Storage!Parent("bank.json") = "bank"
      BY PieceFacts DEF Pieces, Banks
    <3>2. Piece("bank.json", p) \in g.now /\ <<"bank.json", p>> \notin g.torn
      BY <2>1, <3>1 DEF Sure, Kept, Contents
    <3> QED
      BY <1>1, <3>1, <3>2, PieceNamed
  <2>4. ASSUME NEW t \in Storage!Making PROVE ~Absent(g, Storage!Parent(t), t)
    <3>1. t \in Pieces /\ t \in Banks
      BY StorageSets DEF Pieces, Banks, Mounts, Stores
    <3>2. Piece(t, p) \in g.now
      BY <2>1, <3>1 DEF Sure, Kept
    <3> QED
      BY <1>1, <3>1, <3>2, PieceNamed
  <2> QED
    BY <2>2, <2>3, <2>4, StorageFiles
<1>3. ASSUME ~ro PROVE ~Storage!Passes(fs)
  <2> SUFFICES ASSUME Storage!Passes(fs) PROVE FALSE
    OBVIOUS
  <2>1. PICK p \in Attempts : Piece("complete", p) \in fs.now
    BY <1>1, PassesMeans
  <2>2. ro = TRUE
    BY <2>1 DEF StorageInv, BankOf, Made
  <2> QED
    BY <1>3, <2>2
<1> QED
  BY <1>2, <1>3 DEF Storage!CheckedIsWhole

LEMMA ForgottenMeans == ASSUME StorageInv PROVE Storage!NothingIsForgotten
<1>1. ASSUME NEW g \in Storage!Crashed(fs)
      PROVE  Proper(g) /\ \A t, p : Sure(fs, t, p) => Sure(g, t, p)
  BY <1>1, StorageFiles, ProperSurvives DEF StorageInv
<1>2. ASSUME NEW g \in Storage!Crashed(fs),
             NEW t \in {"core", "roots", "dropin", "complete", "bank.json", "bank.lock"},
             ~Storage!Absent(g, Storage!Parent(t), t)
      PROVE  ~Storage!Absent(g, "base", "intent")
  <2>1. t \in Pieces /\ "intent" \in Earlier(t) /\ "intent" \in Pieces /\ Storage!Parent("intent") = "base"
    BY EarlierFacts, PieceFacts DEF Pieces
  <2>2. PICK e \in Named(g, Storage!Parent(t), t) : TRUE
    BY <1>2, StorageFiles DEF Absent
  <2>3. PICK p \in Attempts : e = Piece(t, p)
    BY <1>1, <2>1, PieceNamed
  <2>4. Piece(t, p) \in Made(g)
    BY <2>2, <2>3 DEF Named, Made
  <2>5. Piece("intent", p) \in g.now
    BY <1>1, <2>1, <2>4 DEF Proper, InOrder, Sure, Kept
  <2>6. ~Absent(g, "base", "intent")
    BY <1>1, <2>1, <2>5, PieceNamed
  <2> QED
    BY <2>6, StorageFiles
<1>3. Storage!IntentOutlivesEffects
  BY <1>2 DEF Storage!IntentOutlivesEffects
<1>4. ASSUME NEW p \in Attempts, task[p] = "done", NEW g \in Storage!Crashed(fs) PROVE Storage!Passes(g)
  <2>1. \A t \in Pieces : Sure(g, t, p)
    <3>1. Earlier("done") = Pieces
      BY DEF Earlier
    <3> QED
      BY <1>1, <1>4, <3>1 DEF StorageInv, Keeps, Arrived
  <2>2. \A t \in Pieces : /\ Piece(t, p) \in g.now
                          /\ t \in Contents => <<t, p>> \notin g.torn
    BY <2>1 DEF Sure, Kept
  <2>3. \A t \in Pieces : /\ ~Absent(g, Storage!Parent(t), t)
                          /\ t \in Contents => <<t, p>> \in Whole(g, Storage!Parent(t), t)
    BY <1>1, <2>2, PieceNamed
  <2>4. /\ ~Absent(g, "systemd", "dropin") /\ Whole(g, "dropin", "conf") # {}
        /\ <<"intent", p>> \in Whole(g, "base", "intent") /\ <<"complete", p>> \in Whole(g, "base", "complete")
        /\ ~Absent(g, "bank", "bank.json") /\ ~Absent(g, "bank", "bank.lock")
    BY <2>3, PieceFacts DEF Pieces, Contents
  <2> QED
    BY <2>4, StorageFiles DEF Storage!Passes, Storage!Configured
<1>5. Storage!SuccessIsDurable
  BY <1>4 DEF Storage!SuccessIsDurable
<1> QED
  BY <1>3, <1>5 DEF Storage!NothingIsForgotten

\* CheckedIsWhole of MCInstallers: whatever check_bank lets through, now or after any power loss,
\* has a checked store, its directories and a whole bank record; and a bank left writable, by a
\* killed installer or by the command that outlived it, never passes.
THEOREM CheckedMeansWhole == MCSpec => []CheckedIsWhole
<1>1. (program = "storage" => StorageInv) => CheckedIsWhole
  BY CheckedMeans DEF CheckedIsWhole
<1> QED
  BY <1>1, StorageHolds, PTL

\* NothingIsForgotten: no power loss forgets the intent and keeps an effect, and the store of an
\* installer that reported success passes the check after any power loss.
THEOREM NothingForgotten == MCSpec => []NothingIsForgotten
<1>1. (program = "storage" => StorageInv) => NothingIsForgotten
  BY ForgottenMeans DEF NothingIsForgotten
<1> QED
  BY <1>1, StorageHolds, PTL

(***************************************************************************)
(* Each of the three implements RunsOnce.                                  *)
(***************************************************************************)

\* What is so of the mapped state at every moment, and of every step but a power loss.
Sane ==
  /\ Reported \subseteq Begun /\ Begun \subseteq Attempts
  /\ \A p, q \in Begun : p = q
  /\ Reported # {} => Accepted
  /\ Accepted => Begun # {}
  /\ Accepted \in BOOLEAN

Forward ==
  /\ Begun' = Begun \/ Begun = {}
  /\ Accepted => Accepted'
  /\ Begun' # Begun => ~Accepted'
  /\ Reported \subseteq Reported'
  /\ Reported' # Reported => Begun' = Begun /\ (Accepted' => Accepted)

Backward ==
  /\ Begun' \subseteq Begun
  /\ Reported' = Reported

LEMMA ForwardIsOnce == ASSUME Sane, Sane', Forward PROVE [Once!Next]_Once!vars
<1> USE DEF Sane
<1>1. CASE Begun' # Begun
  <2>1. Begun = {} /\ ~Accepted' /\ ~Accepted /\ Reported' = Reported
    BY <1>1 DEF Forward
  <2>2. PICK p \in Begun' : TRUE
    BY <1>1, <2>1
  <2>3. Begun' = {p} /\ p \in Attempts
    BY <2>2
  <2>4. Accepted' = Accepted
    BY <2>1
  <2>5. Once!Begin(p)
    BY <2>1, <2>3, <2>4 DEF Once!Begin
  <2> QED
    BY <2>3, <2>5 DEF Once!Next
<1>2. CASE Begun' = Begun /\ Reported' # Reported
  <2>1. Accepted' /\ Accepted
    BY <1>2 DEF Forward
  <2>2. PICK p \in Reported' : p \notin Reported
    BY <1>2 DEF Forward
  <2>3. Begun = {p} /\ Reported' = {p} /\ p \in Attempts
    BY <1>2, <2>2
  <2>4. Accepted' = Accepted
    BY <2>1
  <2>5. Once!Report(p)
    BY <1>2, <2>1, <2>3, <2>4 DEF Once!Report
  <2> QED
    BY <2>3, <2>5 DEF Once!Next
<1>3. CASE Begun' = Begun /\ Reported' = Reported
  <2>1. CASE Accepted' = Accepted
    BY <1>3, <2>1 DEF Once!vars
  <2>2. CASE Accepted' # Accepted
    <3>1. Accepted' = TRUE /\ Begun # {}
      BY <1>3, <2>2 DEF Forward
    <3>2. Once!Accept
      BY <1>3, <3>1 DEF Once!Accept
    <3> QED
      BY <3>2 DEF Once!Next
  <2> QED
    BY <2>1, <2>2
<1> QED
  BY <1>1, <1>2, <1>3

LEMMA BackwardIsOnce == ASSUME Sane, Sane', Backward PROVE [Once!Next]_Once!vars
<1> USE DEF Sane
<1>1. CASE Reported = {}
  <2>1. Accepted' \in {FALSE, Begun' # {}}
    BY DEF Backward
  <2>2. Once!PowerLoss
    BY <1>1, <2>1 DEF Once!PowerLoss, Backward
  <2> QED
    BY <2>2 DEF Once!Next
<1>2. CASE Reported # {}
  <2>1. PICK p \in Reported : TRUE
    BY <1>2
  <2>2. p \in Begun /\ p \in Begun' /\ Begun' = Begun
    BY <2>1 DEF Backward
  <2>3. Accepted' = Accepted
    BY <1>2 DEF Backward
  <2> QED
    BY <2>2, <2>3 DEF Once!vars, Backward
<1> QED
  BY <1>1, <1>2

LEMMA NothingIsOnce == ASSUME Begun' = Begun, Reported' = Reported, Accepted' = Accepted PROVE [Once!Next]_Once!vars
  BY DEF Once!vars

\* The archive observer's provisioning.
LEMMA BootBegun ==
  ASSUME NEW g, Good(g), NEW p \in Attempts
  PROVE  Final("intent", p) \in g.now <=> \E e \in g.now : e.name \in {"intent", "attempt"} /\ e.file[2] = p
<1>1. Final("intent", p).name = "intent" /\ Final("intent", p).file = <<"intent", p>>
  BY EntryFacts
<1>2. ASSUME NEW e \in g.now, e.name \in {"intent", "attempt"}, e.file[2] = p PROVE Final("intent", p) \in g.now
  <2>1. PICK t \in Running, q \in Attempts : e = Final(t, q) /\ e.name = t /\ e.file = <<t, q>>
    BY <1>2, Owned
  <2>2. t = "intent" /\ q = p
    BY <1>2, <2>1, PlanFacts
  <2> QED
    BY <2>1, <2>2
<1> QED
  BY <1>1, <1>2

LEMMA BootSane == ASSUME program = "observer", BootInv PROVE Sane
<1>0. Good(fs)
  BY DEF BootInv
<1>1. Accepted <=> History(fs)
  BY DEF Accepted
<1>2. \A p \in Attempts : p \in Begun <=> Final("intent", p) \in fs.now
  BY <1>0, BootBegun DEF Begun
<1>3. Begun \subseteq Attempts
  BY DEF Begun
<1>4. \A p, q \in Begun : p = q
  BY <1>0, <1>2, <1>3 DEF Good, OneIntent
<1>5. Reported \subseteq Begun
  <2> SUFFICES ASSUME NEW p \in Attempts, task[p] = "done" PROVE p \in Begun
    BY DEF Reported
  <2>1. "intent" \in Before("done")
    BY DEF Before
  <2>2. Solid(fs, "intent", p)
    BY <2>1, PlanFacts DEF BootInv, At, Progress
  <2> QED
    BY <1>2, <2>2 DEF Solid
<1>6. Reported # {} => Accepted
  BY <1>1, BootMeans DEF Reported, BootstrapIsLasting, SuccessAndFailureLast
<1>7. Accepted => Begun # {}
  <2> SUFFICES ASSUME History(fs) PROVE Begun # {}
    BY <1>1
  <2>1. Named(fs, "state", "intent") # {}
    BY DEF History, Readable, Whole
  <2>2. PICK e \in fs.now : e.name = "intent"
    BY <2>1, Found
  <2>3. PICK p \in Attempts : e.file[2] = p
    BY <1>0, <2>2, Owned
  <2> QED
    BY <2>2, <2>3 DEF Begun
<1>8. Accepted \in BOOLEAN
  BY DEF Accepted, History
<1> QED
  BY <1>3, <1>4, <1>5, <1>6, <1>7, <1>8 DEF Sane

\* What any system call of an attempt does; only the first of a task makes a temporary file.
LEMMA BootShape ==
  ASSUME BootInv, NEW p \in Attempts, WriteNew(p) \/ MakeCache(p) \/ Raise(p) \/ Kill(p)
  PROVE  /\ task[p] \in Running /\ Touched(task[p], p)
         /\ Temp(task[p], p) \in fs'.now => Temp(task[p], p) \in fs.now \/ step[p] = "temp"
         /\ <<task[p], p>> \in fs'.torn => <<task[p], p>> \in fs.torn \/ step[p] = "temp"
         /\ \/ task' = task
            \/ task' = [task EXCEPT ![p] = "failed"]
            \/ task' = [task EXCEPT ![p] = After(task[p])] /\ fs'.now = fs.now /\ fs'.torn = fs.torn
<1> DEFINE t == task[p]  d == Parent(t)  f == <<t, p>>  g == WithoutTemp(fs, p)
<1>0. Shaped(fs) /\ FileSystem(fs)
  BY DEF BootInv, Good, Shaped
<1>1. t \in Running
  BY PlanFacts DEF WriteNew, MakeCache, Raise, Kill, Records, CacheFiles
<1>2. /\ FileSystem(g) /\ g.now = fs.now \ {Temp(t, p)} /\ g.torn = fs.torn
  BY <1>0, WithoutTempIs
<1>3. \/ t # "cache" /\ step[p] = "temp" /\ task' = task /\ fs' = Created(fs, d, "temp", f)
      \/ t # "cache" /\ task' = task /\ fs' = Written(fs, f)
      \/ task' = task /\ fs' = FileSynced(fs, f)
      \/ Absent(fs, d, t) /\ task' = task /\ fs' = Enter(fs, d, t, f)
      \/ (task' = task \/ task' = [task EXCEPT ![p] = After(t)]) /\ fs' = Synced(fs, d)
      \/ task' = task /\ fs' = g
      \/ task' = [task EXCEPT ![p] = "failed"] /\ (fs' = Synced(g, d) \/ fs' = fs)
  <2>1. CASE WriteNew(p)
    <3>1. t # "cache"
      BY <2>1 DEF WriteNew, Records, CacheFiles
    <3> QED
      BY <2>1, <3>1 DEF WriteNew, Call, Last
  <2>2. CASE MakeCache(p)
    <3>1. t = "cache" /\ d = "state"
      BY <2>2 DEF MakeCache, Parent, CacheFiles
    <3> QED
      BY <2>2, <3>1 DEF MakeCache, Call, Last
  <2>3. CASE Raise(p) \/ Kill(p)
    BY <2>3 DEF Raise, Kill
  <2> QED
    BY <2>1, <2>2, <2>3
<1>4. Touched(t, p)
  <2> HIDE DEF g
  <2>1. fs' = g \/ fs' = Synced(g, d) => Touched(t, p)
    BY <1>0, <1>1, CallsTouch DEF g
  <2> QED
    BY <1>0, <1>1, <1>3, <2>1, CallsTouch
<1> HIDE DEF g, t
<1>5. CASE step[p] = "temp" /\ task' = task /\ fs' = Created(fs, d, "temp", f)
  BY <1>1, <1>4, <1>5 DEF t
<1>6. CASE task' = task /\ fs' = Written(fs, f)
  BY <1>0, <1>1, <1>4, <1>6, WrittenIs DEF t
<1>7. CASE task' = task /\ fs' = FileSynced(fs, f)
  BY <1>0, <1>1, <1>4, <1>7, FileSyncedIs DEF t
<1>8. CASE task' = task /\ fs' = Enter(fs, d, t, f)
  <2>1. fs'.now = fs.now \cup {Final(t, p)} /\ fs'.torn = fs.torn
    BY <1>0, <1>8, EnterIs DEF Final
  <2>2. Final(t, p) # Temp(t, p)
    BY <1>1, EntryFacts, PlanFacts
  <2> QED
    BY <1>1, <1>4, <1>8, <2>1, <2>2 DEF t
<1>9. CASE (task' = task \/ task' = [task EXCEPT ![p] = After(t)]) /\ fs' = Synced(fs, d)
  <2>1. fs'.now = fs.now /\ fs'.torn = fs.torn
    BY <1>0, <1>9, SyncedIs
  <2> QED
    BY <1>1, <1>4, <1>9, <2>1 DEF t
<1>10. CASE task' = task /\ fs' = g
  BY <1>1, <1>2, <1>4, <1>10 DEF t
<1>11. CASE task' = [task EXCEPT ![p] = "failed"] /\ fs' = Synced(g, d)
  <2>1. fs'.now = g.now /\ fs'.torn = g.torn
    BY <1>2, <1>11, SyncedIs
  <2> QED
    BY <1>1, <1>2, <1>4, <1>11, <2>1 DEF t
<1>12. CASE task' = [task EXCEPT ![p] = "failed"] /\ fs' = fs
  BY <1>1, <1>4, <1>12 DEF t
<1> QED
  BY <1>3, <1>5, <1>6, <1>7, <1>8, <1>9, <1>10, <1>11, <1>12

\* A record that the service accepts stays readable.
LEMMA CompleteStays ==
  ASSUME BootInv, BootInv', NEW p \in Attempts, WriteNew(p) \/ MakeCache(p) \/ Raise(p) \/ Kill(p),
         NEW b \in Attempts, <<"complete", b>> \in Readable(fs, "state", "complete"), Final("complete", b) \in fs.now
  PROVE  Final("complete", b) \in fs'.now /\ <<"complete", b>> \in Readable(fs', "state", "complete")
<1> DEFINE t == task[p]
<1>1. /\ t \in Running /\ Touched(t, p)
      /\ Temp(t, p) \in fs'.now => Temp(t, p) \in fs.now \/ step[p] = "temp"
      /\ <<t, p>> \in fs'.torn => <<t, p>> \in fs.torn \/ step[p] = "temp"
  BY BootShape
<1>2. Midway(fs, t, step[p], p)
  BY DEF BootInv, At
<1> HIDE DEF t
<1>3. "complete" \in Running /\ "complete" # "temp" /\ Parent("complete") = "state"
  BY PlanFacts DEF Parent, CacheFiles
<1>4. t = "complete" /\ p = b => step[p] # "temp"
  BY <1>1, <1>2 DEF Midway
<1>5. Temp("complete", b) \notin fs.now
  <2> SUFFICES ASSUME Temp("complete", b) \in fs.now PROVE FALSE
    OBVIOUS
  <2> DEFINE links == {e \in fs.now : e.file = <<"complete", b>>}
  <2>1. Final("complete", b) \in links /\ Temp("complete", b) \in links /\ Final("complete", b) # Temp("complete", b)
    BY <1>3, EntryFacts
  <2>2. links \subseteq {} \cup {Final("complete", b)} \cup {Temp("complete", b)}
    <3> SUFFICES ASSUME NEW e \in fs.now, e.file = <<"complete", b>>
                 PROVE  e = Final("complete", b) \/ e = Temp("complete", b)
      OBVIOUS
    <3>1. PICK u \in Running, q \in Attempts : e = Final(u, q) \/ e = Temp(u, q)
      BY DEF BootInv, Good, Shaped, Made
    <3>2. <<u, q>> = <<"complete", b>>
      BY <3>1, EntryFacts
    <3>3. u = "complete" /\ q = b
      BY <3>2
    <3> QED
      BY <3>1, <3>3
  <2>3. Cardinality(links) = 1
    BY DEF Readable, Links
  <2> HIDE DEF links
  <2>4. IsFiniteSet({} \cup {Final("complete", b)} \cup {Temp("complete", b)})
    BY FS_EmptySet, FS_AddElement
  <2>5. IsFiniteSet(links)
    BY <2>2, <2>4, FS_Subset
  <2>6. PICK e : links = {e}
    BY <2>3, <2>5, FS_Singleton
  <2> QED
    BY <2>1, <2>6
<1>6. Final("complete", b) \in fs'.now
  <2>1. Final("complete", b).name # "temp"
    BY <1>3, EntryFacts
  <2> QED
    BY <1>1, <2>1 DEF Touched
<1>7. Temp("complete", b) \notin fs'.now
  <2> SUFFICES ASSUME Temp("complete", b) \in fs'.now PROVE FALSE
    OBVIOUS
  <2>1. Temp("complete", b) = Temp(t, p)
    <3>1. Temp("complete", b) # Final(t, p)
      BY <1>1, EntryFacts, PlanFacts
    <3> QED
      BY <1>1, <1>5, <3>1 DEF Touched
  <2>2. t = "complete" /\ p = b
    BY <2>1, EntryFacts
  <2> QED
    BY <1>1, <1>4, <1>5, <2>2
<1>8. <<"complete", b>> \notin fs'.torn
  <2> SUFFICES ASSUME <<"complete", b>> \in fs'.torn PROVE FALSE
    OBVIOUS
  <2>1. <<"complete", b>> \notin fs.torn
    BY DEF Readable, Whole
  <2>2. <<"complete", b>> = <<t, p>>
    BY <1>1, <2>1 DEF Touched
  <2>3. t = "complete" /\ p = b
    BY <2>2
  <2> QED
    BY <1>1, <1>4, <2>1, <2>3
<1>9. Good(fs')
  BY DEF BootInv
<1>10. <<"complete", b>> \in Readable(fs', Parent("complete"), "complete")
  BY <1>3, <1>6, <1>7, <1>8, <1>9, LinkedReads
<1> QED
  BY <1>3, <1>6, <1>10

LEMMA CompleteOf ==
  ASSUME NEW g, Good(g), NEW c \in Readable(g, "state", "complete")
  PROVE  \E b \in Attempts : c = <<"complete", b>> /\ Final("complete", b) \in g.now
<1>1. PICK e \in Named(g, "state", "complete") : c = e.file
  BY DEF Readable, Whole
<1>2. e \in g.now /\ e.name = "complete"
  BY DEF Named
<1>3. PICK t \in Running, b \in Attempts : e = Final(t, b) /\ e.name = t /\ e.file = <<t, b>>
  BY <1>2, Owned
<1> QED
  BY <1>1, <1>2, <1>3

LEMMA HistoryStays ==
  ASSUME BootInv, BootInv', NEW p \in Attempts, WriteNew(p) \/ MakeCache(p) \/ Raise(p) \/ Kill(p),
         History(fs)
  PROVE  History(fs)'
<1>1. PICK c \in Readable(fs, "state", "complete") : TRUE
  BY DEF History
<1>2. PICK b \in Attempts : c = <<"complete", b>> /\ Final("complete", b) \in fs.now
  BY CompleteOf DEF BootInv
<1>3. Final("complete", b) \in fs'.now /\ <<"complete", b>> \in Readable(fs', "state", "complete")
  BY <1>1, <1>2, CompleteStays
<1>4. Good(fs')
  BY DEF BootInv
<1>5. "intent" \in Before("complete") /\ "complete" \in Running /\ "intent" \in Running /\ Parent("intent") = "state"
  BY PlanFacts DEF Before, Parent, CacheFiles
<1>6. Solid(fs', "intent", b)
  BY <1>3, <1>4, <1>5 DEF Good, Ordered, Made
<1>7. <<"intent", b>> \in Readable(fs', "state", "intent")
  BY <1>4, <1>5, <1>6, SolidReads
<1>8. config'[<<"intent", b>>[2]] = config'[<<"complete", b>>[2]]
  OBVIOUS
<1>9. \E i \in Readable(fs', "state", "intent"), d \in Readable(fs', "state", "complete") : config'[i[2]] = config'[d[2]]
  BY <1>3, <1>7, <1>8
<1> QED
  BY <1>9 DEF History

LEMMA BootForward ==
  ASSUME program = "observer", program' = "observer", BootInv, BootInv', Sane, Sane',
         NEW p \in Attempts, WriteNew(p) \/ MakeCache(p) \/ Raise(p) \/ Kill(p)
  PROVE  Forward
<1> DEFINE t == task[p]
<1>1. t \in Running /\ Touched(t, p)
  BY BootShape
<1>2. \/ task' = task
      \/ task' = [task EXCEPT ![p] = "failed"]
      \/ task' = [task EXCEPT ![p] = After(t)] /\ fs'.now = fs.now /\ fs'.torn = fs.torn
  BY BootShape
<1>3. task \in [Attempts -> Tasks \cup {"off", "failed"}] /\ t # "done" /\ "failed" # "done"
  BY <1>1, PlanFacts DEF BootInv, BootTypes
<1> HIDE DEF t
<1>4. Good(fs) /\ Good(fs')
  BY DEF BootInv
<1>5. \A q \in Attempts : q \in Begun <=> Final("intent", q) \in fs.now
  BY <1>4, BootBegun DEF Begun
<1>6. \A q \in Attempts : q \in Begun' <=> Final("intent", q) \in fs'.now
  BY <1>4, BootBegun DEF Begun
<1>7. Begun \subseteq Attempts /\ Begun' \subseteq Attempts
  BY DEF Begun
<1>8. Begun \subseteq Begun'
  <2>1. \A q \in Attempts : Final("intent", q).name # "temp"
    BY EntryFacts
  <2> QED
    BY <1>1, <1>5, <1>6, <1>7, <2>1 DEF Touched
<1>9. ASSUME Begun' # Begun PROVE t = "intent" /\ Begun = {}
  <2>1. PICK q \in Attempts : Final("intent", q) \in fs'.now /\ Final("intent", q) \notin fs.now
    BY <1>5, <1>6, <1>7, <1>8, <1>9
  <2>2. Final("intent", q) # Temp(t, p)
    BY EntryFacts
  <2>3. Final("intent", q) = Final(t, p)
    BY <1>1, <2>1, <2>2 DEF Touched
  <2>4. t = "intent" /\ q = p
    BY <2>3, EntryFacts
  <2>5. Absent(fs, "state", "intent")
    BY <1>1, <2>1, <2>4 DEF Touched
  <2>6. \A q2 \in Attempts : Final("intent", q2).dir = "state" /\ Final("intent", q2).name = "intent"
    BY EntryFacts DEF Parent, CacheFiles
  <2>7. \A q2 \in Attempts : Final("intent", q2) \notin fs.now
    BY <2>5, <2>6 DEF Absent, Named
  <2> QED
    BY <1>5, <1>7, <2>4, <2>7
<1>10. (Accepted <=> History(fs)) /\ (Accepted' <=> History(fs)')
  BY DEF Accepted
<1>11. Accepted => Accepted'
  BY <1>10, HistoryStays
<1>12. ASSUME Begun' # Begun PROVE ~Accepted'
  <2> SUFFICES ASSUME History(fs)' PROVE FALSE
    BY <1>10
  <2>1. PICK c \in Readable(fs', "state", "complete") : TRUE
    BY DEF History
  <2>2. PICK b \in Attempts : Final("complete", b) \in fs'.now
    BY <1>4, CompleteOf
  <2>3. Final("complete", b) # Final(t, p) /\ Final("complete", b) # Temp(t, p)
    BY <1>9, <1>12, EntryFacts
  <2>4. Final("complete", b) \in fs.now
    BY <1>1, <2>2, <2>3 DEF Touched
  <2>5. Final("intent", b) \in fs.now
    BY <1>4, <2>4, IntentOf, PlanFacts
  <2> QED
    BY <1>5, <1>9, <1>12, <2>5
<1>13. Reported \subseteq Reported'
  BY <1>2, <1>3 DEF Reported, t
<1>14. ASSUME Reported' # Reported PROVE Begun' = Begun /\ (Accepted' => Accepted)
  <2>1. fs'.now = fs.now /\ fs'.torn = fs.torn
    <3>1. task' = task => Reported' = Reported
      BY DEF Reported
    <3>2. task' = [task EXCEPT ![p] = "failed"] => Reported' = Reported
      BY <1>3 DEF Reported, t
    <3> QED
      BY <1>2, <1>14, <3>1, <3>2
  <2>2. config' = config
    BY DEF WriteNew, MakeCache, Raise, Kill, Call, Last
  <2>3. \A n : Named(fs', "state", n) = Named(fs, "state", n)
    BY <2>1 DEF Named
  <2>4. \A x : Links(fs', x) = Links(fs, x)
    BY <2>1 DEF Links
  <2>5. \A n : Readable(fs', "state", n) = Readable(fs, "state", n)
    BY <2>1, <2>3, <2>4 DEF Readable, Whole
  <2>6. History(fs)' => History(fs)
    BY <2>2, <2>5 DEF History
  <2>7. Begun' = Begun
    BY <2>1 DEF Begun
  <2> QED
    BY <1>10, <2>6, <2>7
<1> QED
  BY <1>8, <1>9, <1>11, <1>12, <1>13, <1>14 DEF Forward

LEMMA BootLoss ==
  ASSUME program = "observer", program' = "observer", BootInv, BootInv', PowerLoss
  PROVE  Backward
<1>1. fs' \in Crashed(fs)
  BY DEF PowerLoss
<1>2. task' = [q \in Attempts |-> IF task[q] \in Running THEN "failed" ELSE task[q]]
  BY DEF PowerLoss
<1>3. Good(fs) /\ Good(fs')
  BY DEF BootInv
<1>4. ASSUME NEW q \in Attempts, Final("intent", q) \in fs'.now PROVE Final("intent", q) \in fs.now
  <2>1. Final("intent", q).name # "temp"
    BY EntryFacts
  <2>2. Final("intent", q) \in fs.now \/ Final("intent", q) \in fs.disk
    BY <1>1, <1>4, CrashedIs
  <2> QED
    BY <1>3, <2>1, <2>2 DEF Good, Shaped
<1>5. Begun' \subseteq Begun
  BY <1>3, <1>4, BootBegun DEF Begun
<1>6. Reported' = Reported
  BY <1>2, PlanFacts DEF Reported
<1> QED
  BY <1>5, <1>6 DEF Backward

LEMMA BootOnce ==
  ASSUME program = "observer", program' = "observer", BootInv, BootInv', Sane, Sane', Next \/ UNCHANGED vars
  PROVE  [Once!Next]_Once!vars
<1>1. CASE \E p \in Attempts : WriteNew(p) \/ MakeCache(p) \/ Raise(p) \/ Kill(p)
  BY <1>1, BootForward, ForwardIsOnce
<1>2. CASE PowerLoss
  BY <1>2, BootLoss, BackwardIsOnce
<1>3. CASE (\E p \in Attempts : Start(p)) \/ UNCHANGED vars
  <2>1. fs' = fs /\ config' = config
    BY <1>3 DEF Start, vars
  <2>2. Reported' = Reported
    <3>1. CASE UNCHANGED vars
      BY <3>1 DEF vars, Reported
    <3>2. CASE \E p \in Attempts : Start(p)
      <4>1. PICK p \in Attempts : Start(p)
        BY <3>2
      <4>2. task[p] = "off" /\ task' = [task EXCEPT ![p] = "intent"] /\ task \in [Attempts -> Tasks \cup {"off", "failed"}]
        BY <4>1 DEF Start, BootInv, BootTypes
      <4> QED
        BY <4>2 DEF Reported
    <3> QED
      BY <1>3, <3>1, <3>2
  <2>3. Begun' = Begun
    BY <2>1 DEF Begun
  <2>4. Accepted' = Accepted
    BY <2>1 DEF Accepted, History
  <2> QED
    BY <2>2, <2>3, <2>4, NothingIsOnce
<1> QED
  BY <1>1, <1>2, <1>3 DEF Next

\* The first provisioning of the supply policy and its floor.
LEMMA SupplyBegun ==
  ASSUME NEW g, Sound(g), NEW p \in Attempts
  PROVE  Mark("attempt", p) \in g.now <=> \E e \in g.now : e.name \in {"intent", "attempt"} /\ e.file[2] = p
<1>1. Mark("attempt", p).name = "attempt" /\ Mark("attempt", p).file = <<"attempt", p>>
  BY MarkFacts, Names
<1>2. ASSUME NEW e \in g.now, e.name \in {"intent", "attempt"}, e.file[2] = p PROVE Mark("attempt", p) \in g.now
  <2>1. PICK t \in Marks, q \in Attempts : e = Mark(t, q)
    BY DEF Sound, Fit, Made
  <2>2. e.name = Supply!Name(t) /\ e.file = <<Supply!Name(t), q>>
    BY <2>1, MarkFacts
  <2>3. t \notin Supply!Publishing
    BY <1>2, <2>2, MarkFacts
  <2>4. t = "attempt" /\ q = p
    <3>1. t = e.name /\ "intent" \notin Marks
      BY <2>2, <2>3, MarkFacts DEF Marks
    <3> QED
      BY <1>2, <2>2, <3>1
  <2> QED
    BY <2>1, <2>4
<1> QED
  BY <1>1, <1>2

\* The floor that readers accept, and the installer it is from.
LEMMA FloorOf ==
  ASSUME NEW g, Sound(g), NEW f \in Supply!Accepted(g, "trust", "floor")
  PROVE  \E q \in Attempts : f = <<"floor", q>> /\ Mark("publishFloor", q) \in g.now
  BY AcceptedIs, Names

LEMMA SupplyAccepted ==
  ASSUME program = "supply"
  PROVE  Accepted <=> Supply!Accepted(fs, "supply", "policy") # {} /\ Supply!Accepted(fs, "trust", "floor") # {}
  BY DEF Accepted

LEMMA SupplySane == ASSUME program = "supply", SupplyInv PROVE Sane
<1>0. Sound(fs)
  BY DEF SupplyInv
<1>1. Accepted <=> Supply!Accepted(fs, "supply", "policy") # {} /\ Supply!Accepted(fs, "trust", "floor") # {}
  BY SupplyAccepted
<1>2. \A p \in Attempts : p \in Begun <=> Mark("attempt", p) \in fs.now
  BY <1>0, SupplyBegun DEF Begun
<1>3. Begun \subseteq Attempts
  BY DEF Begun
<1>4. \A p, q \in Begun : p = q
  BY <1>0, <1>2, <1>3 DEF Sound, OneAttempt
<1>5. ASSUME NEW p \in Attempts, task[p] = "done" PROVE p \in Begun /\ Accepted
  <2>1. \A s \in Preceding("done") : Firm(fs, s, p)
    BY <1>5 DEF SupplyInv, Stands, Reached
  <2>2. {"attempt", "publishPolicy", "publishFloor"} \subseteq Preceding("done")
    BY DEF Preceding, Marks
  <2>3. Firm(fs, "attempt", p)
    BY <2>1, <2>2
  <2>4. p \in Begun
    BY <1>2, <2>3 DEF Firm, Kept
  <2>5. Supply!Accepted(fs, "supply", "policy") # {} /\ Supply!Accepted(fs, "trust", "floor") # {}
    BY <1>0, <2>1, <2>2, InPlace
  <2> QED
    BY <1>1, <2>4, <2>5
<1>6. Accepted => Begun # {}
  <2> SUFFICES ASSUME NEW f \in Supply!Accepted(fs, "trust", "floor") PROVE Begun # {}
    BY <1>1
  <2>1. PICK q \in Attempts : Mark("publishFloor", q) \in fs.now
    BY <1>0, FloorOf
  <2>2. Mark("attempt", q) \in fs.now
    BY <1>0, <2>1, AttemptOf, Names
  <2> QED
    BY <1>2, <2>2
<1>7. Accepted \in BOOLEAN
  BY DEF Accepted
<1> QED
  BY <1>3, <1>4, <1>5, <1>6, <1>7 DEF Sane, Reported

\* What an installer does at a task that makes an entry.
LEMMA SupplyShape ==
  ASSUME SupplyInv, NEW p \in Attempts, Supply!Create(p) \/ Supply!Make(p) \/ Supply!Publish(p)
  PROVE  /\ task[p] \in Marks /\ Changed(task[p], p)
         /\ task' = task \/ task' = [task EXCEPT ![p] = Supply!After(task[p])]
<1> DEFINE t == task[p]  n == Supply!Name(t)  d == Place(t)  s == Place(n)
<1>1. t \in Marks
  BY Names DEF Supply!Create, Supply!Make, Supply!Publish
<1>2. Sound(fs) /\ Reached(fs, t, p) /\ Underway(fs, t, step[p], p)
  BY DEF SupplyInv, Stands
<1>3. task' = task \/ task' = [task EXCEPT ![p] = Supply!After(t)]
  BY DEF Supply!Create, Supply!Make, Supply!Publish, Supply!Call, Supply!Last
<1>4. ASSUME Supply!Create(p) PROVE Changed(t, p)
  <2>0. t \in Supply!Creating
    BY <1>4 DEF Supply!Create
  <2>1. t \in Supply!Creating /\ Supply!Parent(t) = d
    <3> HIDE DEF t
    <3>1. t \in Marks \ Supply!Publishing
      BY <1>1, <2>0, TaskSets
    <3> QED
      BY <2>0, <3>1, MarkFacts
  <2>2. \/ Absent(fs, d, t) /\ fs' = Created(fs, d, t, <<t, p>>)
        \/ fs' = Written(fs, <<t, p>>) \/ fs' = FileSynced(fs, <<t, p>>) \/ fs' = Synced(fs, d)
    <3>1. \/ Supply!Absent(fs, d, t) /\ fs' = Supply!Created(fs, d, t, <<t, p>>)
          \/ fs' = Supply!Written(fs, <<t, p>>) \/ fs' = Supply!FileSynced(fs, <<t, p>>) \/ fs' = Supply!Synced(fs, d)
      BY <1>4, <2>1 DEF Supply!Create, Supply!Call, Supply!Last
    <3> QED
      BY <3>1, SupplyFiles
  <2> HIDE DEF t
  <2> QED
    BY <1>1, <1>2, <2>1, <2>2, CallsChange
<1>5. ASSUME Supply!Make(p) PROVE Changed(t, p)
  <2>0. t \in Supply!Making
    BY <1>5 DEF Supply!Make
  <2>1. t \in Supply!Making /\ Supply!Parent(t) = d /\ n = t /\ t # "attempt"
    <3> HIDE DEF t
    <3>1. t \in Marks \ Supply!Publishing /\ t # "attempt"
      BY <1>1, <2>0, TaskSets
    <3> QED
      BY <2>0, <3>1, MarkFacts
  <2>2. fs' = Enter(fs, d, n, <<n, p>>) \/ fs' = Synced(fs, d)
    BY <1>5, <2>1, SupplyFiles DEF Supply!Make, Supply!Call, Supply!Last
  <2> HIDE DEF t
  <2> QED
    BY <1>1, <1>2, <2>1, <2>2, CallsChange
<1>6. ASSUME Supply!Publish(p) PROVE Changed(t, p)
  <2>1. t \in Supply!Publishing /\ Supply!Target(t) = d /\ Supply!Source(t) = s /\ t # "attempt"
    <3>1. t \in Supply!Publishing
      BY <1>6 DEF Supply!Publish
    <3> HIDE DEF t
    <3>2. Supply!Target(t) = d /\ Supply!Source(t) = s
      BY <3>1, MarkFacts
    <3>3. t # "attempt"
      BY <3>1, TaskSets
    <3> QED
      BY <3>1, <3>2, <3>3
  <2>2. \/ fs' = Enter(fs, d, n, <<n, p>>) \/ fs' = Synced(fs, d) \/ fs' = Synced(fs, s)
        \/ step[p] = "unlink" /\ fs' = Remove(fs, s, n)
    BY <1>6, <2>1, SupplyFiles DEF Supply!Publish, Supply!Call, Supply!Last
  <2> HIDE DEF t
  <2>3. step[p] = "unlink" => Kept(fs, Mark(t, p))
    BY <1>2, <2>1 DEF Underway, Kept
  <2> QED
    BY <1>1, <1>2, <2>1, <2>2, <2>3, CallsChange
<1> QED
  BY <1>1, <1>3, <1>4, <1>5, <1>6

\* What readers accept in place stays accepted.
LEMMA PairStays ==
  ASSUME SupplyInv, SupplyInv', NEW p \in Attempts, task[p] \in Marks, Changed(task[p], p),
         Supply!Accepted(fs, "trust", "floor") # {}
  PROVE  Supply!Accepted(fs', "supply", "policy") # {} /\ Supply!Accepted(fs', "trust", "floor") # {}
<1> DEFINE t == task[p]
<1>0. Sound(fs) /\ Sound(fs') /\ Reached(fs, t, p) /\ t \in Supply!Running
  BY TaskSets DEF SupplyInv, Stands
<1> HIDE DEF t
<1>1. PICK f \in Supply!Accepted(fs, "trust", "floor") : TRUE
  OBVIOUS
<1>2. PICK q \in Attempts : f = <<"floor", q>> /\ Mark("publishFloor", q) \in fs.now
  BY <1>0, <1>1, FloorOf
<1>3. /\ {"floor", "publishFloor", "attempt"} \subseteq Marks /\ "publishFloor" \in Supply!Publishing
      /\ Supply!Name("publishFloor") = "floor" /\ Place("publishFloor") = "trust"
      /\ "publishFloor" \notin Preceding("floor") /\ {"floor", "publishPolicy"} \subseteq Preceding("publishFloor")
      /\ "floor" \in Supply!Creating /\ Supply!Name("floor") = "floor"
  BY Names, TaskSets, MarkFacts DEF Preceding, Marks
<1>4. Mark("floor", q) \notin fs.now
  <2> SUFFICES ASSUME Mark("floor", q) \in fs.now PROVE FALSE
    OBVIOUS
  <2> DEFINE links == {e \in fs.now : e.file = <<"floor", q>>}
  <2>1. Mark("floor", q) \in links /\ Mark("publishFloor", q) \in links /\ Mark("floor", q) # Mark("publishFloor", q)
    BY <1>2, <1>3, MarkFacts
  <2>2. links \subseteq {} \cup {Mark("floor", q)} \cup {Mark("publishFloor", q)}
    <3> SUFFICES ASSUME NEW e \in fs.now, e.file = <<"floor", q>>
                 PROVE  e = Mark("floor", q) \/ e = Mark("publishFloor", q)
      OBVIOUS
    <3>1. PICK u \in Marks, r \in Attempts : e = Mark(u, r)
      BY <1>0 DEF Sound, Fit, Made
    <3>2. Supply!Name(u) = "floor" /\ r = q
      BY <3>1, MarkFacts
    <3>3. u = "floor" \/ u = "publishFloor"
      <4>1. CASE u \notin Supply!Publishing
        BY <3>2, <4>1, MarkFacts
      <4>2. CASE u \in Supply!Publishing
        BY <3>2, <4>2, StagedFacts, Names
      <4> QED
        BY <4>1, <4>2
    <3> QED
      BY <3>1, <3>2, <3>3
  <2>3. Cardinality(links) = 1
    <3>1. Links(fs, <<"floor", q>>) = 1
      BY <1>1, <1>2, SupplyFiles DEF Supply!Accepted
    <3> QED
      BY <3>1 DEF Links
  <2> HIDE DEF links
  <2>4. IsFiniteSet({} \cup {Mark("floor", q)} \cup {Mark("publishFloor", q)})
    BY FS_EmptySet, FS_AddElement
  <2>5. IsFiniteSet(links)
    BY <2>2, <2>4, FS_Subset
  <2>6. PICK e : links = {e}
    BY <2>3, <2>5, FS_Singleton
  <2> QED
    BY <2>1, <2>6
<1>5. Mark("publishFloor", q) \in fs'.now
  <2>1. t \in Supply!Publishing => Mark("publishFloor", q) # Staged(t, p)
    <3> SUFFICES ASSUME t \in Supply!Publishing, Mark("publishFloor", q) = Mark(Supply!Name(t), p) PROVE FALSE
      BY StagedFacts
    <3>1. Supply!Name(t) = "publishFloor"
      BY <1>3, StagedFacts, MarkFacts
    <3> QED
      BY <3>1, StagedFacts
  <2> QED
    BY <1>2, <2>1 DEF Changed, t
<1>6. \A s \in Preceding("publishFloor") : Firm(fs', s, q)
  BY <1>0, <1>3, <1>5 DEF Sound, Sequenced, Made
<1>7. Mark("floor", q) \notin fs'.now
  <2> SUFFICES ASSUME Mark("floor", q) \in fs'.now PROVE FALSE
    OBVIOUS
  <2>1. Mark("floor", q) = Mark(t, p)
    BY <1>4 DEF Changed, t
  <2>2. t = "floor" /\ q = p
    BY <1>3, <2>1, MarkFacts DEF t
  <2>3. Mark("publishFloor", p) \in Made(fs)
    BY <1>2, <2>2 DEF Made
  <2>4. "publishFloor" \in Preceding("floor") \cup {"floor"}
    BY <1>0, <1>3, <2>2, <2>3 DEF Reached
  <2> QED
    BY <1>3, <2>4
<1>8. <<"floor", q>> \notin fs'.torn
  BY <1>3, <1>6 DEF Firm
<1>9. <<"floor", q>> \in Supply!Accepted(fs', "trust", "floor")
  BY <1>0, <1>3, <1>5, <1>7, <1>8, PlacedReads
<1>10. Supply!Accepted(fs', "supply", "policy") # {}
  BY <1>0, <1>3, <1>6, InPlace
<1> QED
  BY <1>9, <1>10

LEMMA SupplyForward ==
  ASSUME program = "supply", program' = "supply", SupplyInv, SupplyInv',
         NEW p \in Attempts, Supply!Create(p) \/ Supply!Make(p) \/ Supply!Publish(p)
  PROVE  Forward
<1> DEFINE t == task[p]
<1>1. /\ t \in Marks /\ Changed(t, p)
      /\ task' = task \/ task' = [task EXCEPT ![p] = Supply!After(t)]
  BY SupplyShape
<1>2. task \in [Attempts -> Supply!Tasks] /\ t # "done" /\ Supply!After(t) # "done"
  BY <1>1, Steps DEF SupplyInv, SupplyTypes, Marks
<1>3. Sound(fs) /\ Sound(fs')
  BY DEF SupplyInv
<1>4. (\A q \in Attempts : q \in Begun <=> Mark("attempt", q) \in fs.now) /\ Begun \subseteq Attempts
  BY <1>3, SupplyBegun DEF Begun
<1>5. (\A q \in Attempts : q \in Begun' <=> Mark("attempt", q) \in fs'.now) /\ Begun' \subseteq Attempts
  BY <1>3, SupplyBegun DEF Begun
<1>6. Reported' = Reported
  BY <1>1, <1>2 DEF Reported
<1>7. Accepted => Accepted'
  BY <1>1, PairStays DEF Accepted
<1> HIDE DEF t
<1>8. "attempt" \in Marks /\ Place("attempt") = "base" /\ Supply!Name("attempt") = "attempt"
  BY Names
<1>9. Begun \subseteq Begun'
  <2> SUFFICES ASSUME NEW q \in Attempts, Mark("attempt", q) \in fs.now PROVE Mark("attempt", q) \in fs'.now
    BY <1>4, <1>5
  <2>1. t \in Supply!Publishing => Mark("attempt", q) # Staged(t, p)
    <3> SUFFICES ASSUME t \in Supply!Publishing, Mark("attempt", q) = Mark(Supply!Name(t), p) PROVE FALSE
      BY StagedFacts
    <3>1. Supply!Name(t) = "attempt"
      BY <1>8, StagedFacts, MarkFacts
    <3> QED
      BY <3>1, StagedFacts
  <2> QED
    BY <1>1, <2>1 DEF Changed
<1>10. ASSUME Begun' # Begun PROVE t = "attempt" /\ Begun = {}
  <2>1. PICK q \in Attempts : Mark("attempt", q) \in fs'.now /\ Mark("attempt", q) \notin fs.now
    BY <1>4, <1>5, <1>9, <1>10
  <2>2. Mark("attempt", q) = Mark(t, p)
    BY <1>1, <2>1 DEF Changed
  <2>3. t = "attempt" /\ q = p
    BY <1>1, <1>8, <2>2, MarkFacts
  <2>4. Absent(fs, "base", "attempt")
    BY <1>1, <2>1, <2>3 DEF Changed
  <2>5. \A r \in Attempts : Mark("attempt", r) \notin fs.now
    BY <1>8, <2>4, MarkFacts DEF Absent, Named
  <2> QED
    BY <1>4, <2>3, <2>5
<1>11. ASSUME Begun' # Begun PROVE ~Accepted'
  <2> SUFFICES ASSUME NEW f \in Supply!Accepted(fs', "trust", "floor") PROVE FALSE
    BY DEF Accepted
  <2>1. PICK q \in Attempts : Mark("publishFloor", q) \in fs'.now
    BY <1>3, FloorOf
  <2>2. Mark("publishFloor", q) # Mark(t, p)
    BY <1>8, <1>10, <1>11, MarkFacts, Names
  <2>3. Mark("publishFloor", q) \in fs.now
    BY <1>1, <2>1, <2>2 DEF Changed
  <2>4. Mark("attempt", q) \in fs.now
    BY <1>3, <2>3, AttemptOf, Names
  <2> QED
    BY <1>4, <1>10, <1>11, <2>4
<1> QED
  BY <1>6, <1>7, <1>9, <1>10, <1>11 DEF Forward

\* The steps that leave the files alone.
LEMMA SupplyQuiet ==
  ASSUME program = "supply", program' = "supply", SupplyInv, fs' = fs,
         \/ task' = task
         \/ \E p \in Attempts, to \in Supply!Tasks : task[p] # "done" /\ task' = [task EXCEPT ![p] = to]
  PROVE  Forward
<1>1. task \in [Attempts -> Supply!Tasks]
  BY DEF SupplyInv, SupplyTypes
<1>2. Reported \subseteq Reported'
  BY <1>1 DEF Reported
<1>3. Begun' = Begun
  BY DEF Begun
<1>4. Accepted' <=> Accepted
  BY DEF Accepted, Supply!Accepted, Supply!Whole, Supply!Named, Supply!Links
<1> QED
  BY <1>2, <1>3, <1>4 DEF Forward

LEMMA SupplyLoss ==
  ASSUME SupplyInv, SupplyInv', Supply!PowerLoss
  PROVE  Backward
<1>1. fs' \in Crashed(fs)
  BY SupplyFiles DEF Supply!PowerLoss
<1>2. task' = [q \in Attempts |-> IF task[q] \in Supply!Running THEN "failed" ELSE task[q]]
  BY DEF Supply!PowerLoss
<1>3. Sound(fs) /\ Sound(fs')
  BY DEF SupplyInv
<1>4. ASSUME NEW q \in Attempts, Mark("attempt", q) \in fs'.now PROVE Mark("attempt", q) \in fs.now
  <2>1. \A t \in Supply!Publishing, r \in Attempts : Mark("attempt", q) # Staged(t, r)
    <3>1. "attempt" \in Marks /\ \A t \in Supply!Publishing : Supply!Name(t) # "attempt"
      BY StagedFacts DEF Marks
    <3> QED
      BY <3>1, StagedFacts, MarkFacts
  <2>2. Mark("attempt", q) \in fs.now \/ Mark("attempt", q) \in fs.disk
    BY <1>1, <1>4, CrashedIs
  <2> QED
    BY <1>3, <2>1, <2>2 DEF Sound, Fit
<1>5. Begun' \subseteq Begun
  BY <1>3, <1>4, SupplyBegun DEF Begun
<1>6. Reported' = Reported
  <2>1. "done" \notin Supply!Running
    BY DEF Supply!Running, Supply!Making, Supply!Creating, Supply!Publishing, Supply!Reading
  <2>2. \A q \in Attempts : task'[q] = "done" <=> task[q] = "done"
    BY <1>2, <2>1
  <2> QED
    BY <2>2 DEF Reported
<1> QED
  BY <1>5, <1>6 DEF Backward

LEMMA SupplyOnce ==
  ASSUME program = "supply", program' = "supply", SupplyInv, SupplyInv', Sane, Sane',
         Supply!Next \/ UNCHANGED <<vars, supply>>
  PROVE  [Once!Next]_Once!vars
<1>1. CASE \E p \in Attempts : Supply!Create(p) \/ Supply!Make(p) \/ Supply!Publish(p)
  BY <1>1, SupplyForward, ForwardIsOnce
<1>2. CASE Supply!PowerLoss
  BY <1>2, SupplyLoss, BackwardIsOnce
<1>3. CASE \E p \in Attempts : Supply!Start(p) \/ Supply!Look(p) \/ Supply!Verify(p) \/ Supply!Close(p) \/ Supply!Fail(p)
  <2>1. PICK p \in Attempts : Supply!Start(p) \/ Supply!Look(p) \/ Supply!Verify(p) \/ Supply!Close(p) \/ Supply!Fail(p)
    BY <1>3
  <2>2. fs' = fs
    BY <2>1 DEF Supply!Start, Supply!Look, Supply!Verify, Supply!Close, Supply!Fail, Supply!Last
  <2>3. task[p] # "done" /\ \E to \in Supply!Tasks : task' = [task EXCEPT ![p] = to]
    <3>1. CASE Supply!Start(p) \/ Supply!Fail(p)
      <4>1. "done" \notin Supply!Running /\ "look" \in Supply!Running
        BY DEF Supply!Running, Supply!Making, Supply!Creating, Supply!Publishing, Supply!Reading
      <4>2. task' = [task EXCEPT ![p] = "look"] \/ task' = [task EXCEPT ![p] = "failed"]
        BY <3>1 DEF Supply!Start, Supply!Fail
      <4>3. task[p] # "done"
        BY <3>1, <4>1 DEF Supply!Start, Supply!Fail
      <4> QED
        BY <4>1, <4>2, <4>3, Steps
    <3>2. CASE Supply!Look(p) \/ Supply!Verify(p) \/ Supply!Close(p)
      <4>1. task[p] \in Supply!Running /\ task[p] # "done" /\ task' = [task EXCEPT ![p] = Supply!After(task[p])]
        BY <3>2, TaskSets DEF Supply!Look, Supply!Verify, Supply!Close, Supply!Last
      <4> QED
        BY <4>1, Steps
    <3> QED
      BY <2>1, <3>1, <3>2
  <2> QED
    BY <2>2, <2>3, SupplyQuiet, ForwardIsOnce
<1>4. CASE Supply!Observe \/ UNCHANGED <<vars, supply>>
  <2>1. fs' = fs /\ task' = task
    BY <1>4 DEF Supply!Observe, vars, supply
  <2> QED
    BY <2>1, SupplyQuiet, ForwardIsOnce
<1> QED
  BY <1>1, <1>2, <1>3, <1>4 DEF Supply!Next, Supply!Installer

\* The installer of the native store and the root bank.
LEMMA StorageBegun ==
  ASSUME NEW g, Proper(g), NEW p \in Attempts
  PROVE  Piece("intent", p) \in g.now <=> \E e \in g.now : e.name \in {"intent", "attempt"} /\ e.file[2] = p
<1>1. Piece("intent", p).name = "intent" /\ Piece("intent", p).file = <<"intent", p>>
  BY PieceFacts
<1>2. ASSUME NEW e \in g.now, e.name \in {"intent", "attempt"}, e.file[2] = p PROVE Piece("intent", p) \in g.now
  <2>1. PICK t \in Pieces, q \in Attempts : e = Piece(t, q)
    BY <1>2 DEF Proper, Formed, Made
  <2>2. e.name = t /\ e.file = <<t, q>>
    BY <2>1, PieceFacts
  <2>3. t = "intent" /\ q = p
    BY <1>2, <2>2 DEF Pieces
  <2> QED
    BY <2>1, <2>3
<1> QED
  BY <1>1, <1>2

LEMMA StorageAccepted == ASSUME program = "storage" PROVE Accepted <=> Storage!Passes(fs)
  BY DEF Accepted

\* Whose store it is that passes.
LEMMA PassesIs ==
  ASSUME NEW g, Proper(g)
  PROVE  Storage!Passes(g) <=>
           \E p \in Attempts : /\ Piece("complete", p) \in g.now /\ <<"complete", p>> \notin g.torn
                               /\ \A s \in Banks : Sure(g, s, p)
<1>0. /\ "complete" \in Pieces /\ Storage!Parent("complete") = "base" /\ Earlier("complete") = Banks
      /\ Banks \subseteq Pieces
  BY PieceFacts DEF Pieces, Earlier, Banks, Mounts, Stores
<1>1. ASSUME Storage!Passes(g)
      PROVE  \E p \in Attempts : /\ Piece("complete", p) \in g.now /\ <<"complete", p>> \notin g.torn
                                 /\ \A s \in Banks : Sure(g, s, p)
  <2>1. PICK p \in Attempts : <<"complete", p>> \in Whole(g, "base", "complete")
    BY <1>1, StorageFiles DEF Storage!Passes
  <2>2. PICK e \in Named(g, "base", "complete") : e.file = <<"complete", p>> /\ <<"complete", p>> \notin g.torn
    BY <2>1 DEF Whole
  <2>3. PICK q \in Attempts : e = Piece("complete", q)
    BY <1>0, <2>2, PieceNamed
  <2>4. q = p
    BY <2>2, <2>3, PieceFacts
  <2>5. Piece("complete", p) \in g.now
    BY <2>2, <2>3, <2>4 DEF Named
  <2> QED
    BY <1>0, <2>2, <2>5 DEF Proper, InOrder, Made
<1>2. ASSUME NEW p \in Attempts, Piece("complete", p) \in g.now, <<"complete", p>> \notin g.torn,
             \A s \in Banks : Sure(g, s, p)
      PROVE  Storage!Passes(g)
  <2>1. \A t \in Banks : Piece(t, p) \in g.now /\ (t \in Contents => <<t, p>> \notin g.torn)
    BY <1>2 DEF Sure, Kept
  <2>2. \A t \in Banks : /\ ~Absent(g, Storage!Parent(t), t)
                         /\ t \in Contents => <<t, p>> \in Whole(g, Storage!Parent(t), t)
    BY <1>0, <2>1, PieceNamed
  <2>3. <<"complete", p>> \in Whole(g, "base", "complete")
    BY <1>0, <1>2, PieceNamed
  <2>4. /\ ~Absent(g, "systemd", "dropin") /\ Whole(g, "dropin", "conf") # {}
        /\ <<"intent", p>> \in Whole(g, "base", "intent")
        /\ ~Absent(g, "bank", "bank.json") /\ ~Absent(g, "bank", "bank.lock")
    BY <2>2, PieceFacts DEF Banks, Mounts, Stores, Contents
  <2> QED
    BY <2>3, <2>4, StorageFiles DEF Storage!Passes, Storage!Configured
<1> QED
  BY <1>1, <1>2

LEMMA StorageSane == ASSUME program = "storage", StorageInv PROVE Sane
<1>0. Proper(fs)
  BY DEF StorageInv
<1>1. (\A p \in Attempts : p \in Begun <=> Piece("intent", p) \in fs.now) /\ Begun \subseteq Attempts
  BY <1>0, StorageBegun DEF Begun
<1>2. \A p, q \in Begun : p = q
  BY <1>0, <1>1 DEF Proper, OneInstall
<1>3. ASSUME NEW p \in Attempts, task[p] = "done" PROVE p \in Begun /\ Accepted
  <2>1. \A t \in Pieces : Sure(fs, t, p)
    <3>1. Earlier("done") = Pieces
      BY DEF Earlier
    <3> QED
      BY <1>3, <3>1 DEF StorageInv, Keeps, Arrived
  <2>2. {"intent", "complete"} \subseteq Pieces /\ "complete" \in Contents /\ Banks \subseteq Pieces
    BY DEF Pieces, Contents, Banks, Mounts, Stores
  <2>3. Storage!Passes(fs)
    BY <1>0, <2>1, <2>2, PassesIs DEF Sure, Kept
  <2> QED
    BY <1>1, <2>1, <2>2, <2>3, StorageAccepted DEF Sure, Kept
<1>4. Accepted => Begun # {}
  <2> SUFFICES ASSUME Storage!Passes(fs) PROVE Begun # {}
    BY StorageAccepted
  <2>1. PICK p \in Attempts : Sure(fs, "intent", p)
    BY <1>0, PassesIs DEF Banks, Mounts, Stores
  <2> QED
    BY <1>1, <2>1 DEF Sure, Kept
<1>5. Accepted \in BOOLEAN
  <2>1. Storage!Passes(fs) \in BOOLEAN
    BY DEF Storage!Passes
  <2> QED
    BY <2>1 DEF Accepted
<1> QED
  BY <1>1, <1>2, <1>3, <1>4, <1>5 DEF Sane, Reported

\* What a step does to the files: one piece at most is made, and a file is torn when it is made.
Filed ==
  \E t \in Pieces, p \in Attempts : \E M \in SUBSET {<<t, p>>} :
    Moved(M) /\ \A x \in fs'.torn : x \in fs.torn \/ Absent(fs, Storage!Parent(x[1]), x[1])

LEMMA CallsFile ==
  ASSUME StorageInv, NEW t \in Pieces, NEW p \in Attempts,
         \/ fs' = Created(fs, Storage!Parent(t), t, <<t, p>>) /\ Absent(fs, Storage!Parent(t), t)
         \/ fs' = Written(fs, <<t, p>>) \/ fs' = FileSynced(fs, <<t, p>>)
         \/ fs' = Enter(fs, Storage!Parent(t), t, <<t, p>>) /\ t # "intent"
         \/ \E d : fs' = Synced(fs, d)
         \/ fs' = Remove(fs, "bank", "lost+found") \/ fs' = Storage!Settled \/ fs' = fs
  PROVE  Filed
<1> DEFINE M == {<<t, p>>}
<1>0. Proper(fs) /\ FileSystem(fs)
  BY DEF StorageInv, Proper, Formed
<1>1. Moved(M)
  <2>1. CASE fs' = Storage!Settled
    BY <1>0, <2>1, SettledIs
  <2>2. CASE fs' # Storage!Settled
    BY <1>0, <2>2, StorageCalls
  <2> QED
    BY <2>1, <2>2
<1>2. \A x \in fs'.torn : x \in fs.torn \/ Absent(fs, Storage!Parent(x[1]), x[1])
  <2>1. CASE fs' = Created(fs, Storage!Parent(t), t, <<t, p>>) /\ Absent(fs, Storage!Parent(t), t)
    <3>1. fs'.torn = fs.torn \cup {<<t, p>>} /\ <<t, p>>[1] = t
      BY <1>0, <2>1, CreatedIs
    <3> QED
      BY <2>1, <3>1
  <2>2. CASE fs' = Written(fs, <<t, p>>)
    BY <1>0, <2>2, WrittenIs
  <2>3. CASE fs' = FileSynced(fs, <<t, p>>)
    BY <1>0, <2>3, FileSyncedIs
  <2>4. CASE fs' = Enter(fs, Storage!Parent(t), t, <<t, p>>)
    BY <1>0, <2>4, EnterIs
  <2>5. CASE \E d : fs' = Synced(fs, d)
    BY <1>0, <2>5, SyncedIs
  <2>6. CASE fs' = Remove(fs, "bank", "lost+found")
    BY <1>0, <2>6, RemoveIs
  <2>7. CASE fs' = Storage!Settled
    <3>1. Synced(fs, "bank").torn = fs.torn /\ FileSystem(Synced(fs, "bank"))
      BY <1>0, SyncedIs
    <3>2. fs'.torn = fs.torn
      BY <2>7, <3>1, StorageFiles DEF Storage!Settled, FileSystem
    <3> QED
      BY <3>2
  <2> QED
    BY <2>1, <2>2, <2>3, <2>4, <2>5, <2>6, <2>7
<1> QED
  BY <1>1, <1>2 DEF Filed

\* What an installer does to its task, and when it reports.
Reports(p) ==
  \/ task' = task
  \/ \E to : /\ task[p] # "done" /\ task' = [task EXCEPT ![p] = to]
             /\ to = "done" => fs'.now = fs.now /\ fs'.torn = fs.torn

LEMMA LastReports ==
  ASSUME StorageInv, NEW p \in Attempts, task[p] \in Active, NEW from, NEW after, Storage!Last(p, from, after),
         task[p] = "complete" => fs'.now = fs.now /\ fs'.torn = fs.torn
  PROVE  Reports(p)
<1>1. task' = [task EXCEPT ![p] = Storage!After(task[p])]
  BY DEF Storage!Last
<1>2. task[p] # "done" /\ (Storage!After(task[p]) = "done" => task[p] = "complete")
  BY StorageSets
<1> QED
  BY <1>1, <1>2 DEF Reports

LEMMA RecordFiles == ASSUME StorageInv, NEW p \in Attempts, Storage!Record(p) PROVE Filed /\ Reports(p)
<1> DEFINE t == task[p]  d == Storage!Parent(t)  f == <<t, p>>
<1>1. t \in Pieces /\ t \in Active /\ Proper(fs) /\ FileSystem(fs)
  BY StorageSets DEF Storage!Record, Pieces, StorageInv, Proper, Formed
<1>2. \/ Absent(fs, d, t) /\ Storage!Call(p, "create", "write", Created(fs, d, t, f))
      \/ Storage!Call(p, "write", "sync", Written(fs, f))
      \/ Storage!Call(p, "sync", "syncdir", FileSynced(fs, f))
      \/ Storage!Last(p, "syncdir", Synced(fs, d))
  <2>1. \/ Storage!Absent(fs, d, t) /\ Storage!Call(p, "create", "write", Storage!Created(fs, d, t, f))
        \/ Storage!Call(p, "write", "sync", Storage!Written(fs, f))
        \/ Storage!Call(p, "sync", "syncdir", Storage!FileSynced(fs, f))
        \/ Storage!Last(p, "syncdir", Storage!Synced(fs, d))
    BY DEF Storage!Record
  <2> QED
    BY <2>1, StorageFiles
<1>3. \/ Absent(fs, d, t) /\ fs' = Created(fs, d, t, f)
      \/ fs' = Written(fs, f) \/ fs' = FileSynced(fs, f) \/ fs' = Synced(fs, d)
  BY <1>2 DEF Storage!Call, Storage!Last
<1>4. Filed
  <2> HIDE DEF t
  <2> QED
    BY <1>1, <1>3, CallsFile
<1>5. Reports(p)
  <2>1. CASE Storage!Last(p, "syncdir", Synced(fs, d))
    <3>1. fs' = Synced(fs, d)
      BY <2>1 DEF Storage!Last
    <3>2. fs'.now = fs.now /\ fs'.torn = fs.torn
      BY <1>1, <3>1, SyncedIs
    <3> QED
      BY <1>1, <2>1, <3>2, LastReports
  <2>2. CASE ~Storage!Last(p, "syncdir", Synced(fs, d))
    BY <1>2, <2>2 DEF Storage!Call, Reports
  <2> QED
    BY <2>1, <2>2
<1> QED
  BY <1>4, <1>5

LEMMA MakeFiles == ASSUME StorageInv, NEW p \in Attempts, Storage!Make(p) PROVE Filed /\ Reports(p)
<1> DEFINE t == task[p]  d == Storage!Parent(t)
<1>1. t \in Pieces /\ t \in Active /\ t # "intent" /\ t # "complete"
  BY StorageSets DEF Storage!Make, Pieces
<1>2. \/ Storage!Call(p, "mkdir", "syncdir", Enter(fs, d, t, <<t, p>>))
      \/ Storage!Last(p, "syncdir", Synced(fs, d))
  <2>1. \/ Storage!Call(p, "mkdir", "syncdir", Storage!Enter(fs, d, t, <<t, p>>))
        \/ Storage!Last(p, "syncdir", Storage!Synced(fs, d))
    BY DEF Storage!Make
  <2> QED
    BY <2>1, StorageFiles
<1>3. fs' = Enter(fs, d, t, <<t, p>>) \/ fs' = Synced(fs, d)
  BY <1>2 DEF Storage!Call, Storage!Last
<1>4. Filed
  <2> HIDE DEF t
  <2> QED
    BY <1>1, <1>3, CallsFile
<1>5. Reports(p)
  <2>1. CASE Storage!Last(p, "syncdir", Synced(fs, d))
    BY <1>1, <2>1, LastReports
  <2>2. CASE ~Storage!Last(p, "syncdir", Synced(fs, d))
    BY <1>2, <2>2 DEF Storage!Call, Reports
  <2> QED
    BY <2>1, <2>2
<1> QED
  BY <1>4, <1>5

LEMMA MountFiles == ASSUME StorageInv, NEW p \in Attempts, Storage!InstallMount(p) PROVE Filed /\ Reports(p)
<1>1. /\ {"dropin", "conf"} \subseteq Pieces /\ {"dropin", "conf"} \subseteq Active
      /\ Storage!Parent("dropin") = "systemd" /\ Storage!Parent("conf") = "dropin"
  BY StorageSets, PieceFacts DEF Pieces
<1>2. CASE task[p] = "dropin"
  <2>1. Storage!Last(p, "mkdir", Enter(fs, "systemd", "dropin", <<"dropin", p>>))
    BY <1>2, StorageFiles DEF Storage!InstallMount
  <2>2. fs' = Enter(fs, "systemd", "dropin", <<"dropin", p>>)
    BY <2>1 DEF Storage!Last
  <2>3. Filed
    BY <1>1, <2>2, CallsFile
  <2> QED
    BY <1>1, <1>2, <2>1, <2>3, LastReports
<1>3. CASE task[p] = "conf"
  <2> DEFINE f == <<"conf", p>>
  <2>1. \/ Absent(fs, "dropin", "conf") /\ Storage!Call(p, "create", "write", Created(fs, "dropin", "conf", f))
        \/ Storage!Call(p, "write", "sync", Written(fs, f))
        \/ Storage!Call(p, "sync", "syncdir", FileSynced(fs, f))
        \/ Storage!Call(p, "syncdir", "syncparent", Synced(fs, "dropin"))
        \/ Storage!Last(p, "syncparent", Synced(fs, "systemd"))
    <3>1. \/ Storage!Absent(fs, "dropin", "conf") /\ Storage!Call(p, "create", "write", Storage!Created(fs, "dropin", "conf", f))
          \/ Storage!Call(p, "write", "sync", Storage!Written(fs, f))
          \/ Storage!Call(p, "sync", "syncdir", Storage!FileSynced(fs, f))
          \/ Storage!Call(p, "syncdir", "syncparent", Storage!Synced(fs, "dropin"))
          \/ Storage!Last(p, "syncparent", Storage!Synced(fs, "systemd"))
      BY <1>3 DEF Storage!InstallMount
    <3> QED
      BY <3>1, StorageFiles
  <2>2. \/ Absent(fs, "dropin", "conf") /\ fs' = Created(fs, "dropin", "conf", f)
        \/ fs' = Written(fs, f) \/ fs' = FileSynced(fs, f) \/ \E d : fs' = Synced(fs, d)
    BY <2>1 DEF Storage!Call, Storage!Last
  <2>3. Filed
    BY <1>1, <2>2, CallsFile
  <2>4. Reports(p)
    <3>1. CASE Storage!Last(p, "syncparent", Synced(fs, "systemd"))
      BY <1>1, <1>3, <3>1, LastReports
    <3>2. CASE ~Storage!Last(p, "syncparent", Synced(fs, "systemd"))
      BY <2>1, <3>2 DEF Storage!Call, Reports
    <3> QED
      BY <3>1, <3>2
  <2> QED
    BY <2>3, <2>4
<1> QED
  BY <1>2, <1>3 DEF Storage!InstallMount

LEMMA ReapFiles == ASSUME StorageInv, NEW p \in Attempts, Storage!Reap(p) PROVE Filed /\ Reports(p)
<1> DEFINE after == IF task[p] = "rw" THEN Remove(fs, "bank", "lost+found") ELSE fs
<1>1. task[p] \in {"rw", "provision"} /\ Storage!Last(p, "await", after)
  BY StorageSets, StorageFiles DEF Storage!Reap
<1>2. fs' = Remove(fs, "bank", "lost+found") \/ fs' = fs
  BY <1>1 DEF Storage!Last
<1>3. "intent" \in Pieces /\ task[p] \in Active /\ task[p] # "complete"
  BY <1>1, StorageSets DEF Pieces
<1>4. Filed
  BY <1>2, <1>3, CallsFile
<1> HIDE DEF after
<1> QED
  BY <1>1, <1>3, <1>4, LastReports

\* The installer's other actions make nothing.
LEMMA PlainFiles ==
  ASSUME StorageInv, NEW p \in Attempts,
         \/ Storage!Look(p) \/ Storage!Mount(p) \/ Storage!Fresh(p) \/ Storage!Readonly(p) \/ Storage!Verify(p)
         \/ Storage!Native(p)
  PROVE  Filed /\ Reports(p)
<1>1. task[p] \in Active /\ task[p] # "complete" /\ "intent" \in Pieces
  BY StorageSets DEF Storage!Look, Storage!Mount, Storage!Fresh, Storage!Readonly, Storage!Verify, Storage!Native, Pieces
<1>2. \/ \E after \in {fs, Storage!Settled} : Storage!Last(p, "go", after)
      \/ fs' = fs /\ task' = task
  BY DEF Storage!Look, Storage!Mount, Storage!Fresh, Storage!Readonly, Storage!Verify, Storage!Native
<1>3. CASE \E after \in {fs, Storage!Settled} : Storage!Last(p, "go", after)
  <2>1. PICK after \in {fs, Storage!Settled} : Storage!Last(p, "go", after)
    BY <1>3
  <2>2. fs' = after
    BY <2>1 DEF Storage!Last
  <2>3. Filed
    BY <1>1, <2>1, <2>2, CallsFile
  <2> QED
    BY <1>1, <2>1, <2>3, LastReports
<1>4. CASE fs' = fs /\ task' = task
  BY <1>1, <1>4, CallsFile DEF Reports
<1> QED
  BY <1>2, <1>3, <1>4

LEMMA StopFiles ==
  ASSUME StorageInv, NEW p \in Attempts,
         \/ Storage!Start(p) \/ Storage!Fail(p) \/ Storage!Undo(p) \/ Storage!Kill(p) \/ Storage!Spawn(p)
  PROVE  Filed /\ Reports(p)
<1>1. "intent" \in Pieces
  BY DEF Pieces
<1>2. fs' = fs \/ fs' = Storage!Settled
  BY DEF Storage!Start, Storage!Fail, Storage!Undo, Storage!Kill, Storage!Spawn
<1>3. Filed
  BY <1>1, <1>2, CallsFile
<1>4. \/ task' = task
      \/ \E to \in {"look", "undo", "failed"} : task[p] # "done" /\ task' = [task EXCEPT ![p] = to]
  <2>1. CASE Storage!Start(p)
    BY <2>1 DEF Storage!Start
  <2>2. CASE Storage!Fail(p)
    <3>1. task[p] # "done"
      BY <2>2, StorageSets DEF Storage!Fail
    <3>2. \E to \in {"undo", "failed"} : task' = [task EXCEPT ![p] = to]
      BY <2>2 DEF Storage!Fail
    <3> QED
      BY <3>1, <3>2
  <2>3. CASE Storage!Undo(p)
    BY <2>3 DEF Storage!Undo
  <2>4. CASE Storage!Kill(p)
    BY <2>4, StorageSets DEF Storage!Kill
  <2>5. CASE Storage!Spawn(p)
    BY <2>5 DEF Storage!Spawn
  <2> QED
    BY <2>1, <2>2, <2>3, <2>4, <2>5
<1> QED
  BY <1>3, <1>4 DEF Reports

\* What goes on beside the installers.
LEMMA OtherFiles ==
  ASSUME StorageInv, Storage!MountUnit \/ Storage!Remount \/ Storage!Provision \/ Storage!ChildEnds
                     \/ UNCHANGED <<vars, storage>>
  PROVE  (Filed \/ fs' = fs) /\ task' = task
<1>1. {"intent", "bank.json", "bank.lock"} \subseteq Pieces
      /\ Storage!Parent("bank.json") = "bank" /\ Storage!Parent("bank.lock") = "bank"
  BY PieceFacts DEF Pieces
<1>2. CASE Storage!Provision
  <2>0. task' = task
    BY <1>2 DEF Storage!Provision
  <2> DEFINE c == child.of  json == <<"bank.json", c>>
  <2>1. \/ (\A e \in fs.now : e.dir # "bank") /\ fs' = Created(fs, "bank", "bank.json", json)
        \/ fs' = Written(fs, json) \/ fs' = FileSynced(fs, json) \/ fs' = Synced(fs, "bank")
        \/ fs' = Enter(fs, "bank", "bank.lock", <<"bank.lock", c>>)
    BY <1>2, StorageFiles DEF Storage!Provision
  <2>2. c \in Attempts
    BY <1>2, CommandOf DEF Storage!Provision
  <2>3. (\A e \in fs.now : e.dir # "bank") => Absent(fs, "bank", "bank.json")
    BY DEF Absent, Named
  <2> HIDE DEF c
  <2>4. CASE fs' = Enter(fs, "bank", "bank.lock", <<"bank.lock", c>>)
    <3> DEFINE t == "bank.lock"
    <3>1. t \in Pieces /\ t # "intent" /\ fs' = Enter(fs, Storage!Parent(t), t, <<t, c>>)
      BY <1>1, <2>4
    <3> HIDE DEF t
    <3> QED
      BY <2>0, <2>2, <3>1, CallsFile
  <2>5. CASE fs' # Enter(fs, "bank", "bank.lock", <<"bank.lock", c>>)
    <3> DEFINE t == "bank.json"
    <3>1. /\ t \in Pieces
          /\ \/ fs' = Created(fs, Storage!Parent(t), t, <<t, c>>) /\ Absent(fs, Storage!Parent(t), t)
             \/ fs' = Written(fs, <<t, c>>) \/ fs' = FileSynced(fs, <<t, c>>) \/ \E d : fs' = Synced(fs, d)
      BY <1>1, <2>1, <2>3, <2>5
    <3> HIDE DEF t
    <3> QED
      BY <2>0, <2>2, <3>1, CallsFile
  <2> QED
    BY <2>4, <2>5
<1>3. CASE Storage!MountUnit \/ Storage!Remount \/ Storage!ChildEnds \/ UNCHANGED <<vars, storage>>
  BY <1>3 DEF Storage!MountUnit, Storage!Remount, Storage!ChildEnds, vars, storage
<1> QED
  BY <1>2, <1>3

LEMMA StorageForward ==
  ASSUME program = "storage", program' = "storage", StorageInv, StorageInv', Filed
  PROVE  /\ Begun \subseteq Begun'
         /\ Begun' # Begun => Begun = {} /\ ~Accepted'
         /\ Accepted => Accepted'
<1>0. /\ Proper(fs) /\ Proper(fs') /\ "intent" \in Pieces /\ "complete" \in Pieces
      /\ Storage!Parent("intent") = "base" /\ Storage!Parent("complete") = "base"
  BY PieceFacts DEF StorageInv, Pieces
<1>1. (\A q \in Attempts : q \in Begun <=> Piece("intent", q) \in fs.now) /\ Begun \subseteq Attempts
  BY <1>0, StorageBegun DEF Begun
<1>2. (\A q \in Attempts : q \in Begun' <=> Piece("intent", q) \in fs'.now) /\ Begun' \subseteq Attempts
  BY <1>0, StorageBegun DEF Begun
<1>3. PICK t \in Pieces, p \in Attempts : \E M \in SUBSET {<<t, p>>} :
        Moved(M) /\ \A x \in fs'.torn : x \in fs.torn \/ Absent(fs, Storage!Parent(x[1]), x[1])
  BY DEF Filed
<1>4. PICK M \in SUBSET {<<t, p>>} :
        Moved(M) /\ \A x \in fs'.torn : x \in fs.torn \/ Absent(fs, Storage!Parent(x[1]), x[1])
  BY <1>3
<1>5. M \subseteq Pieces \X Attempts
  BY <1>4
<1>6. \A u \in Pieces, q \in Attempts : Piece(u, q) \in fs.now => Piece(u, q) \in fs'.now
  BY <1>4, PieceFacts DEF Moved
<1>7. Begun \subseteq Begun'
  BY <1>0, <1>1, <1>2, <1>6
<1>8. ASSUME Begun' # Begun PROVE Begun = {} /\ ~Accepted'
  <2>1. PICK q \in Attempts : Piece("intent", q) \in fs'.now /\ Piece("intent", q) \notin fs.now
    BY <1>1, <1>2, <1>7, <1>8
  <2>2. Absent(fs, "base", "intent")
    BY <1>4, <2>1 DEF Moved
  <2>3. \A r \in Attempts : Piece("intent", r) \notin fs.now
    BY <1>0, <2>2, PieceNamed
  <2>4. ASSUME Storage!Passes(fs') PROVE FALSE
    <3>1. PICK r \in Attempts : Piece("complete", r) \in fs'.now /\ Sure(fs', "intent", r)
      BY <1>0, <2>4, PassesIs DEF Banks, Mounts, Stores
    <3>2. Piece("intent", r) \in fs'.now
      BY <3>1 DEF Sure, Kept
    <3>3. <<"intent", r>> \in M
      BY <1>0, <1>4, <1>5, <2>3, <3>2, NotMadeStays
    <3>4. <<"complete", r>> \notin M
      BY <1>4, <3>3
    <3>5. Piece("complete", r) \in fs.now
      BY <1>0, <1>4, <1>5, <3>1, <3>4, NotMadeStays
    <3>6. Sure(fs, "intent", r)
      BY <1>0, <3>5, EarlierFacts DEF Proper, InOrder, Made
    <3> QED
      BY <2>3, <3>6 DEF Sure, Kept
  <2> QED
    BY <1>1, <2>3, <2>4 DEF Accepted
<1>9. ASSUME Storage!Passes(fs) PROVE Storage!Passes(fs')
  <2>1. PICK q \in Attempts : Piece("complete", q) \in fs.now /\ <<"complete", q>> \notin fs.torn
    BY <1>0, <1>9, PassesIs
  <2>2. Piece("complete", q) \in fs'.now
    BY <1>0, <1>6, <2>1
  <2>3. ~Absent(fs, "base", "complete")
    BY <1>0, <2>1, PieceNamed
  <2>4. <<"complete", q>> \notin fs'.torn
    <3>1. <<"complete", q>>[1] = "complete"
      OBVIOUS
    <3> QED
      BY <1>0, <1>4, <2>1, <2>3, <3>1
  <2>5. \A s \in Banks : Sure(fs', s, q)
    <3>1. Earlier("complete") = Banks
      BY DEF Earlier
    <3> QED
      BY <1>0, <2>2, <3>1 DEF Proper, InOrder, Made
  <2> QED
    BY <1>0, <2>2, <2>4, <2>5, PassesIs
<1>10. Accepted => Accepted'
  BY <1>9 DEF Accepted
<1> QED
  BY <1>7, <1>8, <1>10

\* What has been named, and whether it passes, is a matter of the entries and the torn files.
LEMMA SameNames ==
  ASSUME program = "storage", program' = "storage", fs'.now = fs.now, fs'.torn = fs.torn
  PROVE  Begun' = Begun /\ (Accepted' <=> Accepted)
<1>1. Begun' = Begun
  BY DEF Begun
<1>2. /\ \A d, n : Named(fs', d, n) = Named(fs, d, n)
      /\ \A d, n : Absent(fs', d, n) <=> Absent(fs, d, n)
      /\ \A d, n : Whole(fs', d, n) = Whole(fs, d, n)
  BY DEF Named, Absent, Whole
<1>3. Storage!Passes(fs') <=> Storage!Passes(fs)
  BY <1>2, StorageFiles DEF Storage!Passes, Storage!Configured
<1> QED
  BY <1>1, <1>3 DEF Accepted

LEMMA StorageReported ==
  ASSUME program = "storage", program' = "storage", StorageInv, NEW p \in Attempts, Reports(p)
  PROVE  /\ Reported \subseteq Reported'
         /\ Reported' # Reported => Begun' = Begun /\ (Accepted' => Accepted)
<1>1. task \in [Attempts -> Storage!Tasks]
  BY DEF StorageInv, StorageTypes
<1>2. CASE task' = task
  BY <1>2 DEF Reported
<1>3. CASE task' # task
  <2>1. PICK to : /\ task[p] # "done" /\ task' = [task EXCEPT ![p] = to]
                  /\ to = "done" => fs'.now = fs.now /\ fs'.torn = fs.torn
    BY <1>3 DEF Reports
  <2>2. Reported \subseteq Reported'
    BY <1>1, <2>1 DEF Reported
  <2>3. Reported' # Reported => to = "done"
    BY <1>1, <2>1 DEF Reported
  <2> QED
    BY <2>1, <2>2, <2>3, SameNames
<1> QED
  BY <1>2, <1>3

LEMMA StorageLoss ==
  ASSUME StorageInv, StorageInv', Storage!PowerLoss
  PROVE  Backward
<1>1. fs' \in Crashed(fs) /\ Proper(fs) /\ Proper(fs')
  BY StorageFiles DEF Storage!PowerLoss, StorageInv
<1>2. task' = [q \in Attempts |-> IF task[q] \in Storage!Running THEN "failed" ELSE task[q]]
  BY DEF Storage!PowerLoss
<1>3. ASSUME NEW q \in Attempts, Piece("intent", q) \in fs'.now PROVE Piece("intent", q) \in fs.now
  <2>1. Piece("intent", q) \in fs.now \/ Piece("intent", q) \in fs.disk
    BY <1>1, <1>3, CrashedIs
  <2>2. Piece("intent", q).name # "lost+found"
    BY PieceFacts
  <2> QED
    BY <1>1, <2>1, <2>2 DEF Proper, Formed
<1>4. Begun' \subseteq Begun
  BY <1>1, <1>3, StorageBegun DEF Begun
<1>5. Reported' = Reported
  <2>1. \A q \in Attempts : task'[q] = "done" <=> task[q] = "done"
    BY <1>2, StorageSets
  <2> QED
    BY <2>1 DEF Reported
<1> QED
  BY <1>4, <1>5 DEF Backward

LEMMA StorageOnce ==
  ASSUME program = "storage", program' = "storage", StorageInv, StorageInv', Sane, Sane',
         Storage!Next \/ UNCHANGED <<vars, storage>>
  PROVE  [Once!Next]_Once!vars
<1>1. CASE Storage!PowerLoss
  BY <1>1, StorageLoss, BackwardIsOnce
<1>2. ASSUME NEW p \in Attempts, Storage!Installer(p) PROVE [Once!Next]_Once!vars
  <2>1. Filed /\ Reports(p)
    BY <1>2, RecordFiles, MakeFiles, MountFiles, ReapFiles, PlainFiles, StopFiles DEF Storage!Installer
  <2>2. Forward
    BY <2>1, StorageForward, StorageReported DEF Forward
  <2> QED
    BY <2>2, ForwardIsOnce
<1>3. CASE Storage!MountUnit \/ Storage!Remount \/ Storage!Provision \/ Storage!ChildEnds \/ UNCHANGED <<vars, storage>>
  <2>1. (Filed \/ fs' = fs) /\ task' = task
    BY <1>3, OtherFiles
  <2>2. Reported' = Reported
    BY <2>1 DEF Reported
  <2>3. CASE Filed
    <3>1. Forward
      BY <2>2, <2>3, StorageForward DEF Forward
    <3> QED
      BY <3>1, ForwardIsOnce
  <2>4. CASE fs' = fs
    <3>1. Forward
      BY <2>2, <2>4, SameNames DEF Forward
    <3> QED
      BY <3>1, ForwardIsOnce
  <2> QED
    BY <2>1, <2>3, <2>4
<1> QED
  BY <1>1, <1>2, <1>3 DEF Storage!Next

\* The three together.
Installing ==
  /\ program \in {"observer", "supply", "storage"}
  /\ program = "observer" => BootInv
  /\ program = "supply"   => SupplyInv
  /\ program = "storage"  => StorageInv

LEMMA InstallingBegins == ASSUME MCInit PROVE Installing /\ Once!Init
<1>1. CASE program = "observer" /\ Init
  <2>1. fs = Empty /\ \A p \in Attempts : task[p] # "done"
    BY <1>1 DEF Init
  <2>2. fs.now = {}
    BY <2>1 DEF Empty
  <2>3. Begun = {} /\ Reported = {}
    BY <2>1, <2>2 DEF Begun, Reported
  <2>4. BootInv
    BY <1>1, BootStart0
  <2>5. Sane
    BY <1>1, <2>4, BootSane
  <2> QED
    BY <1>1, <2>3, <2>4, <2>5 DEF Installing, Once!Init, Sane
<1>2. CASE program = "supply" /\ Supply!Init
  <2>1. fs = Empty /\ \A p \in Attempts : task[p] # "done"
    BY <1>2, SupplyFiles DEF Supply!Init
  <2>2. fs.now = {}
    BY <2>1 DEF Empty
  <2>3. Begun = {} /\ Reported = {}
    BY <2>1, <2>2 DEF Begun, Reported
  <2>4. SupplyInv
    BY <1>2, SupplyBegins
  <2>5. Sane
    BY <1>2, <2>4, SupplySane
  <2> QED
    BY <1>2, <2>3, <2>4, <2>5 DEF Installing, Once!Init, Sane
<1>3. CASE program = "storage" /\ Storage!Init
  <2>1. StorageInv
    BY <1>3, StorageBegins
  <2>2. \A p \in Attempts : task[p] = "off"
    BY <1>3 DEF Storage!Init
  <2>3. Begun = {}
    <3>1. \A p \in Attempts : Piece("intent", p) \notin fs.now
      BY <2>1, <2>2 DEF StorageInv, Keeps, Arrived, Made, Pieces
    <3> QED
      BY <2>1, <3>1, StorageBegun DEF Begun, StorageInv
  <2>4. Reported = {}
    BY <2>2 DEF Reported
  <2>5. Sane
    BY <1>3, <2>1, StorageSane
  <2> QED
    BY <1>3, <2>1, <2>3, <2>4, <2>5 DEF Installing, Once!Init, Sane
<1> QED
  BY <1>1, <1>2, <1>3 DEF MCInit

LEMMA InstallingIsSane == Installing => Sane
  BY BootSane, SupplySane, StorageSane DEF Installing

LEMMA InstallingStep ==
  ASSUME Installing, [MCNext]_<<program, vars, supply, storage>>
  PROVE  Installing'
<1>1. program' = program
  BY DEF MCNext
<1>2. CASE program = "observer"
  <2>1. Next \/ UNCHANGED vars
    BY <1>2 DEF MCNext
  <2>2. BootInv'
    BY <1>2, <2>1, BootStep DEF Installing
  <2> QED
    BY <1>1, <1>2, <2>2 DEF Installing
<1>3. CASE program = "supply"
  <2>1. Supply!Next \/ UNCHANGED <<vars, supply>>
    BY <1>3 DEF MCNext
  <2>2. SupplyInv'
    BY <1>3, <2>1, SupplyStep DEF Installing
  <2> QED
    BY <1>1, <1>3, <2>2 DEF Installing
<1>4. CASE program = "storage"
  <2>1. Storage!Next \/ UNCHANGED <<vars, storage>>
    BY <1>4 DEF MCNext
  <2>2. StorageInv'
    BY <1>4, <2>1, StorageStep DEF Installing
  <2> QED
    BY <1>1, <1>4, <2>2 DEF Installing
<1> QED
  BY <1>2, <1>3, <1>4 DEF Installing

LEMMA InstallingIsOnce ==
  ASSUME Installing, Installing', Sane, Sane', [MCNext]_<<program, vars, supply, storage>>
  PROVE  [Once!Next]_Once!vars
<1>1. program' = program
  BY DEF MCNext
<1>2. CASE program = "observer"
  <2>1. Next \/ UNCHANGED vars
    BY <1>2 DEF MCNext
  <2> QED
    BY <1>1, <1>2, <2>1, BootOnce DEF Installing
<1>3. CASE program = "supply"
  <2>1. Supply!Next \/ UNCHANGED <<vars, supply>>
    BY <1>3 DEF MCNext
  <2> QED
    BY <1>1, <1>3, <2>1, SupplyOnce DEF Installing
<1>4. CASE program = "storage"
  <2>1. Storage!Next \/ UNCHANGED <<vars, storage>>
    BY <1>4 DEF MCNext
  <2> QED
    BY <1>1, <1>4, <2>1, StorageOnce DEF Installing
<1> QED
  BY <1>2, <1>3, <1>4 DEF Installing

\* ImplementsRunsOnce: each of the three begins only when no attempt stands, lets readers accept only what
\* an attempt has made, and keeps both from the moment the attempt reports success, whatever the
\* power does.
THEOREM InstallersRunOnce == MCSpec => ImplementsRunsOnce
<1>1. MCInit => Installing /\ Once!Init
  BY InstallingBegins
<1>2. Installing /\ [MCNext]_<<program, vars, supply, storage>> => Installing'
  BY InstallingStep
<1>3. Installing => Sane
  BY InstallingIsSane
<1>4. Installing /\ Installing' /\ Sane /\ Sane' /\ [MCNext]_<<program, vars, supply, storage>> => [Once!Next]_Once!vars
  BY InstallingIsOnce
<1> QED
  BY <1>1, <1>2, <1>3, <1>4, PTL DEF MCSpec, ImplementsRunsOnce, Once!Spec
===============================================================================
