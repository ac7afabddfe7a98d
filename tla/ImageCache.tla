------------------------------ MODULE ImageCache ------------------------------
(***************************************************************************)
(* The session cache of generated images (studio/services/inference/           *)
(* disk_cache.py): an LRU index under a lock, encrypted files beside it, and a  *)
(* byte count that is kept, not computed.  The reader thread of the daemon puts *)
(* images, request threads get them, and timer threads of api/lifespan.py flush *)
(* the cache half a minute after the last browser has left the event bus.       *)
(*                                                                             *)
(* What is done under the lock is one step; file I/O outside it is another.     *)
(* Bytes of images are abstracted to the size of the file.  Subscriptions and   *)
(* their hooks run on the event loop, so each is one step.                      *)
(***************************************************************************)
EXTENDS Integers, FiniteSets, SequencesExt

CONSTANTS
  Keys,       \* (task, filename)
  SizesOf(_), \* the sizes that the encrypted image of a key may have
  Files,      \* names of files: random ids, so a name in use is never drawn again
  MaxCount,   \* SessionCache.max_count
  MaxBytes,   \* SessionCache.max_bytes
  Requests,   \* the request threads that fetch images
  MaxConn,    \* bound on the browsers connected
  Timers,     \* timer threads alive at once
  NoTimer,
  MaxDrift    \* bound on how far the byte count may go wrong

ASSUME SizeAssumption  == \A k \in Keys : SizesOf(k) \subseteq Nat \ {0}
ASSUME LimitAssumption == MaxCount \in Nat /\ MaxBytes \in Nat /\ MaxDrift \in Nat
ASSUME BrowserAssumption == MaxConn \in Nat
ASSUME TimerAssumption == NoTimer \notin Timers

VARIABLES
  index,   \* the entries, oldest first
  bytes,   \* _bytes_total
  disk,    \* the files in the session directory
  put,     \* the file written by put and not yet in the index
  get,     \* per request: the entry that get_image has looked up and not yet read
  conn,    \* how many queues are subscribed to the event bus
  held,    \* _disconnect_timer["t"]
  timer    \* per timer thread: where it is in _flush_cache

cacheVars  == <<index, bytes, disk>>
threadVars == <<put, get>>
busVars    == <<conn, held>>
vars == <<index, bytes, disk, put, get, conn, held, timer>>

Entry  == UNION {[name : Files, key : {k}, size : SizesOf(k)] : k \in Keys}
NoFile == [name |-> "none"]

Init ==
  /\ index = <<>> /\ bytes = 0
  /\ disk = {}
  /\ put = NoFile
  /\ get = [r \in Requests |-> NoFile]
  /\ conn = 0 /\ held = NoTimer
  /\ timer = [i \in Timers |-> "free"]

--------------------------------------------------------------------------------
(* The index *)

\* The bytes of a set of entries, counted one by one: a sum without recursion.
BytesOf(e) == {e} \X (1..e.size)
Total(S)   == Cardinality(UNION {BytesOf(e) : e \in S})

Keyed(k)    == {e \in Range(index) : e.key = k}
Position(k) == CHOOSE i \in DOMAIN index : index[i].key = k

\* Variant: the old entry of the key stays.
OldStays(k) == index

\* _index.pop(key, None)
Without(k) == IF Keyed(k) = {} THEN index ELSE RemoveAt(index, Position(k))

\* How far the byte count is from the sizes it stands for.
Drift == bytes - Total(Range(index))

\* Variant: the count of images alone is kept.
FitsByCount(s, n) == Len(s) <= MaxCount

Fits(s, n) == Len(s) <= MaxCount /\ n <= MaxBytes

\* _enforce_limits_locked: how many of the oldest entries of s have to go.
Oldest(s, i)   == Range(SubSeq(s, 1, i))
Enough(s, n, i) == i = Len(s) \/ Fits(SubSeq(s, i + 1, Len(s)), n - Total(Oldest(s, i)))

Excess(s, n) ==
  CHOOSE i \in 0..Len(s) : Enough(s, n, i) /\ \A j \in 0..(i - 1) : ~Enough(s, n, j)

--------------------------------------------------------------------------------
(* put, on the reader thread of the daemon proxy *)

NamesInUse == {e.name : e \in Range(index) \cup disk \cup {put} \cup Range(get)}

\* The encrypted file.  A write that finds no directory, for a flush is at it, fails
\* and changes nothing.
PutWrite(k, size) ==
  /\ put = NoFile /\ Files \ NamesInUse # {}
  /\ put' = [name |-> CHOOSE f \in Files : f \notin NamesInUse, key |-> k, size |-> size]
  /\ disk' = disk \cup {put'}
  /\ UNCHANGED <<index, bytes, get, busVars, timer>>

\* Variants: the old entry of the key stays counted; its file is left.
StillCounted(k) == 0
LeftOnDisk(k)   == {}

OldSize(k)  == Total(Keyed(k))
Replaced(k) == Keyed(k)

PutIndex ==
  /\ put # NoFile
  /\ LET s == Append(Without(put.key), put)
         n == bytes - OldSize(put.key) + put.size
         x == Excess(s, n)
     IN  /\ index' = SubSeq(s, x + 1, Len(s))
         /\ bytes' = n - Total(Oldest(s, x))
         /\ disk' = disk \ (Replaced(put.key) \cup Oldest(s, x))
  /\ put' = NoFile
  /\ UNCHANGED <<get, busVars, timer>>

--------------------------------------------------------------------------------
(* get_image, on request threads *)

\* A hit is the youngest entry from now on.
GetLookup(r, k) ==
  /\ get[r] = NoFile
  /\ \E e \in Keyed(k) :
       /\ index' = Append(Without(k), e)
       /\ get' = [get EXCEPT ![r] = e]
  /\ UNCHANGED <<bytes, disk, put, busVars, timer>>

\* The file is read without the lock.
GetRead(r) ==
  /\ get[r] # NoFile /\ get[r] \in disk
  /\ get' = [get EXCEPT ![r] = NoFile]
  /\ UNCHANGED <<cacheVars, put, busVars, timer>>

\* FileNotFoundError: whatever entry the key has by now is dropped, and the size of the
\* one looked up is taken off.  A file that is gone stays gone, so the failed read and
\* the lock that follows it are one step.
GetGone(r) ==
  /\ get[r] # NoFile /\ get[r] \notin disk
  /\ index' = Without(get[r].key)
  /\ bytes' = bytes - get[r].size
  /\ Drift' \in -MaxDrift..MaxDrift
  /\ get' = [get EXCEPT ![r] = NoFile]
  /\ UNCHANGED <<disk, put, busVars, timer>>

--------------------------------------------------------------------------------
(* The event bus and its hooks, on the event loop *)

\* Variant: the hook cancels the timer and goes on holding it.
KeepsHeld == held

AfterFirst == NoTimer

\* _on_first_subscribe cancels the timer, which has no effect on one that has fired.
Subscribe ==
  /\ conn < MaxConn
  /\ conn' = conn + 1
  /\ IF conn = 0 /\ held # NoTimer
       THEN /\ timer' = [timer EXCEPT ![held] = IF @ = "waiting" THEN "free" ELSE @]
            /\ held' = AfterFirst
       ELSE UNCHANGED <<held, timer>>
  /\ UNCHANGED <<cacheVars, threadVars>>

\* Variant: any browser that leaves starts the timer.
AnyLeaves == TRUE

LastLeaves == conn = 1

\* _on_last_unsubscribe
Unsubscribe ==
  /\ conn > 0
  /\ conn' = conn - 1
  /\ IF LastLeaves /\ held = NoTimer
       THEN /\ \E i \in Timers : timer[i] = "free"
            /\ held' = CHOOSE i \in Timers : timer[i] = "free"
            /\ timer' = [timer EXCEPT ![held'] = "waiting"]
       ELSE UNCHANGED <<held, timer>>
  /\ UNCHANGED <<cacheVars, threadVars>>

--------------------------------------------------------------------------------
(* _flush_cache, on a timer thread *)

Goto(i, pc) == timer' = [timer EXCEPT ![i] = pc]

Fire(i) ==
  /\ timer[i] = "waiting"
  /\ Goto(i, IF index = <<>> THEN "reset" ELSE "clear")
  /\ UNCHANGED <<cacheVars, threadVars, busVars>>

\* clear_all: the index under the lock, then the directory without it.
ClearIndex(i) ==
  /\ timer[i] = "clear" /\ Goto(i, "rmtree")
  /\ index' = <<>> /\ bytes' = 0
  /\ UNCHANGED <<disk, threadVars, busVars>>

RemoveTree(i) ==
  /\ timer[i] = "rmtree" /\ Goto(i, "reset")
  /\ disk' = {}
  /\ UNCHANGED <<index, bytes, threadVars, busVars>>

\* The last line of the flush forgets the timer, its own or a newer one.
ForgetTimer(i) ==
  /\ timer[i] = "reset" /\ Goto(i, "free")
  /\ held' = NoTimer
  /\ UNCHANGED <<cacheVars, threadVars, conn>>

--------------------------------------------------------------------------------
Put      == (\E k \in Keys : \E size \in SizesOf(k) : PutWrite(k, size)) \/ PutIndex
Proceed(r) == GetRead(r) \/ GetGone(r)
Get(r)   == (\E k \in Keys : GetLookup(r, k)) \/ Proceed(r)
Bus      == Subscribe \/ Unsubscribe
Flush(i) == Fire(i) \/ ClearIndex(i) \/ RemoveTree(i) \/ ForgetTimer(i)

Next ==
  \/ Put
  \/ \E r \in Requests : Get(r)
  \/ Bus
  \/ \E i \in Timers : Flush(i)

Spec == Init /\ [][Next]_vars

\* A timer thread that waits fires, and one that has fired goes on.
FairSpec == Spec /\ \A i \in Timers : WF_vars(Flush(i))

--------------------------------------------------------------------------------
(* Properties *)

\* Type invariant; a key has one entry, and the number of images is within its cap
\* even when the byte count is wrong.
CacheTypeOK ==
  /\ index \in Seq(Entry) /\ Len(index) <= MaxCount
  /\ \A i, j \in DOMAIN index : index[i].key = index[j].key => i = j
  /\ bytes \in Int
  /\ disk \subseteq Entry /\ put \in Entry \cup {NoFile}
  /\ get \in [Requests -> Entry \cup {NoFile}]
  /\ conn \in 0..MaxConn /\ held \in Timers \cup {NoTimer}
  /\ timer \in [Timers -> {"free", "waiting", "clear", "rmtree", "reset"}]

\* While the byte count is right, the cache is within its cap of bytes.
WithinBytes == Drift = 0 => Total(Range(index)) <= MaxBytes

\* The byte count follows the index through puts, replacements, evictions, flushes and
\* reads of dead entries.  Only a read whose entry another thread has dropped
\* meanwhile (evicted, replaced or flushed) falsifies it: get_image takes off a size
\* that was taken off before.  The next flush sets it right.
OnlyLostReadsDrift ==
  [][Drift' \in {0, Drift} \/ \E r \in Requests :
       get[r] # NoFile /\ get'[r] = NoFile /\ get[r] \notin disk /\ get[r] \notin Range(index)]_vars

\* Files of the session directory that nobody knows.
Stray == {e \in disk : e \notin Range(index) /\ e # put}

\* No file outlives its entry: what leaves the index is deleted with it, or by the flush
\* under way, except that a read that lost its file drops the newer entry of its key.
NothingLeftBehind ==
  [][\A e \in Stray' \ Stray :
       \/ \E i \in Timers : timer'[i] = "rmtree"
       \/ \E r \in Requests : get[r] # NoFile /\ get'[r] = NoFile /\ get[r] \notin disk /\ get[r].key = e.key]_vars

\* The timer that the hooks know of never runs down beside a connected browser, so a
\* browser that comes back in time keeps its images ("on reconnect, the timer is
\* canceled"), unless the end of an earlier flush has made the hooks forget it.
HeldTimerIsAlone == held # NoTimer /\ timer[held] = "waiting" => conn = 0

\* When the last browser leaves for good, the images are flushed some time after.
DepartureFlushes ==
  [](conn # 0 /\ index # <<>> => (<>[](conn = 0) => <>(conn = 0 /\ index = <<>>)))
================================================================================
