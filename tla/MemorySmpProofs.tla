-------------------------- MODULE MemorySmpProofs --------------------------
(***************************************************************************)
(* Processors never share memory, for any number of them, any word size,   *)
(* overhead, boot layout and set of requests.                              *)
(*                                                                         *)
(* The invariant has four parts beside that of MemoryProofs.  One          *)
(* processor is between lock and unlock (OneInside).  Containers are told  *)
(* apart by their addresses (Headers), so that the container a processor   *)
(* has selected is one block, also after the lock is released.  What a     *)
(* processor has found under the lock is still there when it changes the   *)
(* lists (Found).  Every block in use that callers may own is backed and   *)
(* claimed by one processor at most (Claimed).                             *)
(*                                                                         *)
(* Of the other processors a step may change neither what they have found  *)
(* nor what they own (Undisturbed): it takes from the lists only what its  *)
(* own processor claims, and adds only blocks that nobody can mistake for  *)
(* one of theirs (Settled).                                                *)
(***************************************************************************)
EXTENDS MemorySmp, MemoryProofs

\* Processors that search only while their request is clear of the near fits.
ClearStep(c) == Step(c) /\ (pc[c] = "search" => Clear(call[c]))

ClearSmpNext == \E c \in CPUs : \/ \E r \in Requests : CallAlloc(c, r)
                                \/ \E area \in owned[c] \cup {NoArea} : CallFree(c, area)
                                \/ ClearStep(c)

ClearSmpSpec == SmpInit /\ [][ClearSmpNext]_allVars

\* Requests that are clear of them whatever is free.
Plain(r) == r.align = 0 /\ r.size > 0 /\ r.size + OVERHEAD < W

-----------------------------------------------------------------------------
(* The invariant.                                                          *)

Critical == {"search", "take", "find", "give back", "unlock", "refuse"}
Outside == {"idle", "lock alloc", "lock free", "read", "stopped"}

SmpTypeOK == /\ lock_memory \in {0, 1}
             /\ pc \in [CPUs -> Critical \cup Outside]
             /\ DOMAIN call = CPUs
             /\ DOMAIN at = CPUs
             /\ DOMAIN owned = CPUs

OneInside ==
    \A c \in CPUs : pc[c] \in Critical =>
        /\ lock_memory = 1
        /\ \A d \in CPUs : pc[d] \in Critical => c = d

\* The blocks that callers may own.
Mine == Freeable(used) \ BootUsed

Freeing(c) == pc[c] \in {"lock free", "find", "give back"}

HasSelected(c) == pc[c] \in {"unlock", "read"} /\ at[c] # 0

\* b is in the hands of c: owned, about to be freed, or selected for it.
Claims(c, b) == \/ AreaOf(b) \in owned[c]
                \/ Freeing(c) /\ call[c] = AreaOf(b)
                \/ HasSelected(c) /\ at[c] = b.hdr

Found(c) ==
    /\ pc[c] \in {"lock alloc", "search", "take"} => call[c] \in Requests
    /\ pc[c] = "take" => /\ Clear(call[c])
                         /\ \E b \in free : b.hdr = at[c] /\ FirstFit(b, call[c])
    /\ pc[c] = "give back" => \E b \in Mine : b.hdr = at[c] /\ AreaOf(b) = call[c]
    /\ pc[c] = "read" => at[c] # 0

Backed(c) ==
    /\ \A area \in owned[c] : \E b \in Mine : AreaOf(b) = area
    /\ Freeing(c) => call[c] \notin owned[c]
    /\ Freeing(c) /\ call[c] # NoArea => \E b \in Mine : AreaOf(b) = call[c]
    /\ HasSelected(c) => \E b \in Mine : b.hdr = at[c]

Claimed == /\ \A c \in CPUs : Backed(c)
           /\ \A c, d \in CPUs : \A b \in Mine : Claims(c, b) /\ Claims(d, b) => c = d

SmpInv == /\ IInv
          /\ SmpTypeOK
          /\ OneInside
          /\ Headers(free, used)
          /\ \A c \in CPUs : Found(c)
          /\ Claimed

-----------------------------------------------------------------------------
(* The lock.                                                               *)

Discipline == SmpTypeOK /\ OneInside

LEMMA CriticalOutside == Critical \cap Outside = {}
  BY DEF Critical, Outside

\* c moves and nobody else does.
LEMMA Moved ==
    ASSUME SmpTypeOK, NEW c \in CPUs, NEW to \in Critical \cup Outside,
           pc' = [pc EXCEPT ![c] = to]
    PROVE  /\ pc' \in [CPUs -> Critical \cup Outside]
           /\ pc'[c] = to
           /\ \A d \in CPUs \ {c} : pc'[d] = pc[d]
  BY DEF SmpTypeOK

\* What the functions are defined on.
Defined == DOMAIN call = CPUs /\ DOMAIN at = CPUs /\ DOMAIN owned = CPUs

\* A processor that goes on outside, or from inside to inside, lets nobody in.
LEMMA Onward ==
    ASSUME Discipline, NEW c \in CPUs, NEW to \in Critical \cup Outside,
           pc' = [pc EXCEPT ![c] = to],
           to \in Critical => pc[c] \in Critical,
           lock_memory' = lock_memory, Defined'
    PROVE  Discipline'
  BY Moved DEF Discipline, SmpTypeOK, OneInside, Defined

\* A processor that unlocks is the one that was inside, and leaves.
LEMMA Leaving ==
    ASSUME Discipline, NEW c \in CPUs, NEW to \in Outside, pc[c] \in Critical,
           pc' = [pc EXCEPT ![c] = to],
           lock_memory' = 0, Defined'
    PROVE  Discipline'
  BY Moved, CriticalOutside DEF Discipline, SmpTypeOK, OneInside, Defined

\* A processor that finds the lock free finds nobody inside.
LEMMA Entering ==
    ASSUME Discipline, NEW c \in CPUs, NEW to \in Critical,
           pc' = [pc EXCEPT ![c] = to],
           lock_memory = 0, lock_memory' = 1, Defined'
    PROVE  Discipline'
  BY Moved DEF Discipline, SmpTypeOK, OneInside, Defined

\* The lock does its work whatever the requests, clear of the near fits or not.
LEMMA Disciplined ==
    ASSUME Discipline, NEW c \in CPUs,
           \/ \E r \in Requests : CallAlloc(c, r)
           \/ \E area \in owned[c] \cup {NoArea} : CallFree(c, area)
           \/ Step(c)
    PROVE  Discipline'
<1>1. Defined'
  BY DEF Discipline, SmpTypeOK, Defined, CallAlloc, CallFree, Step, Acquire, Search,
         Take, Find, GiveBack, Unlock, Refuse, Read
<1>2. ASSUME NEW r \in Requests, CallAlloc(c, r) PROVE Discipline'
  BY <1>1, <1>2, Onward DEF CallAlloc, Go, Critical, Outside
<1>3. ASSUME NEW area, CallFree(c, area) PROVE Discipline'
  BY <1>1, <1>3, Onward DEF CallFree, Go, Critical, Outside
<1>4. CASE Acquire(c)
  BY <1>1, <1>4, Entering DEF Acquire, Go, Critical
<1>5. CASE Search(c)
  BY <1>1, <1>5, Onward DEF Search, Go, Critical, Outside
<1>6. CASE Take(c)
  BY <1>1, <1>6, Onward DEF Take, Go, Critical, Outside
<1>7. CASE Find(c)
  BY <1>1, <1>7, Onward DEF Find, Go, Critical, Outside
<1>8. CASE GiveBack(c)
  BY <1>1, <1>8, Onward DEF GiveBack, Go, Critical, Outside
<1>9. CASE Unlock(c)
  BY <1>1, <1>9, Leaving DEF Unlock, Go, Critical, Outside
<1>10. CASE Refuse(c)
  BY <1>1, <1>10, Leaving DEF Refuse, Go, Critical, Outside
<1>11. CASE Read(c)
  BY <1>1, <1>11, Onward DEF Read, Go, Critical, Outside
<1> QED BY <1>2, <1>3, <1>4, <1>5, <1>6, <1>7, <1>8, <1>9, <1>10, <1>11 DEF Step

-----------------------------------------------------------------------------
(* One processor moves: what the others have found and own stays theirs.   *)

\* Only c's own variables change.
Alone(c) == \A d \in CPUs \ {c} : /\ pc'[d] = pc[d] /\ call'[d] = call[d]
                                  /\ at'[d] = at[d] /\ owned'[d] = owned[d]

\* The blocks callers own, and what is known of them.
LEMMA MineSound ==
    ASSUME Consistent(free, used), NEW b \in Mine
    PROVE  b \in used /\ b.freeable /\ Sound(b) /\ b.size > 0 /\ AreaOf(b) # NoArea
<1>1. b \in used /\ b.freeable /\ b.size > 0
  BY DEF Mine, Freeable, Consistent, Usable
<1> QED BY <1>1, ConsistentSound DEF AreaOf, NoArea

\* A block is known by its area and by its container.
LEMMA MineOnce ==
    ASSUME Consistent(free, used), Headers(free, used), NEW b \in Mine, NEW x \in Mine,
           AreaOf(x) = AreaOf(b) \/ x.hdr = b.hdr
    PROVE  x = b
<1>1. b \in used /\ b.freeable /\ x \in used
  BY MineSound
<1>2. CASE AreaOf(x) = AreaOf(b)
  BY <1>1, <1>2, AreaOnce
<1>3. CASE x.hdr = b.hdr
  BY <1>1, <1>3 DEF Headers, OwnHeaders
<1> QED BY <1>2, <1>3

\* The container a processor has selected is one block.
LEMMA AtOne ==
    ASSUME Headers(free, used), NEW b \in free \cup used, NEW x \in At(b.hdr)
    PROVE  x = b
  BY DEF At, Headers, OwnHeaders

\* What a processor claims is backed by a block that callers may own.
LEMMA ClaimBacked ==
    ASSUME NEW c, Backed(c), NEW area, area # NoArea,
           area \in owned[c] \/ (Freeing(c) /\ call[c] = area)
    PROVE  \E b \in Mine : AreaOf(b) = area /\ Claims(c, b)
  BY DEF Backed, Claims

\* What a step of c leaves of the lists: it takes away only what c claims, and
\* adds only blocks no other block may be mistaken for.
Settled(c) ==
    /\ Consistent(free', used') /\ Headers(free', used')
    /\ \A b \in Mine : b \in Mine' \/ Claims(c, b)
    /\ \A b \in Mine : b \in Mine' /\ Claims(c, b)' => Claims(c, b)

\* The claims of the others are those they had.
LEMMA OthersClaim ==
    ASSUME SmpInv, NEW c \in CPUs, Alone(c), Settled(c), NEW d \in CPUs \ {c},
           NEW b \in Mine', Claims(d, b)'
    PROVE  b \in Mine /\ Claims(d, b)
<1>1. pc'[d] = pc[d] /\ call'[d] = call[d] /\ at'[d] = at[d] /\ owned'[d] = owned[d]
  BY DEF Alone
<1>2. Claims(d, b)
  BY <1>1 DEF Claims, Freeing, HasSelected
<1>3. b \in used' /\ b.freeable /\ AreaOf(b) # NoArea
  <2>1. b \in used' /\ b.freeable
    BY DEF Mine, Freeable
  <2>2. b.size > 0
    BY <2>1 DEF Settled, Consistent, Usable
  <2> QED BY <2>1, <2>2 DEF AreaOf, NoArea
<1>4. PICK x \in Mine : Claims(d, x) /\ (AreaOf(x) = AreaOf(b) \/ x.hdr = b.hdr)
  <2>1. Backed(d)
    BY DEF SmpInv, Claimed
  <2>2. CASE AreaOf(b) \in owned[d] \/ (Freeing(d) /\ call[d] = AreaOf(b))
    BY <1>3, <2>1, <2>2, ClaimBacked
  <2>3. CASE HasSelected(d) /\ at[d] = b.hdr
    BY <2>1, <2>3 DEF Backed, Claims
  <2> QED BY <1>2, <2>2, <2>3 DEF Claims
<1>5. x \in Mine'
  BY <1>4 DEF Settled, SmpInv, Claimed
<1>6. x = b
  <2>1. x \in used'
    BY <1>5 DEF Mine, Freeable
  <2>2. CASE AreaOf(x) = AreaOf(b)
    BY <1>3, <2>1, <2>2, AreaOnce DEF Settled
  <2>3. CASE x.hdr = b.hdr
    BY <1>3, <2>1, <2>3 DEF Settled, Headers, OwnHeaders
  <2> QED BY <1>4, <2>2, <2>3
<1> QED BY <1>2, <1>4, <1>6

\* When c's own part is right, so is everybody's.
LEMMA Undisturbed ==
    ASSUME SmpInv, NEW c \in CPUs, Alone(c), Settled(c),
           UNCHANGED <<free, used>> \/ pc[c] \in Critical,
           Found(c)', Backed(c)'
    PROVE  (\A d \in CPUs : Found(d)') /\ Claimed'
<1>1. ASSUME NEW d \in CPUs \ {c} PROVE Found(d)'
  <2>1. pc'[d] = pc[d] /\ call'[d] = call[d] /\ at'[d] = at[d]
    BY DEF Alone
  <2>2. Found(d)
    BY DEF SmpInv
  <2>3. CASE UNCHANGED <<free, used>>
    BY <2>1, <2>2, <2>3 DEF Found, Clear, TakesTop, IsHead, FirstFit, Mine, Freeable
  <2>4. CASE pc[c] \in Critical
    <3>1. pc[d] \notin Critical
      BY <2>4 DEF SmpInv, OneInside
    <3>2. pc[d] \notin {"search", "take", "give back"}
      BY <3>1 DEF Critical
    <3> QED BY <2>1, <2>2, <3>2 DEF Found
  <2> QED BY <2>3, <2>4
<1>2. ASSUME NEW d \in CPUs \ {c}, NEW b \in Mine, Claims(d, b)
      PROVE  b \in Mine'
  <2>1. ~Claims(c, b)
    BY <1>2 DEF SmpInv, Claimed
  <2> QED BY <2>1 DEF Settled
<1>3. ASSUME NEW d \in CPUs \ {c} PROVE Backed(d)'
  <2>1. pc'[d] = pc[d] /\ call'[d] = call[d] /\ at'[d] = at[d] /\ owned'[d] = owned[d]
    BY DEF Alone
  <2>2. Backed(d)
    BY DEF SmpInv, Claimed
  <2>3. \A area \in owned[d] : \E b \in Mine' : AreaOf(b) = area
    BY <1>2, <2>2 DEF Backed, Claims
  <2>4. Freeing(d) => call[d] \notin owned[d]
    BY <2>2 DEF Backed
  <2>5. Freeing(d) /\ call[d] # NoArea => \E b \in Mine' : AreaOf(b) = call[d]
    BY <1>2, <2>2 DEF Backed, Claims
  <2>6. HasSelected(d) => \E b \in Mine' : b.hdr = at[d]
    BY <1>2, <2>2 DEF Backed, Claims
  <2>7. (Freeing(d)' <=> Freeing(d)) /\ (HasSelected(d)' <=> HasSelected(d))
    BY <2>1 DEF Freeing, HasSelected
  <2> QED BY <2>1, <2>3, <2>4, <2>5, <2>6, <2>7 DEF Backed
<1>4. ASSUME NEW d \in CPUs, NEW e \in CPUs, NEW b \in Mine', Claims(d, b)', Claims(e, b)'
      PROVE  d = e
  <2>1. CASE d = c /\ e = c
    BY <2>1
  <2>2. CASE d # c /\ e # c
    <3>1. b \in Mine /\ Claims(d, b) /\ Claims(e, b)
      BY <1>4, <2>2, OthersClaim
    <3> QED BY <3>1 DEF SmpInv, Claimed
  <2>3. CASE d # c /\ e = c
    <3>1. b \in Mine /\ Claims(d, b)
      BY <1>4, <2>3, OthersClaim
    <3>2. Claims(c, b)
      BY <1>4, <2>3, <3>1 DEF Settled
    <3> QED BY <2>3, <3>1, <3>2 DEF SmpInv, Claimed
  <2>4. CASE d = c /\ e # c
    <3>1. b \in Mine /\ Claims(e, b)
      BY <1>4, <2>4, OthersClaim
    <3>2. Claims(c, b)
      BY <1>4, <2>4, <3>1 DEF Settled
    <3> QED BY <2>4, <3>1, <3>2 DEF SmpInv, Claimed
  <2> QED BY <2>1, <2>2, <2>3, <2>4
<1>5. \A d \in CPUs : Backed(d)'
  BY <1>3
<1> QED BY <1>1, <1>4, <1>5 DEF Claimed

-----------------------------------------------------------------------------
(* Every step keeps the invariant.                                         *)

\* What is left to show of a step that the lock allows.
LEMMA Restored ==
    ASSUME SmpInv, Discipline', NEW c \in CPUs, Alone(c), Settled(c),
           UNCHANGED <<free, used>> \/ pc[c] \in Critical,
           result' = result, halted' \in BOOLEAN,
           Found(c)', Backed(c)'
    PROVE  SmpInv'
<1>1. (\A d \in CPUs : Found(d)') /\ Claimed'
  BY Undisturbed
<1>2. IInv'
  <2>1. Consistent(free', used') /\ result \in Area
    BY DEF Settled, SmpInv, IInv, TypeOK
  <2> QED BY <2>1 DEF IInv, TypeOK, Consistent
<1>3. Headers(free, used)'
  BY DEF Settled, Headers, OwnHeaders, Hosted
<1> QED BY <1>1, <1>2, <1>3 DEF SmpInv, Discipline

\* Lists that stay as they are are settled when c claims nothing new.
LEMMA SettledAlike ==
    ASSUME SmpInv, NEW c \in CPUs, UNCHANGED <<free, used>>,
           \A b \in Mine : Claims(c, b)' => Claims(c, b)
    PROVE  Settled(c)
<1>1. Consistent(free', used') /\ Headers(free', used')
  BY DEF SmpInv, IInv
<1>2. Mine' = Mine
  BY DEF Mine, Freeable
<1> QED BY <1>1, <1>2 DEF Settled

LEMMA CallAllocInv ==
    ASSUME SmpInv, NEW c \in CPUs, NEW r \in Requests, CallAlloc(c, r)
    PROVE  SmpInv'
<1>1. /\ pc[c] = "idle" /\ pc' = [pc EXCEPT ![c] = "lock alloc"]
      /\ call' = [call EXCEPT ![c] = r]
      /\ UNCHANGED <<vars, lock_memory, at, owned>>
  BY DEF CallAlloc, Go
<1>2. /\ pc'[c] = "lock alloc" /\ call'[c] = r
      /\ Alone(c)
  BY <1>1 DEF SmpInv, SmpTypeOK, Alone
<1>3. Found(c)'
  BY <1>2 DEF Found
<1>4. Mine' = Mine /\ UNCHANGED <<free, used>> /\ result' = result /\ halted' \in BOOLEAN
  BY <1>1 DEF Mine, Freeable, vars, SmpInv, IInv, TypeOK
<1>5. Backed(c)'
  BY <1>1, <1>2, <1>4 DEF Backed, SmpInv, Claimed, Freeing, HasSelected
<1>6. Settled(c)
  BY <1>1, <1>2, <1>4, SettledAlike DEF Claims, Freeing, HasSelected
<1>7. Discipline'
  BY Disciplined DEF SmpInv, Discipline
<1> QED BY <1>2, <1>3, <1>4, <1>5, <1>6, <1>7, Restored

LEMMA CallFreeInv ==
    ASSUME SmpInv, NEW c \in CPUs, NEW area \in owned[c] \cup {NoArea}, CallFree(c, area)
    PROVE  SmpInv'
<1>1. /\ pc[c] = "idle" /\ pc' = [pc EXCEPT ![c] = "lock free"]
      /\ call' = [call EXCEPT ![c] = area]
      /\ owned' = [owned EXCEPT ![c] = @ \ {area}]
      /\ UNCHANGED <<vars, lock_memory, at>>
  BY DEF CallFree, Go
<1>2. /\ pc'[c] = "lock free" /\ call'[c] = area /\ owned'[c] = owned[c] \ {area}
      /\ Alone(c)
  BY <1>1 DEF SmpInv, SmpTypeOK, Alone
<1>3. Found(c)'
  BY <1>2 DEF Found
<1>4. Mine' = Mine /\ UNCHANGED <<free, used>> /\ result' = result /\ halted' \in BOOLEAN
  BY <1>1 DEF Mine, Freeable, vars, SmpInv, IInv, TypeOK
<1>5. Backed(c)
  BY DEF SmpInv, Claimed
<1>6. Backed(c)'
  BY <1>1, <1>2, <1>4, <1>5 DEF Backed, Freeing, HasSelected
<1>7. ASSUME NEW b \in Mine, Claims(c, b)' PROVE Claims(c, b)
  <2>1. AreaOf(b) # NoArea
    BY MineSound DEF SmpInv, IInv
  <2> QED BY <1>1, <1>2, <1>7, <2>1 DEF Claims, Freeing, HasSelected
<1>8. Settled(c)
  BY <1>4, <1>7, SettledAlike
<1>9. Discipline'
  BY Disciplined DEF SmpInv, Discipline
<1> QED BY <1>2, <1>3, <1>4, <1>6, <1>8, <1>9, Restored

\* Steps that change neither lists nor what anybody owns, nor what was asked for.
LEMMA QuietInv ==
    ASSUME SmpInv, NEW c \in CPUs, Step(c), NEW to, pc' = [pc EXCEPT ![c] = to],
           UNCHANGED <<free, used, result, call, owned>>, halted' \in BOOLEAN,
           Alone(c), Found(c)', Freeing(c)' => Freeing(c),
           HasSelected(c)' => HasSelected(c) /\ at'[c] = at[c]
    PROVE  SmpInv'
<1>1. Mine' = Mine
  BY DEF Mine, Freeable
<1>2. Backed(c)
  BY DEF SmpInv, Claimed
<1>3. Backed(c)'
  BY <1>1, <1>2 DEF Backed
<1>4. \A b \in Mine : Claims(c, b)' => Claims(c, b)
  BY DEF Claims
<1>5. Settled(c)
  BY <1>4, SettledAlike
<1>6. Discipline'
  BY Disciplined DEF SmpInv, Discipline
<1> QED BY <1>3, <1>5, <1>6, Restored

LEMMA AcquireInv ==
    ASSUME SmpInv, NEW c \in CPUs, Acquire(c)
    PROVE  SmpInv'
<1>1. /\ pc[c] \in {"lock alloc", "lock free"}
      /\ pc' = [pc EXCEPT ![c] = IF pc[c] = "lock alloc" THEN "search" ELSE "find"]
      /\ UNCHANGED <<vars, call, at, owned>>
  BY DEF Acquire, Go
<1>2. /\ pc[c] = "lock alloc" => pc'[c] = "search"
      /\ pc[c] = "lock free" => pc'[c] = "find"
      /\ call'[c] = call[c] /\ at'[c] = at[c] /\ Alone(c)
  BY <1>1 DEF SmpInv, SmpTypeOK, Alone, vars
<1>3. UNCHANGED <<free, used, result, halted>> /\ halted' \in BOOLEAN
  BY <1>1 DEF vars, SmpInv, IInv, TypeOK
<1>4. Found(c)'
  <2>1. CASE pc[c] = "lock alloc"
    BY <1>2, <2>1 DEF SmpInv, Found
  <2>2. CASE pc[c] = "lock free"
    BY <1>2, <2>2 DEF Found
  <2> QED BY <1>1, <2>1, <2>2
<1>5. (Freeing(c)' => Freeing(c)) /\ ~HasSelected(c)'
  BY <1>1, <1>2 DEF Freeing, HasSelected
<1>6. Step(c)
  BY DEF Step
<1> QED BY <1>1, <1>2, <1>3, <1>4, <1>5, <1>6, QuietInv

LEMMA SearchInv ==
    ASSUME SmpInv, NEW c \in CPUs, Search(c), Clear(call[c])
    PROVE  SmpInv'
<1>1. pc[c] = "search" /\ UNCHANGED <<vars, lock_memory, call, owned>>
  BY DEF Search
<1>2. UNCHANGED <<free, used, result, halted>> /\ halted' \in BOOLEAN
  BY <1>1 DEF vars, SmpInv, IInv, TypeOK
<1>3. CASE \E b \in free : /\ FirstFit(b, call[c])
                           /\ at' = [at EXCEPT ![c] = b.hdr]
                           /\ Go(c, "take")
  <2>1. PICK b \in free : /\ FirstFit(b, call[c])
                          /\ at' = [at EXCEPT ![c] = b.hdr]
                          /\ pc' = [pc EXCEPT ![c] = "take"]
    BY <1>3 DEF Go
  <2>2. pc'[c] = "take" /\ at'[c] = b.hdr /\ Alone(c)
    BY <1>1, <2>1 DEF SmpInv, SmpTypeOK, Alone
  <2>3. Clear(call[c])' /\ FirstFit(b, call[c])'
    BY <1>1, <1>2, <2>1 DEF Clear, TakesTop, IsHead, FirstFit
  <2>4. Found(c)'
    BY <1>1, <1>2, <2>1, <2>2, <2>3 DEF SmpInv, Found
  <2> QED BY <1>1, <1>2, <2>1, <2>2, <2>4, QuietInv DEF Step, Freeing, HasSelected
<1>4. CASE at' = [at EXCEPT ![c] = 0] /\ Go(c, "unlock")
  <2>1. pc' = [pc EXCEPT ![c] = "unlock"] /\ pc'[c] = "unlock" /\ at'[c] = 0 /\ Alone(c)
    BY <1>1, <1>4 DEF SmpInv, SmpTypeOK, Alone, Go
  <2>2. Found(c)'
    BY <2>1 DEF Found
  <2> QED BY <1>1, <1>2, <2>1, <2>2, QuietInv DEF Step, Freeing, HasSelected
<1> QED BY <1>3, <1>4 DEF Search

LEMMA FindInv ==
    ASSUME SmpInv, NEW c \in CPUs, Find(c)
    PROVE  SmpInv'
<1>1. pc[c] = "find" /\ UNCHANGED <<vars, lock_memory, call, owned>>
  BY DEF Find
<1>2. /\ UNCHANGED <<free, used, result, halted>> /\ halted' \in BOOLEAN
      /\ Mine' = Mine
  BY <1>1 DEF vars, SmpInv, IInv, TypeOK, Mine, Freeable
<1>3. CASE \E b \in used : /\ AreaOf(b) = call[c] /\ b.freeable
                           /\ at' = [at EXCEPT ![c] = b.hdr]
                           /\ Go(c, "give back")
  <2>1. PICK b \in used : /\ AreaOf(b) = call[c] /\ b.freeable
                          /\ at' = [at EXCEPT ![c] = b.hdr]
                          /\ pc' = [pc EXCEPT ![c] = "give back"]
    BY <1>3 DEF Go
  <2>2. pc'[c] = "give back" /\ at'[c] = b.hdr /\ Alone(c)
    BY <1>1, <2>1 DEF SmpInv, SmpTypeOK, Alone
  <2>3. b \in Mine
    <3>1. Consistent(free, used) /\ b.size > 0
      BY <2>1 DEF SmpInv, IInv, Consistent, Usable
    <3>2. call[c] # NoArea
      <4>1. AreaOf(b) # NoArea
        BY <3>1 DEF AreaOf, NoArea
      <4> QED BY <2>1, <4>1
    <3>3. PICK x \in Mine : AreaOf(x) = call[c]
      BY <1>1, <3>2 DEF SmpInv, Claimed, Backed, Freeing
    <3>4. x \in free \cup used
      BY DEF Mine, Freeable
    <3>5. x = b
      BY <2>1, <3>1, <3>3, <3>4, AreaOnce
    <3> QED BY <3>5
  <2>4. Found(c)'
    BY <1>1, <1>2, <2>1, <2>2, <2>3 DEF Found
  <2> QED BY <1>1, <1>2, <2>1, <2>2, <2>4, QuietInv DEF Step, Freeing, HasSelected
<1>4. CASE at' = [at EXCEPT ![c] = 0] /\ Go(c, "refuse")
  <2>1. pc' = [pc EXCEPT ![c] = "refuse"] /\ pc'[c] = "refuse" /\ at'[c] = 0 /\ Alone(c)
    BY <1>1, <1>4 DEF SmpInv, SmpTypeOK, Alone, Go
  <2>2. Found(c)'
    BY <2>1 DEF Found
  <2> QED BY <1>1, <1>2, <2>1, <2>2, QuietInv DEF Step, Freeing, HasSelected
<1> QED BY <1>3, <1>4 DEF Find

LEMMA UnlockInv ==
    ASSUME SmpInv, NEW c \in CPUs, Unlock(c)
    PROVE  SmpInv'
<1>1. /\ pc[c] = "unlock"
      /\ pc' = [pc EXCEPT ![c] = IF at[c] = 0 THEN "idle" ELSE "read"]
      /\ UNCHANGED <<vars, call, at, owned>>
  BY DEF Unlock, Go
<1>2. /\ at[c] = 0 => pc'[c] = "idle"
      /\ at[c] # 0 => pc'[c] = "read"
      /\ at'[c] = at[c] /\ Alone(c)
  BY <1>1 DEF SmpInv, SmpTypeOK, Alone
<1>3. UNCHANGED <<free, used, result, halted>> /\ halted' \in BOOLEAN
  BY <1>1 DEF vars, SmpInv, IInv, TypeOK
<1>4. Found(c)'
  <2>1. CASE at[c] = 0
    BY <1>2, <2>1 DEF Found
  <2>2. CASE at[c] # 0
    BY <1>2, <2>2 DEF Found
  <2> QED BY <2>1, <2>2
<1>5. /\ Freeing(c)' => Freeing(c)
      /\ HasSelected(c)' => HasSelected(c) /\ at'[c] = at[c]
  <2>1. CASE at[c] = 0
    BY <1>1, <1>2, <2>1 DEF Freeing, HasSelected
  <2>2. CASE at[c] # 0
    BY <1>1, <1>2, <2>2 DEF Freeing, HasSelected
  <2> QED BY <2>1, <2>2
<1> QED BY <1>1, <1>2, <1>3, <1>4, <1>5, QuietInv DEF Step

LEMMA RefuseInv ==
    ASSUME SmpInv, NEW c \in CPUs, Refuse(c)
    PROVE  SmpInv'
<1>1. /\ pc[c] = "refuse" /\ pc' = [pc EXCEPT ![c] = "stopped"]
      /\ UNCHANGED <<free, used, result, call, at, owned>> /\ halted' = TRUE
  BY DEF Refuse, Go
<1>2. pc'[c] = "stopped" /\ Alone(c)
  BY <1>1 DEF SmpInv, SmpTypeOK, Alone
<1>3. Found(c)'
  BY <1>2 DEF Found
<1> QED BY <1>1, <1>2, <1>3, QuietInv DEF Step, Freeing, HasSelected

\* memory_split and memory_move_from_to: the block handed out is new to everybody.
LEMMA TakeInv ==
    ASSUME SmpInv, NEW c \in CPUs, Take(c)
    PROVE  SmpInv'
<1> DEFINE r == call[c]
<1>1. /\ pc[c] = "take" /\ Consistent(free, used) /\ Headers(free, used)
      /\ r \in Requests /\ Clear(r)
  BY DEF Take, SmpInv, IInv, Found
<1>2. PICK b \in free : b.hdr = at[c] /\ FirstFit(b, r)
  BY <1>1 DEF SmpInv, Found
<1> DEFINE ch == Chosen(b, r)
<1>3. /\ free' = (free \ {b}) \cup Remains(b, r)
      /\ used' = used \cup {ch}
      /\ at' = [at EXCEPT ![c] = ch.hdr]
  <2>1. PICK x \in At(at[c]) : /\ free' = (free \ {x}) \cup Remains(x, r)
                               /\ used' = used \cup {Chosen(x, r)}
                               /\ at' = [at EXCEPT ![c] = Chosen(x, r).hdr]
    BY DEF Take
  <2>2. x = b
    BY <1>1, <1>2, AtOne
  <2> QED BY <2>1, <2>2
<1>4. /\ pc'[c] = "unlock" /\ at'[c] = ch.hdr /\ call'[c] = call[c] /\ owned'[c] = owned[c]
      /\ Alone(c) /\ UNCHANGED <<result, halted>>
  BY <1>3 DEF SmpInv, SmpTypeOK, Alone, Take, Go
<1>5. Carves(b, r) /\ Consistent(free', used')
  BY <1>1, <1>2, <1>3, ServeConsistent
<1> DEFINE S == Remains(b, r) \cup {ch}
<1>6. /\ AllApart(S) /\ Within(ch, b) /\ ch.freeable
      /\ \A p \in S : Within(p, b) /\ (SameFront(p, b) \/ Inline(p))
  BY <1>5 DEF Carves, Within, Sound
<1>7. b \notin used
  BY <1>1 DEF Consistent
<1>8. ch \notin used
  BY <1>1, <1>6, <1>7, PieceApart
<1> HIDE DEF ch
<1>9. Headers(free', used')
  <2>1. free' \cup used' = ((free \cup used) \ {b}) \cup S
    BY <1>3, <1>7
  <2> HIDE DEF S
  <2>2. /\ OwnHeaders(free' \cup used')
        /\ Hosted(free' \cup used', Freeable(BootUsed))
    BY <1>1, <1>6, <2>1, HeadersCarve
  <2> QED BY <1>1, <1>3, <2>2 DEF Headers
<1>10. ch \notin BootUsed
  BY <1>1, <1>6, <1>8 DEF Headers, Freeable
<1>11. Mine' = Mine \cup {ch}
  BY <1>3, <1>6, <1>10 DEF Mine, Freeable
<1>12. ASSUME NEW x \in Mine, Claims(c, x)' PROVE Claims(c, x)
  <2>1. x \in used /\ x # ch
    BY <1>8 DEF Mine, Freeable
  <2>2. x.hdr # ch.hdr
    BY <1>3, <1>9, <2>1 DEF Headers, OwnHeaders
  <2> QED BY <1>4, <1>12, <2>2 DEF Claims, Freeing
<1>13. Settled(c)
  BY <1>5, <1>9, <1>11, <1>12 DEF Settled
<1>14. Found(c)'
  BY <1>4 DEF Found
<1>15. Backed(c)'
  <2>1. Backed(c)
    BY DEF SmpInv, Claimed
  <2>2. ~Freeing(c)'
    BY <1>4 DEF Freeing
  <2> QED BY <1>4, <1>11, <2>1, <2>2 DEF Backed
<1>16. Discipline'
  BY Disciplined DEF SmpInv, Discipline, Step
<1>17. halted' \in BOOLEAN /\ pc[c] \in Critical
  BY <1>1, <1>4 DEF SmpInv, IInv, TypeOK, Critical
<1> QED BY <1>4, <1>13, <1>14, <1>15, <1>16, <1>17, Restored

\* memory_move_from_to and the merges: the block taken back was the caller's.
LEMMA GiveBackInv ==
    ASSUME SmpInv, NEW c \in CPUs, GiveBack(c)
    PROVE  SmpInv'
<1>1. pc[c] = "give back" /\ Consistent(free, used) /\ Headers(free, used)
  BY DEF GiveBack, SmpInv, IInv
<1>2. PICK b \in Mine : b.hdr = at[c] /\ AreaOf(b) = call[c]
  BY <1>1 DEF SmpInv, Found
<1>3. b \in used /\ b.freeable /\ b \notin BootUsed /\ b \notin free
  BY <1>1 DEF Mine, Freeable, Consistent
<1>4. /\ Stale(b) = {}
      /\ Consistent((free \ (Below(b) \cup Above(b))) \cup {Freed(b)}, used \ {b})
  BY <1>1, <1>3, FreedConsistent
<1>5. /\ used' = used \ {b}
      /\ free' = (free \ (Below(b) \cup Above(b))) \cup {Freed(b)}
  <2>1. PICK x \in At(at[c]) :
          /\ used' = used \ {x}
          /\ free' = (free \ (Below(x) \cup Above(x))) \cup {Freed(x)} \cup Stale(x)
    BY DEF GiveBack
  <2>2. x = b
    BY <1>1, <1>2, <1>3, AtOne
  <2> QED BY <1>4, <2>1, <2>2
<1>6. /\ pc'[c] = "unlock" /\ at'[c] = 0 /\ call'[c] = call[c] /\ owned'[c] = owned[c]
      /\ Alone(c) /\ UNCHANGED <<result, halted>>
  BY DEF SmpInv, SmpTypeOK, Alone, GiveBack, Go
<1>7. Consistent(free', used')
  BY <1>4, <1>5
<1> DEFINE A == Below(b) \cup Above(b) \cup {b}
<1>8. A \subseteq free \cup used /\ \E a \in A : SameFront(Freed(b), a)
  <2>1. Below(b) \subseteq free /\ Above(b) \subseteq free
    BY DEF Below, NextOf, Above, PrevOf
  <2>2. SameFront(Freed(b), Grown(b))
    BY <1>1, <1>3, FreedShape
  <2>3. CASE Grown(b) = b
    BY <1>3, <2>1, <2>2, <2>3
  <2>4. CASE \E n \in free : Below(b) = {n} /\ SameFront(Grown(b), n)
    <3>1. PICK n \in free : Below(b) = {n} /\ SameFront(Grown(b), n)
      BY <2>4
    <3>2. SameFront(Freed(b), n)
      BY <2>2, <3>1 DEF SameFront
    <3> QED BY <1>3, <2>1, <3>1, <3>2
  <2>5. Grown(b) = b \/ \E n \in free : Below(b) = {n} /\ SameFront(Grown(b), n)
    BY <1>1, <1>3, FreedShape
  <2> QED BY <2>3, <2>4, <2>5
<1>9. Headers(free', used')
  <2>1. free' \cup used' = ((free \cup used) \ A) \cup {Freed(b)}
    <3>1. Below(b) \subseteq free /\ Above(b) \subseteq free /\ free \cap used = {}
      BY <1>1 DEF Below, NextOf, Above, PrevOf, Consistent
    <3> QED BY <1>3, <1>5, <3>1
  <2> HIDE DEF A
  <2>2. OwnHeaders(free \cup used) /\ Hosted(free \cup used, Freeable(BootUsed))
    BY <1>1 DEF Headers
  <2>3. /\ OwnHeaders(free' \cup used')
        /\ Hosted(free' \cup used', Freeable(BootUsed))
    BY <1>8, <2>1, <2>2, HeadersJoin
  <2>4. Freeable(BootUsed) \subseteq used'
    BY <1>1, <1>3, <1>5 DEF Headers, Freeable
  <2> QED BY <2>3, <2>4 DEF Headers
<1>10. Mine' = Mine \ {b}
  BY <1>5 DEF Mine, Freeable
<1>11. Claims(c, b)
  BY <1>1, <1>2 DEF Claims, Freeing
<1>12. ~Freeing(c)' /\ ~HasSelected(c)'
  BY <1>6 DEF Freeing, HasSelected
<1>13. Settled(c)
  <2>1. \A x \in Mine : Claims(c, x)' => Claims(c, x)
    BY <1>6, <1>12 DEF Claims
  <2> QED BY <1>7, <1>9, <1>10, <1>11, <2>1 DEF Settled
<1>14. Found(c)'
  BY <1>6 DEF Found
<1>15. Backed(c)'
  <2>1. Backed(c) /\ call[c] \notin owned[c]
    BY <1>1 DEF SmpInv, Claimed, Backed, Freeing
  <2>2. \A area \in owned'[c] : \E x \in Mine' : AreaOf(x) = area
    BY <1>2, <1>6, <1>10, <2>1 DEF Backed
  <2> QED BY <1>12, <2>2 DEF Backed
<1>16. Discipline'
  BY Disciplined DEF SmpInv, Discipline, Step
<1>17. halted' \in BOOLEAN /\ pc[c] \in Critical
  BY <1>1, <1>6 DEF SmpInv, IInv, TypeOK, Critical
<1> QED BY <1>6, <1>13, <1>14, <1>15, <1>16, <1>17, Restored

\* The read after the release: the container is in use and still the caller's.
LEMMA ReadInv ==
    ASSUME SmpInv, NEW c \in CPUs, Read(c)
    PROVE  SmpInv'
<1>1. /\ pc[c] = "read" /\ at[c] # 0
      /\ Consistent(free, used) /\ Headers(free, used) /\ Backed(c)
  BY DEF Read, SmpInv, IInv, Found, Claimed
<1>2. PICK b \in Mine : b.hdr = at[c]
  BY <1>1 DEF Backed, HasSelected
<1>3. owned' = [owned EXCEPT ![c] = @ \cup {AreaOf(b)}]
  <2>1. PICK x \in At(at[c]) : owned' = [owned EXCEPT ![c] = @ \cup {AreaOf(x)}]
    BY DEF Read
  <2>2. b \in free \cup used
    BY DEF Mine, Freeable
  <2>3. x = b
    BY <1>1, <1>2, <2>2, AtOne
  <2> QED BY <2>1, <2>3
<1>4. /\ pc'[c] = "idle" /\ at'[c] = 0 /\ owned'[c] = owned[c] \cup {AreaOf(b)}
      /\ Alone(c)
  BY <1>3 DEF SmpInv, SmpTypeOK, Alone, Read, Go
<1>5. /\ UNCHANGED <<free, used>> /\ result' = result /\ halted' \in BOOLEAN
      /\ Mine' = Mine
  BY DEF Read, vars, SmpInv, IInv, TypeOK, Mine, Freeable
<1>6. ~Freeing(c)' /\ ~HasSelected(c)'
  BY <1>4 DEF Freeing, HasSelected
<1>7. ASSUME NEW x \in Mine, Claims(c, x)' PROVE Claims(c, x)
  <2>1. AreaOf(x) \in owned[c] \cup {AreaOf(b)}
    BY <1>4, <1>6, <1>7 DEF Claims
  <2>2. CASE AreaOf(x) = AreaOf(b)
    <3>1. x = b
      BY <1>1, <2>2, MineOnce
    <3> QED BY <1>1, <1>2, <3>1 DEF Claims, HasSelected
  <2> QED BY <2>1, <2>2 DEF Claims
<1>8. Settled(c)
  BY <1>5, <1>7, SettledAlike
<1>9. Backed(c)'
  <2>1. \A area \in owned'[c] : \E x \in Mine' : AreaOf(x) = area
    BY <1>1, <1>4, <1>5 DEF Backed
  <2> QED BY <1>6, <2>1 DEF Backed
<1>10. Found(c)'
  BY <1>4 DEF Found
<1>11. Discipline'
  BY Disciplined DEF SmpInv, Discipline, Step
<1> QED BY <1>4, <1>5, <1>8, <1>9, <1>10, <1>11, Restored

LEMMA SmpStart == SmpInit => SmpInv
<1> SUFFICES ASSUME SmpInit PROVE SmpInv
  OBVIOUS
<1>1. IInv /\ free = BootFree /\ used = BootUsed
  BY BootConsistent DEF SmpInit, Init
<1>2. \A c \in CPUs : pc[c] = "idle" /\ owned[c] = {} /\ at[c] = 0
  BY DEF SmpInit
<1>3. SmpTypeOK /\ OneInside
  BY <1>2 DEF SmpInit, SmpTypeOK, OneInside, Critical, Outside
<1>4. Headers(free, used)
  BY <1>1, BootHeaders DEF Headers, Freeable
<1>5. \A c \in CPUs : Found(c)
  BY <1>2 DEF Found
<1>6. Claimed
  BY <1>2 DEF Claimed, Backed, Claims, Freeing, HasSelected
<1> QED BY <1>1, <1>3, <1>4, <1>5, <1>6 DEF SmpInv

LEMMA SmpStep == SmpInv /\ [ClearSmpNext]_allVars => SmpInv'
<1> SUFFICES ASSUME SmpInv, [ClearSmpNext]_allVars PROVE SmpInv'
  OBVIOUS
<1>1. CASE ClearSmpNext
  <2>1. PICK c \in CPUs : \/ \E r \in Requests : CallAlloc(c, r)
                          \/ \E area \in owned[c] \cup {NoArea} : CallFree(c, area)
                          \/ ClearStep(c)
    BY <1>1 DEF ClearSmpNext
  <2>2. CASE \E r \in Requests : CallAlloc(c, r)
    BY <2>2, CallAllocInv
  <2>3. CASE \E area \in owned[c] \cup {NoArea} : CallFree(c, area)
    BY <2>3, CallFreeInv
  <2>4. CASE ClearStep(c)
    <3>1. Search(c) => Clear(call[c])
      BY <2>4 DEF ClearStep, Search
    <3>2. Step(c)
      BY <2>4 DEF ClearStep
    <3> QED BY <3>1, <3>2, AcquireInv, SearchInv, TakeInv, FindInv, GiveBackInv,
               UnlockInv, RefuseInv, ReadInv DEF Step
  <2> QED BY <2>1, <2>2, <2>3, <2>4
<1>2. CASE UNCHANGED allVars
  <2>1. UNCHANGED <<free, used, result, halted, lock_memory, pc, call, at, owned>>
    BY <1>2 DEF allVars, vars, smpVars
  <2>2. IInv' /\ SmpTypeOK' /\ OneInside' /\ Headers(free, used)'
    BY <2>1 DEF SmpInv, IInv, TypeOK, Consistent, SmpTypeOK, OneInside, Headers,
                OwnHeaders, Hosted
  <2>3. \A c \in CPUs : Found(c)'
    BY <2>1 DEF SmpInv, Found, Clear, TakesTop, IsHead, FirstFit, Mine, Freeable
  <2>4. Claimed'
    BY <2>1 DEF SmpInv, Claimed, Backed, Claims, Freeing, HasSelected, Mine, Freeable
  <2> QED BY <2>2, <2>3, <2>4 DEF SmpInv
<1> QED BY <1>1, <1>2

-----------------------------------------------------------------------------
(* Exclusion.                                                              *)

\* What a processor has been given is a block that it alone claims.
LEMMA GivenClaimed ==
    ASSUME SmpInv, NEW c \in CPUs, NEW area \in Given(c)
    PROVE  \E b \in Mine : AreaOf(b) = area /\ Claims(c, b)
<1>1. Backed(c) /\ Headers(free, used)
  BY DEF SmpInv, Claimed
<1>2. CASE area \in owned[c]
  BY <1>1, <1>2 DEF Backed, Claims
<1>3. CASE area \in Selected(c)
  <2>1. HasSelected(c)
    BY <1>3 DEF Selected, HasSelected, SmpInv, Found
  <2>2. PICK b \in Mine : b.hdr = at[c]
    BY <1>1, <2>1 DEF Backed
  <2>3. PICK x \in At(at[c]) : area = AreaOf(x)
    BY <1>3 DEF Selected
  <2>4. b \in free \cup used
    BY DEF Mine, Freeable
  <2>5. x = b
    BY <1>1, <2>2, <2>4, AtOne
  <2> QED BY <2>1, <2>2, <2>3, <2>5 DEF Claims
<1> QED BY <1>2, <1>3 DEF Given

LEMMA SmpExclusive == SmpInv => Exclusive
<1> SUFFICES ASSUME SmpInv PROVE Exclusive
  OBVIOUS
<1>1. IInv /\ Consistent(free, used)
  BY DEF SmpInv, IInv
<1>2. ASSUME NEW c \in CPUs, NEW area \in Given(c)
      PROVE  \E b \in used : AreaOf(b) = area /\ b.freeable
  BY <1>1, <1>2, GivenClaimed, MineSound
<1>3. ASSUME NEW c \in CPUs, pc[c] = "read" PROVE Selected(c) # {}
  <2>1. PICK b \in Mine : b.hdr = at[c]
    BY <1>3 DEF SmpInv, Found, Claimed, Backed, HasSelected
  <2>2. b \in At(at[c])
    BY <2>1 DEF At, Mine, Freeable
  <2> QED BY <1>3, <2>2 DEF Selected
<1>4. ASSUME NEW c \in CPUs, NEW d \in CPUs \ {c}, NEW a \in Given(c), NEW b \in Given(d)
      PROVE  Disjoint(a, b)
  <2>1. PICK x \in Mine : AreaOf(x) = a /\ Claims(c, x)
    BY GivenClaimed
  <2>2. PICK y \in Mine : AreaOf(y) = b /\ Claims(d, y)
    BY GivenClaimed
  <2>3. x # y
    BY <2>1, <2>2 DEF SmpInv, Claimed
  <2>4. x \in used /\ x.freeable /\ Sound(x) /\ y \in used /\ Sound(y)
    BY <1>1, MineSound
  <2>5. x.addr + x.size <= Base(y) \/ y.addr + y.size <= Base(x)
    BY <1>1, <2>3, <2>4 DEF Consistent, AllApart, Apart
  <2>6. /\ x.addr \in Nat /\ x.size \in Nat /\ Base(x) \in Nat /\ Base(x) <= x.addr
        /\ y.addr \in Nat /\ y.size \in Nat /\ Base(y) \in Nat /\ Base(y) <= y.addr
    BY <2>4, SoundFields
  <2>7. /\ a.address = x.addr /\ a.size = x.size
        /\ b.address = y.addr /\ b.size = y.size
    BY <2>1, <2>2 DEF AreaOf
  <2> QED BY <2>5, <2>6, <2>7 DEF Disjoint
<1> QED BY <1>1, <1>2, <1>3, <1>4 DEF Exclusive

\* One processor at a time is between lock and unlock of the memory manager,
\* whatever is asked for and freed.
THEOREM LockExcludes == SmpSpec => []OneInside
<1>1. SmpInit => Discipline
  BY DEF SmpInit, Discipline, SmpTypeOK, OneInside, Critical, Outside
<1>2. Discipline /\ [SmpNext]_allVars => Discipline'
  <2> SUFFICES ASSUME Discipline, [SmpNext]_allVars PROVE Discipline'
    OBVIOUS
  <2>1. CASE SmpNext
    BY <2>1, Disciplined DEF SmpNext
  <2>2. CASE UNCHANGED allVars
    BY <2>2 DEF allVars, smpVars, Discipline, SmpTypeOK, OneInside
  <2> QED BY <2>1, <2>2
<1>3. Discipline => OneInside
  BY DEF Discipline
<1> QED BY <1>1, <1>2, <1>3, PTL DEF SmpSpec

\* Processors whose requests are clear of the near fits when they search never
\* share memory, however many they are and however their calls interleave; the
\* container read after the release is still in use and still the caller's.
THEOREM ClearExclusive == ClearSmpSpec => []Exclusive
<1>1. SmpInit => SmpInv
  BY SmpStart
<1>2. SmpInv /\ [ClearSmpNext]_allVars => SmpInv'
  BY SmpStep
<1>3. SmpInv => Exclusive
  BY SmpExclusive
<1> QED BY <1>1, <1>2, <1>3, PTL DEF ClearSmpSpec

\* Plain requests are clear of the near fits: Plain keeps of Clear what is said
\* of the request alone.
LEMMA PlainClear ==
    ASSUME NEW r, Plain(r)
    PROVE  Clear(r)
  BY DEF Plain, Clear, NearFit, TakesTop, EmptyRest, ExactFit, MiddleFit

\* When every request is without alignment, asks for something, and does not
\* wrap with its header (memory.c:336), as those for thread_t, cpu_state_t and
\* process_t are, processors never share memory.
THEOREM PlainExclusive ==
    ASSUME \A r \in Requests : Plain(r)
    PROVE  SmpSpec => []Exclusive
<1>1. SmpInit => SmpInv
  BY SmpStart
<1>2. SmpInv /\ [SmpNext]_allVars => SmpInv'
  <2> SUFFICES ASSUME SmpInv, [SmpNext]_allVars PROVE SmpInv'
    OBVIOUS
  <2>1. ASSUME NEW c \in CPUs, Step(c) PROVE ClearStep(c)
    <3>1. pc[c] = "search" => call[c] \in Requests
      BY DEF SmpInv, Found
    <3> QED BY <2>1, <3>1, PlainClear DEF ClearStep
  <2>2. [ClearSmpNext]_allVars
    BY <2>1 DEF SmpNext, ClearSmpNext
  <2> QED BY <2>2, SmpStep
<1>3. SmpInv => Exclusive
  BY SmpExclusive
<1> QED BY <1>1, <1>2, <1>3, PTL DEF SmpSpec
=============================================================================
