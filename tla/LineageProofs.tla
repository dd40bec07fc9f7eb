--------------------------- MODULE LineageProofs ---------------------------
(* Proofs about the lineage of tasks, for any tasks, programs, block lists  *)
(* and size of the ring buffer.                                             *)
EXTENDS Lineage, TLAPS

(* A task_struct that is not in use has no storage and no redirection.     *)
FreeClean == \A t \in Task : status[t] = "free" => ~HasStorage(t) /\ t \notin redirected

(* A redirection that was recorded stays recorded.                         *)
RedirectMarked == \A t \in redirected \ dupMissed : IsRedirected(t)

(* Nobody has setuid_allowed without having been let into such a program.  *)
SetuidEarned == \A t \in Task : HasStorage(t) /\ lineage_map[t].setuid_allowed => t \in elevated

IInv == TypeOK /\ FreeClean /\ LineageExact /\ RedirectMarked /\ SetuidEarned

-----------------------------------------------------------------------------
(* Zeroed storage is a lineage, no storage is none.                        *)
LEMMA ZeroedIsLineage == Zeroed \in Lineages /\ NoStorage \notin Lineages
  <1>1. Zeroed \in Lineages
    BY DEF Zeroed, Lineages
  <1>2. ASSUME NoStorage \in Lineages PROVE FALSE
    <2>1. DOMAIN NoStorage = {"none"}
      BY DEF NoStorage
    <2>2. DOMAIN NoStorage = {"suspicious_ancestor", "ancestor_filename",
                              "setuid_allowed", "socket_redirected"}
      BY <1>2 DEF Lineages
    <2> QED BY <2>1, <2>2
  <1> QED BY <1>1, <1>2

(* A lineage is read as itself, missing storage as zeroes.                 *)
LEMMA ValueType ==
  /\ \A l \in Lineages \cup {NoStorage} : Value(l) \in Lineages
  /\ \A l \in Lineages : Value(l) = l /\ l # NoStorage
  /\ Value(NoStorage) = Zeroed
  BY ZeroedIsLineage DEF Value

(* What the hooks read of a task is a lineage.                             *)
LEMMA LiveType ==
  ASSUME TypeOK, NEW t \in Task
  PROVE  Live(t) \in Lineages
  BY ValueType DEF TypeOK, Live

(* Changing one mark of a lineage leaves the others as they are.           *)
LEMMA WithRedirect ==
  ASSUME NEW l \in Lineages, NEW k, k = [l EXCEPT !.socket_redirected = TRUE]
  PROVE  /\ k \in Lineages /\ k.socket_redirected
         /\ k.suspicious_ancestor <=> l.suspicious_ancestor
         /\ k.ancestor_filename = l.ancestor_filename
         /\ k.setuid_allowed <=> l.setuid_allowed
  <1>1. k \in Lineages
    BY DEF Lineages
  <1>2. k.socket_redirected
    BY DEF Lineages
  <1>3. k.suspicious_ancestor <=> l.suspicious_ancestor
    BY DEF Lineages
  <1>4. k.ancestor_filename = l.ancestor_filename
    BY DEF Lineages
  <1>5. k.setuid_allowed <=> l.setuid_allowed
    BY DEF Lineages
  <1> QED BY <1>1, <1>2, <1>3, <1>4, <1>5

(* The same for the setuid permission.                                     *)
LEMMA WithSetuid ==
  ASSUME NEW l \in Lineages, NEW f \in BOOLEAN, NEW k, k = [l EXCEPT !.setuid_allowed = f]
  PROVE  /\ k \in Lineages /\ (k.setuid_allowed <=> f)
         /\ k.suspicious_ancestor <=> l.suspicious_ancestor
         /\ k.ancestor_filename = l.ancestor_filename
         /\ k.socket_redirected <=> l.socket_redirected
  <1>1. k \in Lineages
    BY DEF Lineages
  <1>2. k.setuid_allowed <=> f
    BY DEF Lineages
  <1>3. k.suspicious_ancestor <=> l.suspicious_ancestor
    BY DEF Lineages
  <1>4. k.ancestor_filename = l.ancestor_filename
    BY DEF Lineages
  <1>5. k.socket_redirected <=> l.socket_redirected
    BY DEF Lineages
  <1> QED BY <1>1, <1>2, <1>3, <1>4, <1>5

(* The same for the suspicious ancestor.                                   *)
LEMMA WithSuspicion ==
  ASSUME NEW l \in Lineages, NEW b \in Program, NEW k,
         k = Marked(l, b)
  PROVE  /\ k \in Lineages /\ k.suspicious_ancestor /\ k.ancestor_filename = b
         /\ k.setuid_allowed <=> l.setuid_allowed
         /\ k.socket_redirected <=> l.socket_redirected
  <1>1. k \in Lineages
    BY DEF Lineages, Marked
  <1>2. k.suspicious_ancestor
    BY DEF Lineages, Marked
  <1>3. k.ancestor_filename = b
    BY DEF Lineages, Marked
  <1>4. k.setuid_allowed <=> l.setuid_allowed
    BY DEF Lineages, Marked
  <1>5. k.socket_redirected <=> l.socket_redirected
    BY DEF Lineages, Marked
  <1> QED BY <1>1, <1>2, <1>3, <1>4, <1>5

(* The ring buffer stays a sequence of events that fits.                   *)
LEMMA SubmitType ==
  ASSUME NEW q \in Seq(EventTypes), Len(q) <= RingSize, NEW e \in EventTypes
  PROVE  Submit(q, e) \in Seq(EventTypes) /\ Len(Submit(q, e)) <= RingSize
  BY LineageAssumption DEF Submit, LineageAssumption

(* So it does when a block list has matched.                               *)
LEMMA ListType ==
  ASSUME NEW q \in Seq(EventTypes), Len(q) <= RingSize, NEW mode \in 0..2
  PROVE  AfterList(q, mode) \in Seq(EventTypes) /\ Len(AfterList(q, mode)) <= RingSize
  <1>1. "EXEC_BLOCKED" \in EventTypes
    BY DEF EventTypes
  <1> QED BY <1>1, SubmitType DEF AfterList

-----------------------------------------------------------------------------
(* CheckLists either leaves the storage alone or gives a task that has     *)
(* some the setuid flag its program earns.                                 *)
LEMMA ListsStep ==
  ASSUME TypeOK, NEW t \in Task, NEW b \in Program, CheckLists(t, b), status[t] # "free"
  PROVE  /\ rb' \in Seq(EventTypes) /\ Len(rb') <= RingSize
         /\ status' \in [Task -> {"free", "running", "reported", "passed"}]
         /\ \A u \in Task : status'[u] = "free" <=> status[u] = "free"
         /\ target' \in [Task -> Program \cup {None}]
         /\ elevated \subseteq elevated' /\ elevated' \subseteq Task
         /\ \/ lineage_map' = lineage_map
            \/ /\ HasStorage(t) /\ t \in elevated'
               /\ lineage_map' = [lineage_map EXCEPT ![t] = [lineage_map[t] EXCEPT !.setuid_allowed = TRUE]]
            \/ /\ HasStorage(t)
               /\ lineage_map' = [lineage_map EXCEPT ![t] = [lineage_map[t] EXCEPT !.setuid_allowed = FALSE]]
  <1>1. rb' \in Seq(EventTypes) /\ Len(rb') <= RingSize
    <2>1. "EXEC" \in EventTypes
      BY DEF EventTypes
    <2>2. Exact[b] \in 0..2 /\ Prefix[b] \in 0..2
      BY LineageAssumption DEF LineageAssumption
    <2>3. CASE rb' = Submit(rb, "EXEC")
      BY <2>1, <2>3, SubmitType DEF TypeOK
    <2>4. CASE rb' = AfterList(rb, Exact[b])
      BY <2>2, <2>4, ListType DEF TypeOK
    <2>5. CASE rb' = AfterList(AfterList(rb, Exact[b]), Prefix[b])
      BY <2>2, <2>5, ListType DEF TypeOK
    <2> QED BY <2>3, <2>4, <2>5 DEF CheckLists
  <1>2. Passed(t, b) \/ Denied(t)
    BY DEF CheckLists
  <1>3. /\ status' \in [Task -> {"free", "running", "reported", "passed"}]
        /\ \A u \in Task : status'[u] = "free" <=> status[u] = "free"
        /\ target' \in [Task -> Program \cup {None}]
    BY <1>2 DEF Passed, Denied, TypeOK
  <1>4. elevated \subseteq elevated' /\ elevated' \subseteq Task
    BY DEF CheckLists, Denied, TypeOK
  <1>5. \/ lineage_map' = lineage_map
        \/ /\ HasStorage(t) /\ t \in elevated'
           /\ lineage_map' = [lineage_map EXCEPT ![t] = [lineage_map[t] EXCEPT !.setuid_allowed = TRUE]]
        \/ /\ HasStorage(t)
           /\ lineage_map' = [lineage_map EXCEPT ![t] = [lineage_map[t] EXCEPT !.setuid_allowed = FALSE]]
    BY DEF CheckLists, Denied, SetuidFlag, Store
  <1> QED BY <1>1, <1>3, <1>4, <1>5

-----------------------------------------------------------------------------
(* Storing k for t keeps the three facts about the storage if k has the    *)
(* marks that the histories of t ask for.                                  *)
LEMMA StoreKeeps ==
  ASSUME TypeOK, LineageExact, RedirectMarked, SetuidEarned,
         NEW t \in Task, NEW k \in Lineages,
         lineage_map' = [lineage_map EXCEPT ![t] = k],
         \A u \in Task \ {t} : /\ u \notin execMissed' => u \notin execMissed
                             /\ lastSuspicious'[u] = lastSuspicious[u],
         redirected' \subseteq Task,
         \A u \in Task \ {t} : u \in redirected' \ dupMissed' => u \in redirected \ dupMissed,
         elevated \subseteq elevated',
         t \in execMissed' \/ (k.suspicious_ancestor <=> lastSuspicious'[t] # None),
         t \in execMissed' \/ k.ancestor_filename = lastSuspicious'[t],
         t \in redirected' \ dupMissed' => k.socket_redirected,
         k.setuid_allowed => t \in elevated'
  PROVE  /\ lineage_map' \in [Task -> Lineages \cup {NoStorage}]
         /\ LineageExact' /\ RedirectMarked' /\ SetuidEarned'
  <1>1. /\ lineage_map' \in [Task -> Lineages \cup {NoStorage}]
        /\ lineage_map'[t] = k
        /\ \A u \in Task \ {t} : lineage_map'[u] = lineage_map[u]
    BY DEF TypeOK
  <1>2. Value(k) = k
    BY ValueType
  <1>3. LineageExact'
    BY <1>1, <1>2 DEF LineageExact, Live
  <1>4. RedirectMarked'
    BY <1>1, <1>2 DEF RedirectMarked, IsRedirected, Live
  <1>5. SetuidEarned'
    BY <1>1 DEF SetuidEarned, HasStorage
  <1> QED BY <1>1, <1>3, <1>4, <1>5

(* At the start no task has storage or marks.                              *)
LEMMA InitIInv == Init => IInv
  <1> SUFFICES ASSUME Init PROVE IInv
    OBVIOUS
  <1>1. TypeOK
    <2>1. rb \in Seq(EventTypes) /\ Len(rb) <= RingSize
      BY LineageAssumption DEF Init, LineageAssumption
    <2>2. enforcement_enabled \in BOOLEAN /\ root \in [Task -> BOOLEAN]
      BY DEF Init
    <2>3. status \in [Task -> {"free", "running", "reported", "passed"}]
      BY DEF Init
    <2>4. lineage_map \in [Task -> Lineages \cup {NoStorage}]
      BY DEF Init
    <2>5. /\ target \in [Task -> Program \cup {None}]
          /\ lastSuspicious \in [Task -> Suspicious \cup {None}]
      BY DEF Init
    <2>6. redirected \subseteq Task /\ elevated \subseteq Task
          /\ dupMissed \subseteq Task /\ execMissed \subseteq Task
      BY DEF Init
    <2> QED BY <2>1, <2>2, <2>3, <2>4, <2>5, <2>6 DEF TypeOK
  <1>2. \A t \in Task : lineage_map[t] = NoStorage
    BY DEF Init
  <1>3. LineageExact
    <2>1. ~Zeroed.suspicious_ancestor /\ Zeroed.ancestor_filename = None
      BY DEF Zeroed
    <2> QED BY <1>2, <2>1, ValueType DEF Init, LineageExact, Live
  <1> QED BY <1>1, <1>2, <1>3 DEF IInv, FreeClean, RedirectMarked, SetuidEarned, HasStorage, Init

-----------------------------------------------------------------------------
(* A child takes over its parent's marks, or none with its storage.        *)
LEMMA ForkStep ==
  ASSUME IInv, NEW p \in Task, NEW c \in Task, Fork(p, c)
  PROVE  IInv'
  <1> USE DEF IInv
  <1>1. p # c /\ lineage_map[c] = NoStorage /\ c \notin redirected
    BY DEF Fork, FreeClean, HasStorage
  <1>2. PICK l \in Lineages : l = Value(lineage_map[p])
    BY LiveType DEF Live
  <1>3. CASE /\ Store(c, Inherited(p))
             /\ dupMissed' = Heirs(dupMissed, p, c)
             /\ execMissed' = Heirs(execMissed, p, c)
    <2>1. /\ lineage_map' \in [Task -> Lineages \cup {NoStorage}]
          /\ lineage_map'[c] = l
          /\ \A u \in Task \ {c} : lineage_map'[u] = lineage_map[u]
      BY <1>2, <1>3 DEF Store, Inherited, Live, TypeOK
    <2>2. TypeOK'
      BY <1>3, <2>1 DEF TypeOK, Fork, Heirs
    <2>3. FreeClean'
      BY <2>1 DEF FreeClean, Fork, TypeOK, HasStorage, Heirs
    <2>4. LineageExact'
      <3>1. c \notin execMissed' => (l.suspicious_ancestor <=> lastSuspicious[p] # None) /\ l.ancestor_filename = lastSuspicious[p]
        BY <1>2, <1>3 DEF LineageExact, Live, Heirs
      <3>2. lastSuspicious'[c] = lastSuspicious[p] /\ \A u \in Task \ {c} : lastSuspicious'[u] = lastSuspicious[u]
        BY DEF Fork, TypeOK
      <3>3. Value(l) = l
        BY ValueType
      <3>4. \A u \in Task \ {c} : u \notin execMissed' => u \notin execMissed
        BY <1>3 DEF Heirs
      <3> QED BY <2>1, <3>1, <3>2, <3>3, <3>4 DEF LineageExact, Live
    <2>5. RedirectMarked'
      <3>1. c \in redirected' \ dupMissed' => l.socket_redirected
        BY <1>1, <1>2, <1>3 DEF RedirectMarked, IsRedirected, Live, Fork, Heirs
      <3>2. Value(l) = l
        BY ValueType
      <3>3. \A u \in Task \ {c} : u \in redirected' \ dupMissed' => u \in redirected \ dupMissed
        BY <1>3 DEF Fork, Heirs
      <3> QED BY <2>1, <2>2, <3>1, <3>2, <3>3 DEF RedirectMarked, IsRedirected, Live, TypeOK
    <2>6. SetuidEarned'
      <3>1. l.setuid_allowed => p \in elevated
        <4>1. CASE lineage_map[p] = NoStorage
          BY <1>2, <4>1, ValueType DEF Zeroed
        <4>2. CASE lineage_map[p] # NoStorage
          BY <1>2, <4>2, ValueType DEF SetuidEarned, HasStorage, TypeOK
        <4> QED BY <4>1, <4>2
      <3>2. l.setuid_allowed => c \in elevated'
        BY <3>1 DEF Fork, Heirs
      <3>3. elevated \subseteq elevated'
        BY DEF Fork, Heirs
      <3> QED BY <3>2, <3>3, <2>1 DEF SetuidEarned, HasStorage
    <2> QED BY <2>2, <2>3, <2>4, <2>5, <2>6
  <1>4. CASE /\ NoMemory(c)
             /\ dupMissed' = dupMissed \cup {c}
             /\ execMissed' = execMissed \cup {c}
    <2>1. UNCHANGED lineage_map
      BY <1>4 DEF NoMemory
    <2>2. TypeOK'
      BY <1>4, <2>1 DEF TypeOK, Fork, Heirs
    <2>3. FreeClean'
      BY <2>1 DEF FreeClean, Fork, TypeOK, HasStorage, Heirs
    <2>4. LineageExact'
      BY <1>4, <2>1 DEF LineageExact, Live, Fork, TypeOK
    <2>5. RedirectMarked'
      BY <1>4, <2>1 DEF RedirectMarked, IsRedirected, Live, Fork, Heirs, TypeOK
    <2>6. SetuidEarned'
      BY <2>1 DEF SetuidEarned, HasStorage, Fork, Heirs
    <2> QED BY <2>2, <2>3, <2>4, <2>5, <2>6
  <1> QED BY <1>3, <1>4 DEF Fork, kguard_task_alloc

(* A task's storage goes with it.                                          *)
LEMMA ExitStep ==
  ASSUME IInv, NEW t \in Task, Exit(t)
  PROVE  IInv'
  <1> USE DEF IInv
  <1>1. /\ lineage_map' \in [Task -> Lineages \cup {NoStorage}]
        /\ lineage_map'[t] = NoStorage
        /\ \A u \in Task \ {t} : lineage_map'[u] = lineage_map[u]
    BY DEF Exit, TypeOK
  <1>2. TypeOK'
    BY <1>1 DEF TypeOK, Exit
  <1>3. FreeClean'
    BY <1>1 DEF FreeClean, Exit, TypeOK, HasStorage
  <1>4. LineageExact'
    <2>1. ~Zeroed.suspicious_ancestor /\ Zeroed.ancestor_filename = None
      BY DEF Zeroed
    <2>2. lastSuspicious'[t] = None /\ \A u \in Task \ {t} : lastSuspicious'[u] = lastSuspicious[u]
      BY DEF Exit, TypeOK
    <2> QED BY <1>1, <2>1, <2>2, ValueType DEF LineageExact, Live, Exit
  <1>5. RedirectMarked'
    BY <1>1 DEF RedirectMarked, IsRedirected, Live, Exit, TypeOK
  <1>6. SetuidEarned'
    BY <1>1 DEF SetuidEarned, HasStorage, Exit
  <1> QED BY <1>2, <1>3, <1>4, <1>5, <1>6

(* A redirection is recorded, or known to be missed.                       *)
LEMMA DupStep ==
  ASSUME IInv, NEW t \in Task, check_socket_dup(t)
  PROVE  IInv'
  <1> USE DEF IInv
  <1>1. CASE Store(t, [Live(t) EXCEPT !.socket_redirected = TRUE]) /\ dupMissed' = dupMissed \ {t}
    <2>1. PICK l \in Lineages : l = Value(lineage_map[t])
      BY LiveType DEF Live
    <2> DEFINE k == [l EXCEPT !.socket_redirected = TRUE]
    <2>2. /\ k \in Lineages /\ k.socket_redirected
          /\ k.suspicious_ancestor <=> l.suspicious_ancestor
          /\ k.ancestor_filename = l.ancestor_filename
          /\ k.setuid_allowed <=> l.setuid_allowed
      BY WithRedirect
    <2>3. lineage_map' = [lineage_map EXCEPT ![t] = k]
      BY <1>1, <2>1 DEF Store, Live
    <2> HIDE DEF k
    <2>4. t \in execMissed \/ (k.suspicious_ancestor <=> lastSuspicious[t] # None)
      BY <2>1, <2>2 DEF LineageExact, Live
    <2>5. t \in execMissed \/ k.ancestor_filename = lastSuspicious[t]
      BY <2>1, <2>2 DEF LineageExact, Live
    <2>6. k.setuid_allowed => t \in elevated
      <3>1. CASE lineage_map[t] = NoStorage
        BY <2>1, <2>2, <3>1, ValueType DEF Zeroed
      <3>2. CASE lineage_map[t] # NoStorage
        <4>1. l = lineage_map[t]
          BY <2>1, <3>2, ValueType DEF TypeOK
        <4> QED BY <2>2, <3>2, <4>1 DEF SetuidEarned, HasStorage
      <3> QED BY <3>1, <3>2
    <2>7. /\ lineage_map' \in [Task -> Lineages \cup {NoStorage}]
          /\ LineageExact' /\ RedirectMarked' /\ SetuidEarned'
      <3>1. /\ redirected' \subseteq Task
            /\ \A u \in Task \ {t} : u \in redirected' \ dupMissed' => u \in redirected \ dupMissed
            /\ UNCHANGED <<execMissed, lastSuspicious, elevated>>
        BY <1>1 DEF check_socket_dup, TypeOK
      <3> QED BY <2>2, <2>3, <2>4, <2>5, <2>6, <3>1, StoreKeeps
    <2>8. TypeOK'
      BY <1>1, <2>7 DEF TypeOK, check_socket_dup, worldVars
    <2>9. FreeClean'
      BY <2>3 DEF FreeClean, check_socket_dup, worldVars, TypeOK, HasStorage
    <2> QED BY <2>7, <2>8, <2>9
  <1>2. CASE NoMemory(t) /\ dupMissed' = dupMissed \cup {t}
    <2>1. UNCHANGED lineage_map
      BY <1>2 DEF NoMemory
    <2>2. TypeOK'
      BY <1>2, <2>1 DEF TypeOK, check_socket_dup, worldVars
    <2>3. FreeClean' /\ SetuidEarned'
      BY <2>1 DEF FreeClean, SetuidEarned, check_socket_dup, worldVars, HasStorage
    <2>4. LineageExact'
      BY <2>1 DEF LineageExact, Live, check_socket_dup
    <2>5. RedirectMarked'
      BY <1>2, <2>1 DEF RedirectMarked, IsRedirected, Live, check_socket_dup
    <2> QED BY <2>2, <2>3, <2>4, <2>5
  <1> QED BY <1>1, <1>2 DEF check_socket_dup

(* What ListsStep allows keeps the invariant.                              *)
LEMMA HookKeeps ==
  ASSUME IInv, NEW t \in Task, NEW b \in Program, status[t] # "free", CheckLists(t, b),
         UNCHANGED <<root, enforcement_enabled, redirected, lastSuspicious, missed>>
  PROVE  IInv'
  <1> USE DEF IInv
  <1>1. CASE lineage_map' = lineage_map
    <2>1. TypeOK'
      BY <1>1, ListsStep DEF TypeOK, missed
    <2>2. FreeClean' /\ SetuidEarned'
      BY <1>1, ListsStep DEF FreeClean, SetuidEarned, HasStorage
    <2>3. LineageExact' /\ RedirectMarked'
      BY <1>1 DEF LineageExact, RedirectMarked, IsRedirected, Live, missed
    <2> QED BY <2>1, <2>2, <2>3
  <1>2. ASSUME NEW k \in Lineages, HasStorage(t),
               lineage_map' = [lineage_map EXCEPT ![t] = k],
               k.setuid_allowed => t \in elevated',
               k.suspicious_ancestor <=> lineage_map[t].suspicious_ancestor,
               k.ancestor_filename = lineage_map[t].ancestor_filename,
               k.socket_redirected <=> lineage_map[t].socket_redirected
        PROVE  IInv'
    <2>1. Value(lineage_map[t]) = lineage_map[t]
      BY <1>2, ValueType DEF HasStorage, TypeOK
    <2>2. t \in execMissed \/ (k.suspicious_ancestor <=> lastSuspicious[t] # None)
      BY <1>2, <2>1 DEF LineageExact, Live
    <2>3. t \in execMissed \/ k.ancestor_filename = lastSuspicious[t]
      BY <1>2, <2>1 DEF LineageExact, Live
    <2>4. t \in redirected \ dupMissed => k.socket_redirected
      BY <1>2, <2>1 DEF RedirectMarked, IsRedirected, Live
    <2>5. /\ lineage_map' \in [Task -> Lineages \cup {NoStorage}]
          /\ LineageExact' /\ RedirectMarked' /\ SetuidEarned'
      <3>1. elevated \subseteq elevated' /\ redirected \subseteq Task
            /\ UNCHANGED <<execMissed, dupMissed, lastSuspicious, redirected>>
        BY ListsStep DEF missed, TypeOK
      <3> QED BY <1>2, <2>2, <2>3, <2>4, <3>1, StoreKeeps
    <2>6. TypeOK'
      BY <2>5, ListsStep DEF TypeOK, missed
    <2>7. FreeClean'
      BY <1>2, ListsStep DEF FreeClean, HasStorage, TypeOK
    <2> QED BY <2>5, <2>6, <2>7
  <1>3. ASSUME HasStorage(t), t \in elevated',
               lineage_map' = [lineage_map EXCEPT ![t] = [lineage_map[t] EXCEPT !.setuid_allowed = TRUE]]
        PROVE  IInv'
    <2>1. lineage_map[t] \in Lineages
      BY <1>3 DEF HasStorage, TypeOK
    <2> DEFINE k == [lineage_map[t] EXCEPT !.setuid_allowed = TRUE]
    <2>2. /\ k \in Lineages
          /\ k.suspicious_ancestor <=> lineage_map[t].suspicious_ancestor
          /\ k.ancestor_filename = lineage_map[t].ancestor_filename
          /\ k.socket_redirected <=> lineage_map[t].socket_redirected
      BY <2>1, WithSetuid
    <2>3. lineage_map' = [lineage_map EXCEPT ![t] = k]
      BY <1>3
    <2> HIDE DEF k
    <2> QED BY <1>2, <1>3, <2>2, <2>3
  <1>4. ASSUME HasStorage(t),
               lineage_map' = [lineage_map EXCEPT ![t] = [lineage_map[t] EXCEPT !.setuid_allowed = FALSE]]
        PROVE  IInv'
    <2>1. lineage_map[t] \in Lineages
      BY <1>4 DEF HasStorage, TypeOK
    <2> DEFINE k == [lineage_map[t] EXCEPT !.setuid_allowed = FALSE]
    <2>2. /\ k \in Lineages /\ ~k.setuid_allowed
          /\ k.suspicious_ancestor <=> lineage_map[t].suspicious_ancestor
          /\ k.ancestor_filename = lineage_map[t].ancestor_filename
          /\ k.socket_redirected <=> lineage_map[t].socket_redirected
      BY <2>1, WithSetuid
    <2>3. lineage_map' = [lineage_map EXCEPT ![t] = k]
      BY <1>4
    <2> HIDE DEF k
    <2> QED BY <1>2, <1>4, <2>2, <2>3
  <1> QED BY <1>1, <1>3, <1>4, ListsStep

(* A step that touches neither the storage nor the histories.              *)
LEMMA QuietStep ==
  ASSUME IInv, UNCHANGED <<lineage_map, redirected, lastSuspicious, elevated, dupMissed, execMissed>>,
         TypeOK', \A u \in Task : status'[u] = "free" => status[u] = "free"
  PROVE  IInv'
  BY DEF IInv, FreeClean, LineageExact, RedirectMarked, SetuidEarned, IsRedirected, Live, HasStorage

(* The exec hook's first part.                                             *)
LEMMA CheckStep ==
  ASSUME IInv, NEW t \in Task, NEW b \in Program, lsm_bprm_check(t, b)
  PROVE  IInv'
  <1> USE DEF IInv
  <1>1. CASE Passed(t, b) /\ UNCHANGED <<lineage_map, rb, elevated>>
    <2>1. TypeOK' /\ \A u \in Task : status'[u] = "free" => status[u] = "free"
      BY <1>1 DEF TypeOK, Passed, lsm_bprm_check, missed
    <2> QED BY <1>1, <2>1, QuietStep DEF lsm_bprm_check, missed
  <1>2. CASE /\ rb' = Submit(rb, "REVERSE_SHELL")
             /\ status' = [status EXCEPT ![t] = "reported"]
             /\ target' = [target EXCEPT ![t] = b]
             /\ UNCHANGED <<lineage_map, elevated>>
    <2>1. rb' \in Seq(EventTypes) /\ Len(rb') <= RingSize
      <3>1. "REVERSE_SHELL" \in EventTypes
        BY DEF EventTypes
      <3> QED BY <1>2, <3>1, SubmitType DEF TypeOK
    <2>2. TypeOK' /\ \A u \in Task : status'[u] = "free" => status[u] = "free"
      BY <1>2, <2>1 DEF TypeOK, lsm_bprm_check, missed
    <2> QED BY <1>2, <2>2, QuietStep DEF lsm_bprm_check, missed
  <1>3. CASE CheckLists(t, b)
    BY <1>3, HookKeeps DEF lsm_bprm_check
  <1> QED BY <1>1, <1>2, <1>3 DEF lsm_bprm_check

(* The exec hook's second read of the switch.                              *)
LEMMA RereadStep ==
  ASSUME IInv, NEW t \in Task, RereadSwitch(t), target[t] \in Program
  PROVE  IInv'
  <1> USE DEF IInv
  <1>1. CASE Denied(t) /\ UNCHANGED rb
    <2>1. TypeOK' /\ \A u \in Task : status'[u] = "free" => status[u] = "free"
      BY <1>1 DEF TypeOK, Denied, RereadSwitch, missed
    <2> QED BY <1>1, <2>1, QuietStep DEF RereadSwitch, Denied, missed
  <1>2. CASE CheckLists(t, target[t])
    BY <1>2, HookKeeps DEF RereadSwitch
  <1> QED BY <1>1, <1>2 DEF RereadSwitch

(* A finished exec, with tp_schedexec's mark or its loss.                  *)
LEMMA ExecStep ==
  ASSUME IInv, NEW t \in Task, tp_schedexec(t), target[t] \in Program
  PROVE  IInv'
  <1> USE DEF IInv
  <1>0. PICK b \in Program : b = target[t]
    OBVIOUS
  <1>1. /\ status' \in [Task -> {"free", "running", "reported", "passed"}]
        /\ target' \in [Task -> Program \cup {None}]
        /\ \A u \in Task : status'[u] = "free" => status[u] = "free"
    BY DEF TypeOK, tp_schedexec
  <1>2. /\ lastSuspicious' \in [Task -> Suspicious \cup {None}]
        /\ \A u \in Task \ {t} : lastSuspicious'[u] = lastSuspicious[u]
        /\ b \in Suspicious => lastSuspicious'[t] = b
        /\ b \notin Suspicious => lastSuspicious' = lastSuspicious
    BY <1>0 DEF TypeOK, tp_schedexec
  <1>3. rb' \in Seq(EventTypes) /\ Len(rb') <= RingSize
    <2>1. "EXEC" \in EventTypes
      BY DEF EventTypes
    <2> QED BY <2>1, SubmitType DEF TypeOK, tp_schedexec
  <1>4. execMissed' \subseteq Task /\ UNCHANGED <<root, enforcement_enabled, redirected, elevated, dupMissed>>
    BY DEF TypeOK, tp_schedexec, handle_suspicious_lineage
  <1>5. ASSUME lineage_map' \in [Task -> Lineages \cup {NoStorage}],
               \A u \in Task \ {t} : lineage_map'[u] = lineage_map[u],
               LineageExact', RedirectMarked', SetuidEarned'
        PROVE  IInv'
    <2>1. TypeOK'
      BY <1>1, <1>2, <1>3, <1>4, <1>5 DEF TypeOK
    <2>2. FreeClean'
      BY <1>1, <1>4, <1>5 DEF FreeClean, HasStorage, tp_schedexec, TypeOK
    <2> QED BY <1>5, <2>1, <2>2
  <1>6. CASE UNCHANGED <<lineage_map, execMissed>> /\ b \notin Suspicious
    <2>1. LineageExact' /\ RedirectMarked' /\ SetuidEarned'
      BY <1>2, <1>4, <1>6 DEF LineageExact, RedirectMarked, SetuidEarned, IsRedirected, Live, HasStorage
    <2> QED BY <1>5, <1>6, <2>1 DEF TypeOK
  <1>7. CASE UNCHANGED lineage_map /\ execMissed' = execMissed \cup {t}
    <2>1. LineageExact'
      BY <1>2, <1>7 DEF LineageExact, Live
    <2>2. RedirectMarked' /\ SetuidEarned'
      BY <1>4, <1>7 DEF RedirectMarked, SetuidEarned, IsRedirected, Live, HasStorage
    <2> QED BY <1>5, <1>7, <2>1, <2>2 DEF TypeOK
  <1>8. CASE /\ b \in Suspicious
             /\ Store(t, Marked(Live(t), b))
             /\ execMissed' = execMissed \ {t}
    <2>1. PICK l \in Lineages : l = Value(lineage_map[t])
      BY LiveType DEF Live
    <2> DEFINE k == Marked(l, b)
    <2>2. /\ k \in Lineages /\ k.suspicious_ancestor /\ k.ancestor_filename = b
          /\ k.setuid_allowed <=> l.setuid_allowed
          /\ k.socket_redirected <=> l.socket_redirected
      BY <2>1, WithSuspicion
    <2>3. lineage_map' = [lineage_map EXCEPT ![t] = k]
      BY <1>8, <2>1 DEF Store, Live
    <2> HIDE DEF k
    <2>4. (k.suspicious_ancestor <=> lastSuspicious'[t] # None) /\ k.ancestor_filename = lastSuspicious'[t]
      BY <1>2, <1>8, <2>2, LineageAssumption DEF LineageAssumption
    <2>5. k.setuid_allowed => t \in elevated
      <3>1. CASE lineage_map[t] = NoStorage
        BY <2>1, <2>2, <3>1, ValueType DEF Zeroed
      <3>2. CASE lineage_map[t] # NoStorage
        <4>1. l = lineage_map[t]
          BY <2>1, <3>2, ValueType DEF TypeOK
        <4> QED BY <2>2, <3>2, <4>1 DEF SetuidEarned, HasStorage
      <3> QED BY <3>1, <3>2
    <2>6. t \in redirected \ dupMissed => k.socket_redirected
      BY <2>1, <2>2 DEF RedirectMarked, IsRedirected, Live
    <2>7. \A u \in Task \ {t} : u \notin execMissed' => u \notin execMissed
      BY <1>8
    <2>8. /\ lineage_map' \in [Task -> Lineages \cup {NoStorage}]
          /\ LineageExact' /\ RedirectMarked' /\ SetuidEarned'
      <3>1. redirected \subseteq Task
        BY DEF TypeOK
      <3> QED BY <1>2, <1>4, <2>2, <2>3, <2>4, <2>5, <2>6, <2>7, <3>1, StoreKeeps
    <2>9. \A u \in Task \ {t} : lineage_map'[u] = lineage_map[u]
      BY <2>3 DEF TypeOK
    <2> QED BY <1>5, <2>8, <2>9
  <1>9. \/ UNCHANGED <<lineage_map, execMissed>> /\ b \notin Suspicious
        \/ UNCHANGED lineage_map /\ execMissed' = execMissed \cup {t}
        \/ /\ b \in Suspicious
           /\ Store(t, Marked(Live(t), b))
           /\ execMissed' = execMissed \ {t}
    BY <1>0 DEF tp_schedexec, handle_suspicious_lineage, NoMemory
  <1> QED BY <1>6, <1>7, <1>8, <1>9

(* The setuid hook changes no lineage.                                     *)
LEMMA FixSetuidStep ==
  ASSUME IInv, NEW t \in Task, NEW r \in BOOLEAN, kguard_task_fix_setuid(t, r)
  PROVE  IInv'
  <1>1. rb' \in Seq(EventTypes) /\ Len(rb') <= RingSize
    <2>1. "LPE_BLOCKED" \in EventTypes
      BY DEF EventTypes
    <2> QED BY <2>1, SubmitType DEF kguard_task_fix_setuid, IInv, TypeOK
  <1>2. root' \in [Task -> BOOLEAN]
    BY Zenon DEF kguard_task_fix_setuid, IInv, TypeOK
  <1>3. UNCHANGED <<status, target, lineage_map, enforcement_enabled, redirected,
                    lastSuspicious, elevated, dupMissed, execMissed>>
    BY DEF kguard_task_fix_setuid, history, missed
  <1>4. TypeOK'
    BY <1>1, <1>2, <1>3 DEF IInv, TypeOK
  <1> QED BY <1>3, <1>4, QuietStep

(* A failed exec, the switch and the reader change no lineage.             *)
LEMMA OtherStep ==
  ASSUME IInv, (\E t \in Task : ExecFails(t)) \/ (\E on \in BOOLEAN : SetEnforcement(on)) \/ ReadRecord
  PROVE  IInv'
  <1>1. ASSUME NEW t \in Task, ExecFails(t) PROVE IInv'
    <2>1. TypeOK' /\ \A u \in Task : status'[u] = "free" => status[u] = "free"
      BY <1>1 DEF IInv, TypeOK, ExecFails, history, missed
    <2> QED BY <1>1, <2>1, QuietStep DEF ExecFails, history, missed
  <1>2. ASSUME NEW on \in BOOLEAN, SetEnforcement(on) PROVE IInv'
    <2>1. TypeOK'
      BY <1>2 DEF IInv, TypeOK, SetEnforcement, worldVars, history, missed
    <2> QED BY <1>2, <2>1, QuietStep DEF SetEnforcement, worldVars, history, missed
  <1>3. CASE ReadRecord
    <2>1. rb' \in Seq(EventTypes) /\ Len(rb') <= RingSize
      BY <1>3, LineageAssumption DEF IInv, TypeOK, ReadRecord, LineageAssumption
    <2>2. TypeOK'
      BY <1>3, <2>1 DEF IInv, TypeOK, ReadRecord, worldVars, history, missed
    <2> QED BY <1>3, <2>2, QuietStep DEF ReadRecord, worldVars, history, missed
  <1> QED BY <1>1, <1>2, <1>3

-----------------------------------------------------------------------------
(* An execve that the hook has seen is the execve of some program.         *)
TargetSet == \A t \in Task : status[t] \in {"reported", "passed"} => target[t] \in Program

(* A task past the hook has a program to run.                              *)
LEMMA TargetStep ==
  ASSUME TypeOK, TargetSet, [Next]_vars
  PROVE  TargetSet'
  <1> USE DEF TypeOK, TargetSet
  <1>1. ASSUME NEW p \in Task, NEW c \in Task, Fork(p, c) PROVE TargetSet'
    BY <1>1 DEF Fork
  <1>2. ASSUME NEW t \in Task, Exit(t) PROVE TargetSet'
    BY <1>2 DEF Exit
  <1>3. ASSUME NEW t \in Task, RereadSwitch(t) PROVE TargetSet'
    <2>1. Denied(t) \/ Passed(t, target[t])
      BY <1>3 DEF RereadSwitch, CheckLists
    <2> QED BY <1>3, <2>1 DEF RereadSwitch, Denied, Passed
  <1>4. ASSUME NEW t \in Task, ExecFails(t) \/ tp_schedexec(t) PROVE TargetSet'
    BY <1>4 DEF ExecFails, tp_schedexec
  <1>5. ASSUME NEW t \in Task, NEW b \in Program, lsm_bprm_check(t, b) PROVE TargetSet'
    <2>1. \/ Denied(t) \/ Passed(t, b)
          \/ status' = [status EXCEPT ![t] = "reported"] /\ target' = [target EXCEPT ![t] = b]
      BY <1>5 DEF lsm_bprm_check, CheckLists
    <2> QED BY <2>1 DEF Denied, Passed
  <1>6. CASE UNCHANGED <<status, target>>
    BY <1>6
  <1> QED BY <1>1, <1>2, <1>3, <1>4, <1>5, <1>6
      DEF Next, vars, worldVars, check_socket_dup, kguard_task_fix_setuid, SetEnforcement, ReadRecord

(* Every step keeps the invariant.                                         *)
LEMMA NextStep ==
  ASSUME IInv, TargetSet, [Next]_vars
  PROVE  IInv'
  <1>1. CASE UNCHANGED vars
    <2>1. TypeOK'
      BY <1>1 DEF IInv, TypeOK, vars, worldVars, history, missed
    <2> QED BY <1>1, <2>1, QuietStep DEF vars, worldVars, history, missed
  <1>2. ASSUME NEW t \in Task, RereadSwitch(t) PROVE IInv'
    BY <1>2, RereadStep DEF TargetSet, RereadSwitch
  <1>3. ASSUME NEW t \in Task, tp_schedexec(t) PROVE IInv'
    BY <1>3, ExecStep DEF TargetSet, tp_schedexec
  <1> QED BY <1>1, <1>2, <1>3, ForkStep, ExitStep, DupStep, CheckStep, FixSetuidStep, OtherStep DEF Next

(* The invariant holds in every reachable state.                           *)
LEMMA Inductive == Spec => [](IInv /\ TargetSet)
  <1>1. Init => IInv /\ TargetSet
    <2>1. Init => TargetSet
      BY DEF Init, TargetSet
    <2> QED BY <2>1, InitIInv
  <1>2. IInv /\ TargetSet /\ [Next]_vars => IInv' /\ TargetSet'
    BY NextStep, TargetStep DEF IInv
  <1> QED BY <1>1, <1>2, PTL DEF Spec

-----------------------------------------------------------------------------
(* The storage and the ring buffer of every reachable state are            *)
(* well-formed (task_alloc, bprm_check_security, sched_process_exec).      *)
THEOREM TypeCorrect == Spec => []TypeOK
  <1>1. IInv /\ TargetSet => TypeOK
    BY DEF IInv
  <1> QED BY <1>1, Inductive, PTL

(* The suspicious mark tells exactly what ran above a task, whatever the   *)
(* tree of tasks (task_alloc, tp_schedexec).                               *)
THEOREM LineageIsExact == Spec => []LineageExact
  <1>1. IInv /\ TargetSet => LineageExact
    BY DEF IInv
  <1> QED BY <1>1, Inductive, PTL

(* With enforcement on, no descendant of a redirected task passes the exec *)
(* hook (check_socket_dup, task_alloc, bprm_check_security).               *)
THEOREM RedirectedStopped == Spec => RedirectedNeverExecs
  <1> DEFINE A == \A t \in Task :
          enforcement_enabled /\ status[t] # "passed" /\ status'[t] = "passed"
              => t \notin redirected \ dupMissed \/ target'[t] \in LongPath
  <1>1. ASSUME IInv, Next, NEW t \in Task, enforcement_enabled, status[t] # "passed", status'[t] = "passed"
        PROVE  t \notin redirected \ dupMissed \/ target'[t] \in LongPath
    <2> USE <1>1 DEF IInv, TypeOK
    <2>1. PICK b \in Program : lsm_bprm_check(t, b)
      <3>1. ASSUME NEW p \in Task, NEW c \in Task, Fork(p, c) PROVE FALSE
        BY <3>1 DEF Fork
      <3>2. ASSUME NEW u \in Task, Exit(u) \/ check_socket_dup(u) \/ ExecFails(u) \/ tp_schedexec(u) PROVE FALSE
        BY <3>2 DEF Exit, check_socket_dup, ExecFails, tp_schedexec, worldVars
      <3>3. ASSUME NEW u \in Task, RereadSwitch(u) PROVE FALSE
        BY <3>3 DEF RereadSwitch, Denied
      <3>4. ASSUME NEW u \in Task, NEW b \in Program, lsm_bprm_check(u, b), u # t PROVE FALSE
        BY <3>4 DEF lsm_bprm_check, CheckLists, Passed, Denied
      <3> QED BY <3>1, <3>2, <3>3, <3>4 DEF Next, kguard_task_fix_setuid, SetEnforcement, ReadRecord, worldVars
    <2>2. CASE b \in LongPath
      BY <2>1, <2>2 DEF lsm_bprm_check, Unchecked, Passed
    <2>3. CASE b \notin LongPath
      <3>1. ~IsRedirected(t)
        BY <2>1, <2>3 DEF lsm_bprm_check, Unchecked
      <3> QED BY <3>1 DEF RedirectMarked
    <2> QED BY <2>2, <2>3
  <1>2. IInv /\ [Next]_vars => [A]_vars
    BY <1>1
  <1> HIDE DEF A
  <1>3. [][A]_vars => RedirectedNeverExecs
    BY DEF A, RedirectedNeverExecs
  <1> QED BY <1>2, <1>3, Inductive, PTL DEF Spec

(* With enforcement on, uid 0 is reached only through a setuid program     *)
(* that the exec hook let in (task_fix_setuid, bprm_check_security).       *)
THEOREM RootOnlyViaSetuid == Spec => RootNeedsSetuid
  <1> DEFINE A == \A t \in Task :
          enforcement_enabled /\ HasStorage(t) /\ ~root[t] /\ root'[t] => t \in elevated
  <1>1. ASSUME IInv, Next, NEW t \in Task, enforcement_enabled, HasStorage(t), ~root[t], root'[t]
        PROVE  t \in elevated
    <2> USE <1>1 DEF IInv, TypeOK
    <2>1. PICK r \in BOOLEAN : kguard_task_fix_setuid(t, r)
      <3>1. ASSUME NEW p \in Task, NEW c \in Task, Fork(p, c) PROVE FALSE
        BY <3>1 DEF Fork, FreeClean
      <3>2. ASSUME NEW u \in Task, NEW r \in BOOLEAN, kguard_task_fix_setuid(u, r), u # t PROVE FALSE
        BY <3>2 DEF kguard_task_fix_setuid
      <3>3. CASE UNCHANGED root
        BY <3>3
      <3> QED BY <3>1, <3>2, <3>3 DEF Next, Exit, check_socket_dup, RereadSwitch, ExecFails, tp_schedexec,
            lsm_bprm_check, SetEnforcement, ReadRecord, worldVars
    <2>2. ~Escalates(t, r)
      BY <2>1 DEF kguard_task_fix_setuid
    <2>3. r
      BY <2>1, Zenon DEF kguard_task_fix_setuid
    <2>4. lineage_map[t].setuid_allowed
      BY <2>2, <2>3 DEF Escalates
    <2> QED BY <2>4 DEF SetuidEarned
  <1>2. IInv /\ [Next]_vars => [A]_vars
    BY <1>1
  <1> HIDE DEF A
  <1>3. [][A]_vars => RootNeedsSetuid
    BY DEF A, RootNeedsSetuid
  <1> QED BY <1>2, <1>3, Inductive, PTL DEF Spec

=============================================================================
