------------------------------ MODULE Library ------------------------------
(***************************************************************************)
(* The process-wide state of the library that threads share: the once-only *)
(* initialisation of mysql_server_init and its undoing in mysql_server_end *)
(* (mariadb_lib.c), the registry of client plugins                         *)
(* (ma_client_plugin.c.in), the list of I/O callbacks a trace plugin       *)
(* registers (ma_pvio.c) and the function tables that the first connection *)
(* with the 2.0 protocol fills (ob_protocol20.c, ob_full_link_trace.c).    *)
(***************************************************************************)
EXTENDS Integers, Sequences, FiniteSets, SequencesExt

CONSTANTS
  Threads,
  Builtins,        \* names of the plugins linked in
  Files,           \* names of the plugins that can be loaded from a file
  PluginType,      \* name -> index in valid_plugins, 0..4
  FileKind,        \* name -> "good", "bad" (init fails), "other" (no plugin)
  StoresInOrder,   \* the build keeps init_flag's store after the table's
  MaxCalls         \* bound: calls of a thread

VARIABLES lib,     \* the shared state
          thr      \* thread -> where its call stands

PluginTypes == 0..4
(* mysql_client_plugin_deinit visits the first MYSQL_CLIENT_MAX_PLUGINS    *)
(* lists: authentication, pvio and trace.                                  *)
MaxPlugins == 3
TraceType == 2

NoThread == [pc |-> "idle", name |-> "none", res |-> "none", calls |-> 0]
NoLib == [once |-> FALSE, lists |-> [n \in PluginTypes |-> <<>>], lock |-> "free",
          inits |-> [p \in Builtins \cup Files |-> 0],
          open |-> [p \in Files |-> 0],
          callbacks |-> <<>>, freed |-> FALSE, ends |-> 0,
          table |-> FALSE, flag |-> FALSE, mutex |-> "free"]

LibInit == lib = NoLib /\ thr = [t \in Threads |-> NoThread]

(* find_plugin: the list of the type, read without the mutex               *)
FindPlugin(l, p) == Contains(l.lists[PluginType[p]], p)

(* ma_pvio_register_callback: list_add in front; on removal list_delete's  *)
(* result is not stored, so a head element stays where it is.              *)
RegisterCallback(l, p) == [l EXCEPT !.callbacks = <<p>> \o @]
UnregisterCallback(l, p) ==
  IF l.callbacks # <<>> /\ Head(l.callbacks) = p THEN l
  ELSE [l EXCEPT !.callbacks = SelectSeq(@, LAMBDA c : c # p)]

(* add_plugin: the plugin's init function, then the head of its list; a    *)
(* file whose init fails is closed.                                        *)
AddPlugin(l, p) ==
  LET m == IF PluginType[p] = TraceType THEN RegisterCallback(l, p) ELSE l
  IN IF p \in Files /\ FileKind[p] = "bad" THEN [l EXCEPT !.open[p] = @ - 1]
     ELSE [m EXCEPT !.inits[p] = @ + 1, !.lists[PluginType[p]] = <<p>> \o @]

(* mysql_client_plugin_init, inside mysql_once_init                        *)
ServerInit(t) ==
  /\ thr[t].pc = "idle" /\ ~lib.once
  /\ lib' = FoldSet(LAMBDA p, l : AddPlugin(l, p), [lib EXCEPT !.once = TRUE], Builtins)
  /\ UNCHANGED thr

(* mysql_client_plugin_deinit: deinit of every plugin of the lists visited *)
Deinit(l) ==
  LET gone == UNION {Range(l.lists[n]) : n \in 0..(MaxPlugins - 1)}
      m == FoldSet(LAMBDA p, k : IF PluginType[p] = TraceType THEN UnregisterCallback(k, p) ELSE k,
                   l, gone)
  IN [m EXCEPT !.lists = [n \in PluginTypes |-> <<>>],
               !.inits = [p \in DOMAIN @ |-> IF p \in gone THEN @[p] - 1 ELSE @[p]],
               !.open = [p \in DOMAIN @ |-> IF p \in gone THEN @[p] - 1 ELSE @[p]]]

(* mysql_server_end, called when no other call is in progress: the plugins *)
(* first, then the callback list is freed, its variable left as it is.     *)
ServerEnd(t) ==
  /\ lib.once /\ lib.ends = 0
  /\ \A u \in Threads : thr[u].pc = "idle"
  /\ lib' = LET l == Deinit(lib)
            IN [l EXCEPT !.once = FALSE, !.freed = l.callbacks # <<>>, !.ends = 1]
  /\ UNCHANGED thr

(***************************************************************************)
(* Plugins                                                                 *)
(***************************************************************************)
Call(t, pc, p) == [thr EXCEPT ![t] = [pc |-> pc, name |-> p,
                                      res |-> "none", calls |-> @.calls + 1]]
Return(t, res) == [thr EXCEPT ![t].pc = "idle", ![t].res = res]

(* mysql_client_find_plugin: the search before anything is locked          *)
FindStart(t) ==
  /\ thr[t].pc = "idle" /\ lib.once /\ thr[t].calls < MaxCalls
  /\ \E p \in Files :
       thr' = IF FindPlugin(lib, p)
              THEN [Call(t, "idle", p) EXCEPT ![t].res = p]
              ELSE Call(t, "load", p)
  /\ UNCHANGED lib

(* mysql_load_plugin_v and mysql_client_register_plugin take the mutex.    *)
LoadLock(t) ==
  /\ thr[t].pc = "load" /\ lib.lock = "free"
  /\ lib' = [lib EXCEPT !.lock = t]
  /\ thr' = [thr EXCEPT ![t].pc = "loading"]

(* The rest of mysql_load_plugin_v.  Loaded meanwhile: an error.  A file   *)
(* without the plugin symbol is closed twice.                              *)
LoadBody_NoCheck(t) ==
  /\ thr[t].pc = "loading"
  /\ LET p == thr[t].name
         opened == [lib EXCEPT !.open[p] = @ + 1]
     IN IF FileKind[p] = "other"
        THEN lib' = [opened EXCEPT !.open[p] = @ - 2, !.lock = "free"] /\ thr' = Return(t, "null")
        ELSE /\ lib' = [AddPlugin(opened, p) EXCEPT !.lock = "free"]
             /\ thr' = Return(t, IF FileKind[p] = "good" THEN p ELSE "null")
LoadBody(t) ==
  /\ thr[t].pc = "loading"
  /\ LET p == thr[t].name
         opened == [lib EXCEPT !.open[p] = @ + 1]
     IN IF FindPlugin(lib, p)
        THEN lib' = [lib EXCEPT !.lock = "free"] /\ thr' = Return(t, "null")
        ELSE IF FileKind[p] = "other"
        THEN lib' = [opened EXCEPT !.open[p] = @ - 2, !.lock = "free"] /\ thr' = Return(t, "null")
        ELSE /\ lib' = [AddPlugin(opened, p) EXCEPT !.lock = "free"]
             /\ thr' = Return(t, IF FileKind[p] = "good" THEN p ELSE "null")

(***************************************************************************)
(* The tables of ob20_init and flt_init: init_flag is tested, then tested  *)
(* again under init_mutex.                                                 *)
(***************************************************************************)
TableCheck(t) ==
  /\ thr[t].pc = "idle" /\ lib.once /\ thr[t].calls < MaxCalls
  /\ thr' = Call(t, IF lib.flag THEN "use" ELSE "wait", "none")
  /\ UNCHANGED lib

TableLock(t) ==
  /\ thr[t].pc = "wait" /\ lib.mutex = "free"
  /\ lib' = [lib EXCEPT !.mutex = t]
  /\ thr' = [thr EXCEPT ![t].pc = IF lib.flag THEN "unlock" ELSE "fill"]

(* The two stores, the table's and the flag's; unordered in a build that   *)
(* does not keep them so.                                                  *)
TableFill(t) ==
  /\ thr[t].pc = "fill"
  /\ \/ ~lib.table /\ lib' = [lib EXCEPT !.table = TRUE]
     \/ ~lib.flag /\ (StoresInOrder => lib.table) /\ lib' = [lib EXCEPT !.flag = TRUE]
  /\ thr' = [thr EXCEPT ![t].pc = IF lib'.table /\ lib'.flag THEN "unlock" ELSE "fill"]

TableUnlock(t) ==
  /\ thr[t].pc = "unlock"
  /\ lib' = [lib EXCEPT !.mutex = "free"]
  /\ thr' = [thr EXCEPT ![t].pc = "use"]

(* The connection's first message goes through the table.                  *)
TableUse(t) ==
  /\ thr[t].pc = "use"
  /\ thr' = Return(t, "none")
  /\ UNCHANGED lib

LibNext == \E t \in Threads :
  \/ ServerInit(t) \/ ServerEnd(t)
  \/ FindStart(t) \/ LoadLock(t) \/ LoadBody(t)
  \/ TableCheck(t) \/ TableLock(t) \/ TableFill(t) \/ TableUnlock(t) \/ TableUse(t)

(***************************************************************************)
(* Properties                                                              *)
(***************************************************************************)
Listed(p) == Contains(lib.lists[PluginType[p]], p)

(* "The main purpose of a mutex is to prevent two threads from loading the *)
(* same plugin twice in parallel" (ma_client_plugin.c.in:73): a plugin is  *)
(* listed once, and its init function has run once since its last deinit,  *)
(* for the types that mysql_client_plugin_deinit visits.                   *)
LoadedOnce ==
  \A p \in Builtins \cup Files :
    /\ IsInjective(lib.lists[PluginType[p]])
    /\ PluginType[p] < MaxPlugins => lib.inits[p] = (IF Listed(p) THEN 1 ELSE 0)

(* Both mutexes are free unless a thread is between lock and unlock: every *)
(* way out of mysql_load_plugin_v and of ob20_init gives them back.        *)
LocksReleased ==
  /\ lib.lock # "free" => thr[lib.lock].pc = "loading"
  /\ lib.mutex # "free" => thr[lib.mutex].pc \in {"fill", "unlock"}

(* A file that holds a plugin is open exactly while the plugin is listed,  *)
(* for the types that mysql_client_plugin_deinit visits.                   *)
HandlesMatch ==
  \A p \in Files :
    (FileKind[p] # "other" /\ PluginType[p] < MaxPlugins /\ \A t \in Threads : thr[t].pc # "loading")
      => lib.open[p] = (IF Listed(p) THEN 1 ELSE 0)

(* Until mysql_server_end, a callback on the list belongs to a plugin that *)
(* is loaded: ma_pvio_read and ma_pvio_write never call into a file that   *)
(* has been closed.                                                        *)
CallbackLoaded == lib.ends = 0 => \A i \in 1..Len(lib.callbacks) : Listed(lib.callbacks[i])

(* No connection uses the tables of the 2.0 protocol before they are       *)
(* filled, though ob20_init first tests init_flag without the lock.        *)
TableReady == \A t \in Threads : thr[t].pc = "use" => lib.table

(* What the threads of a process share of the library is sound whichever   *)
(* of them loads, registers or initialises first: plugins and files are    *)
(* loaded once, no callback leads into a closed file, nobody reads the     *)
(* protocol tables before they are filled, and no path keeps a mutex       *)
(* (mysql_load_plugin_v, ma_pvio_register_callback, ob20_init).            *)
SharedOnce ==
  /\ LoadedOnce
  /\ HandlesMatch
  /\ CallbackLoaded
  /\ TableReady
  /\ LocksReleased
=============================================================================
