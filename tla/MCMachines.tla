----------------------------- MODULE MCMachines -----------------------------
(***************************************************************************)
(* Parts of the library with a state of their own, each in a small         *)
(* instance. A behaviour is about one of them; the others stay in their    *)
(* initial state.                                                          *)
(***************************************************************************)
EXTENDS Trace, Library, Threads, Handlers, Auth, PrepareExec, Connect, SessionTrack, LoadLocal

(* The blacklist before anything was initialised: the first calls of       *)
(* several threads race through init_blacklist (ob_load_balance.c).        *)
CONSTANTS ColdThreads, ColdKeys, ColdNoKey
VARIABLES cinited, clocked, clist, ccount, cmax, cpc, creq, cat, cret

VARIABLE unit   \* the part of the library a behaviour is about

(* A trace plugin, one whose init function fails, a connection handler and *)
(* a file that is no plugin                                                *)
MCPluginType == [native |-> 0, tracer |-> 2, badtracer |-> 2, connector |-> 4, text |-> 0]
MCFileKind == [tracer |-> "good", badtracer |-> "bad", connector |-> "good", text |-> "other"]

Cold == INSTANCE Blacklist WITH
  Threads <- ColdThreads, Keys <- ColdKeys, NoKey <- ColdNoKey, Times <- {1}, Ops <- {"append", "find"},
  CONNECT_CNT_INIT <- 8, MallocFails <- FALSE, Cold <- TRUE,
  inited <- cinited, locked <- clocked, list <- clist, count <- ccount, max <- cmax,
  pc <- cpc, req <- creq, at <- cat, ret <- cret

(* Whoever loses the race of the first calls may lock blacklist_mtx before *)
(* its initialisation and share it with another thread.  The damage does   *)
(* not outlive the start: once the mutex is initialised and nobody holds   *)
(* it, no two threads are ever inside together again.                      *)
RaceConfined == Cold!RaceConfined

(* An Oracle server that knows all features and an older one;               *)
(* every variable unset, protocol 2.0 closed, trace closed or SHOW TRACE   *)
(* closed and some forced open                                             *)
MCCxServers == {[ver |-> 4, ora |-> TRUE], [ver |-> 2, ora |-> TRUE]}
MCCxInits == <<"i1", "i2">>
MCCxSince == [pe |-> 3, rarr |-> 4, byname |-> 4]
CxUnset == [f \in EarlyFeatures \cup LateFeatures |-> 9]
MCCxEnvs == {[knob |-> CxUnset, nls |-> 1, wait |-> FALSE],
             [knob |-> [CxUnset EXCEPT !["ob20"] = 0, !["pe"] = 0], nls |-> 0, wait |-> TRUE],
             [knob |-> [CxUnset EXCEPT !["flt"] = 0, !["rarr"] = 2], nls |-> 0, wait |-> FALSE],
             [knob |-> [CxUnset EXCEPT !["show"] = 0], nls |-> 0, wait |-> FALSE]}

(* Changes of what the client follows and of what it does not              *)
StVar(name, val) == [t |-> "sysvar", name |-> name, val |-> val]
StOther(t, val) == [t |-> t, name |-> <<>>, val |-> val]
MCStFirst == [db |-> <<"d0">>, cs |-> <<"utf8", "mb4">>, cap |-> <<"0">>,
              date |-> <<"f0">>, ts |-> <<"f0">>, tz |-> <<"f0">>]
MCStItems == {StOther("schema", <<"d1">>), StOther("gtids", <<"g1">>),
              StOther("unknown", <<"u">>),
              StVar(Charset, <<"gbk">>), StVar(Charset, <<"utf8">>), 
              StVar(Charset, <<"ebcdic">>), StVar(Capability, <<"17">>), StVar(Capability, <<"junk">>),
              StVar(NlsDate, <<"f1">>), StVar(NlsTimestamp, <<"f1">>), StVar(NlsTimestampTz, <<"f1">>)}
MCStCharsets == {<<"utf8", "mb4">>, <<"utf8">>, <<"gbk">>}

Units == {"trace", "library", "threads", "aurora", "replication", "auth", "pe", "cold", "connect", "track", "load"}

Init == /\ unit \in Units
        /\ TraceInit
        /\ LibInit
        /\ ThreadsInit
        /\ AuroraInit
        /\ ReplInit
        /\ AuthInit
        /\ PeInit
        /\ Cold!Init
        /\ CxInit
        /\ StInit
        /\ LdInit

Next == /\ UNCHANGED unit
        /\ \/ unit = "trace" /\ TraceNext
              /\ UNCHANGED <<lib, thr, tpc, rw, cs, asleep, once, ran, hnd, cluster, au,
                             acall, acur, aopen, acount, rhdl, rcur, rstmt, ropen, rdone,
                             auth, pe, cinited, clocked, clist, ccount, cmax, cpc, creq,
                             cat, cret, cx, ssrv, sitems, scli, slast, sseen, schanges,
                             ld>>
           \/ unit = "library" /\ LibNext
              /\ UNCHANGED <<flt, trans, tcall, wire, clean, tpc, rw, cs, asleep, once,
                             ran, hnd, cluster, au, acall, acur, aopen, acount, rhdl,
                             rcur, rstmt, ropen, rdone, auth, pe, cinited, clocked,
                             clist, ccount, cmax, cpc, creq, cat, cret, cx, ssrv, sitems,
                             scli, slast, sseen, schanges, ld>>
           \/ unit = "threads" /\ ThreadsNext
              /\ UNCHANGED <<flt, trans, tcall, wire, clean, lib, thr, cluster, au,
                             acall, acur, aopen, acount, rhdl, rcur, rstmt, ropen, rdone,
                             auth, pe, cinited, clocked, clist, ccount, cmax, cpc, creq,
                             cat, cret, cx, ssrv, sitems, scli, slast, sseen, schanges,
                             ld>>
           \/ unit = "aurora" /\ AuroraNext
              /\ UNCHANGED <<flt, trans, tcall, wire, clean, lib, thr, tpc, rw, cs,
                             asleep, once, ran, hnd, rhdl, rcur, rstmt, ropen, rdone,
                             auth, pe, cinited, clocked, clist, ccount, cmax, cpc, creq,
                             cat, cret, cx, ssrv, sitems, scli, slast, sseen, schanges,
                             ld>>
           \/ unit = "replication" /\ ReplNext
              /\ UNCHANGED <<flt, trans, tcall, wire, clean, lib, thr, tpc, rw, cs,
                             asleep, once, ran, hnd, cluster, au, acall, acur, aopen,
                             acount, auth, pe, cinited, clocked, clist, ccount, cmax,
                             cpc, creq, cat, cret, cx, ssrv, sitems, scli, slast, sseen,
                             schanges, ld>>
           \/ unit = "auth" /\ AuthNext
              /\ UNCHANGED <<flt, trans, tcall, wire, clean, lib, thr, tpc, rw, cs,
                             asleep, once, ran, hnd, cluster, au, acall, acur, aopen,
                             acount, rhdl, rcur, rstmt, ropen, rdone, pe, cinited,
                             clocked, clist, ccount, cmax, cpc, creq, cat, cret, cx,
                             ssrv, sitems, scli, slast, sseen, schanges, ld>>
           \/ unit = "pe" /\ PeNext
              /\ UNCHANGED <<flt, trans, tcall, wire, clean, lib, thr, tpc, rw, cs,
                             asleep, once, ran, hnd, cluster, au, acall, acur, aopen,
                             acount, rhdl, rcur, rstmt, ropen, rdone, auth, cinited,
                             clocked, clist, ccount, cmax, cpc, creq, cat, cret, cx,
                             ssrv, sitems, scli, slast, sseen, schanges, ld>>
           \/ unit = "cold" /\ Cold!Next
              /\ UNCHANGED <<flt, trans, tcall, wire, clean, lib, thr, tpc, rw, cs,
                             asleep, once, ran, hnd, cluster, au, acall, acur, aopen,
                             acount, rhdl, rcur, rstmt, ropen, rdone, auth, pe, cx, ssrv,
                             sitems, scli, slast, sseen, schanges, ld>>
           \/ unit = "connect" /\ CxNext
              /\ UNCHANGED <<flt, trans, tcall, wire, clean, lib, thr, tpc, rw, cs,
                             asleep, once, ran, hnd, cluster, au, acall, acur, aopen,
                             acount, rhdl, rcur, rstmt, ropen, rdone, auth, pe, cinited,
                             clocked, clist, ccount, cmax, cpc, creq, cat, cret, ssrv,
                             sitems, scli, slast, sseen, schanges, ld>>
           \/ unit = "track" /\ StNext
              /\ UNCHANGED <<flt, trans, tcall, wire, clean, lib, thr, tpc, rw, cs,
                             asleep, once, ran, hnd, cluster, au, acall, acur, aopen,
                             acount, rhdl, rcur, rstmt, ropen, rdone, auth, pe, cinited,
                             clocked, clist, ccount, cmax, cpc, creq, cat, cret, cx, ld>>
           \/ unit = "load" /\ LdNext
              /\ UNCHANGED <<flt, trans, tcall, wire, clean, lib, thr, tpc, rw, cs,
                             asleep, once, ran, hnd, cluster, au, acall, acur, aopen,
                             acount, rhdl, rcur, rstmt, ropen, rdone, auth, pe, cinited,
                             clocked, clist, ccount, cmax, cpc, creq, cat, cret, cx,
                             ssrv, sitems, scli, slast, sseen, schanges>>

=============================================================================
