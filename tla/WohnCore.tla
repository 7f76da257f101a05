------------------------------ MODULE WohnCore ------------------------------
(***************************************************************************)
(* The core of Wohn (src/cpp/wohn/WohnCore.cpp): the hosted network of the *)
(* Wlan service, the callbacks the service's notification thread makes,    *)
(* and the sharing of a connection with the hosted network's adapter.      *)
(*                                                                         *)
(* The Wlan service and the sharing manager are external: the state of the *)
(* hosted network changes on its own, every change queues a notification   *)
(* (old state, new state), and any call may fail.  A text is represented   *)
(* by its length, so texts of the same length are the same text; 0 is the  *)
(* empty one.  The operators below are the functions of WohnCore.cpp as    *)
(* actions on the core's variables; WohnUI composes them.                  *)
(***************************************************************************)
EXTENDS Integers, Sequences, FiniteSets

CONSTANTS Adapter,          \* the connection of the hosted network
          Conns,            \* the other connections
          None,             \* a null INetConnection pointer
          MaxChanges,       \* bound: changes the service makes on its own
          ServiceSsids,     \* lengths the service's SSID may have at first
          SharedAtFirst     \* sets of connections an earlier run may have left shared

ASSUME WohnAssumption == /\ Adapter \notin Conns /\ None \notin Conns
                         /\ Adapter # None /\ MaxChanges \in Nat
                         /\ ServiceSsids \subseteq 0..32
                         /\ \A s \in SharedAtFirst :     \* one is public at most
                              /\ s \subseteq Conns \cup {Adapter}
                              /\ \A c, d \in s \cap Conns : c = d

VARIABLES
  gInitialized, gCoInitialized,
  cbs,        \* the callbacks registered in gNotifyCallBack
  held,       \* what the core has allocated or opened
  hn,         \* the hosted network's state, kept by the service
  notes,      \* the service's notifications not delivered yet
  changes,    \* changes left to the service
  nt,         \* the notification thread: callbacks to make, place in the first
  ssid,       \* length of the service's SSID
  conn,       \* pHNConnSettings->hostedNetworkSSID
  shared,     \* sharing of each connection: "no", "private" or "public"
  pNCPrivate, pNCPublic,
  lost,       \* connections the core no longer or never knew to be shared, each
              \* because it is not supported or a call about it failed
  missed      \* a change of state whose callback was not made, or a state query that failed

wlanVars == <<gInitialized, cbs, held, hn, notes, changes, nt, ssid, conn, missed>>
icsVars == <<gCoInitialized, shared, pNCPrivate, pNCPublic, lost>>
coreVars == <<wlanVars, icsVars>>

HnStates == {"unavailable", "idle", "active"}
Callbacks == {"unavailable", "available", "started", "stoped", "join"}
WlanItems == <<"cs", "wlan", "enabled", "status", "conn", "sec">>
WlanHeld == {WlanItems[i] : i \in 1..Len(WlanItems)}
AllConns == Conns \cup {Adapter}

----------------------------------------------------------------------------
(* The service.                                                            *)

Moves == {<<"unavailable", "idle">>, <<"idle", "unavailable">>, <<"idle", "active">>,
          <<"active", "idle">>, <<"active", "unavailable">>}

\* The hosted network is in state s: a change is notified to an open client.
HnBecomes(s) ==
  /\ hn' = s
  /\ notes' = IF s = hn \/ "wlan" \notin held THEN notes ELSE Append(notes, <<hn, s>>)

ServiceChange ==
  /\ changes > 0
  /\ changes' = changes - 1
  /\ \/ \E m \in Moves : m[1] = hn /\ HnBecomes(m[2])
     \/ hn = "active" /\ "wlan" \in held /\ hn' = hn
        /\ \E p \in {"join", "leave"} : notes' = Append(notes, <<"peer", p>>)
  /\ UNCHANGED <<gInitialized, cbs, held, nt, ssid, conn, missed, icsVars>>

----------------------------------------------------------------------------
(* The notification thread.                                                *)

\* Mutation: a hosted network that becomes unavailable is not reported stopped.
CallsOfNoStop(note) ==
  CASE note[1] = "peer"        -> IF note[2] = "join" THEN <<"join">> ELSE <<>>
    [] note[2] = "active"      -> <<"started">>
    [] note[2] = "idle"        -> IF note[1] = "active" THEN <<"stoped">> ELSE <<"available">>
    [] note[2] = "unavailable" -> <<"unavailable">>

\* The callbacks one notification leads to, in order; nobody registers for
\* peers that leave.
CallsOf(note) ==
  CASE note[1] = "peer"        -> IF note[2] = "join" THEN <<"join">> ELSE <<>>
    [] note[2] = "active"      -> <<"started">>
    [] note[2] = "idle"        -> IF note[1] = "active" THEN <<"stoped">> ELSE <<"available">>
    [] note[2] = "unavailable" ->
         (IF note[1] = "active" THEN <<"stoped">> ELSE <<>>) \o <<"unavailable">>

NtFree == nt.todo = <<>>

\* The service calls cor_wlan_notification, which leaves at once when the core
\* is not initialised or nothing is registered (gNotifications <= 0).
cor_wlan_notification ==
  /\ notes # <<>> /\ NtFree /\ "wlan" \in held
  /\ notes' = Tail(notes)
  /\ LET heard == gInitialized /\ cbs # {}
         note  == Head(notes)
     IN /\ nt' = [nt EXCEPT !.todo = IF heard THEN CallsOf(note) ELSE <<>>]
        /\ missed' = (missed \/ (~heard /\ note[1] # "peer"))
  /\ UNCHANGED <<gInitialized, cbs, held, hn, changes, ssid, conn, icsVars>>

\* CALL_S: the pointer is tested; a null one is passed over.
TestCallback ==
  /\ ~NtFree /\ nt.at = 0
  /\ LET cb == Head(nt.todo)
     IN IF cb \in cbs
        THEN nt' = [nt EXCEPT !.at = 1] /\ UNCHANGED missed
        ELSE /\ nt' = [nt EXCEPT !.todo = Tail(@)]
             /\ missed' = (missed \/ cb # "join")
  /\ UNCHANGED <<gInitialized, cbs, held, hn, notes, changes, ssid, conn, icsVars>>

\* The thread is inside a callback.
InCallback == nt.at > 0

----------------------------------------------------------------------------
(* Settings.                                                               *)

\* The text cor_wlan_get_ssid copies out for an SSID of n bytes: the empty one
\* when the text and its terminator do not fit in 32 characters.
cor_wlan_get_ssid(n) == IF n \in 1..31 THEN n ELSE 0

\* Mutation: any text fits.
ConvertibleAny(t) == t > 0

\* A text that WideCharToMultiByte can put, with its terminator, into 32 bytes.
Convertible(t) == t \in 1..31

\* Mutation: the old SSID is not put back when the service refuses the new one.
cor_wlan_set_ssidNoRestore(t, done) ==
  /\ done => Convertible(t)
  /\ conn' = IF Convertible(t) THEN t ELSE conn
  /\ ssid' = IF done THEN t ELSE ssid

\* The new SSID is written to the core's copy of the settings and the service is
\* given the copy; when it refuses, the old SSID is put back.
cor_wlan_set_ssid(t, done) ==
  /\ done => Convertible(t)
  /\ conn' = IF done THEN t ELSE conn
  /\ ssid' = IF done THEN t ELSE ssid

\* A pass phrase of n bytes, its terminator included, is copied out when it
\* counts between 8 and 63; -1 leaves the caller's buffer alone.
cor_wlan_get_key(n) == IF n \in 8..63 THEN n - 1 ELSE -1

\* The bytes of the pass phrase the service is given for a text, 0 if refused.
cor_wlan_set_key(t) == IF t < 8 \/ t > 63 THEN 0 ELSE t + 1

----------------------------------------------------------------------------
(* The hosted network.                                                     *)

\* The states cor_wlan_get_state may answer: the service's, or unavailable when
\* the query fails.
cor_wlan_get_state(ok) == IF ok THEN hn ELSE "unavailable"

cor_wlan_is_started(ok) == cor_wlan_get_state(ok) = "active"

\* WlanHostedNetworkStartUsing, the first half of cor_wlan_start.
StartUsing(done) ==
  /\ done => hn # "unavailable"
  /\ HnBecomes(IF done THEN "active" ELSE hn)

\* cor_wlan_start's result, after StartUsing has been called.
cor_wlan_start(done, ok) == done /\ cor_wlan_is_started(ok)

\* cor_wlan_stop(true) up to its last query: StopUsing leaves the network running
\* when another user needs it; when it fails the network is stopped by force.
StopUsing(done) ==
  \/ done /\ HnBecomes(hn)
  \/ done /\ hn = "active" /\ HnBecomes("idle")
  \/ ~done /\ HnBecomes(hn)

cor_wlan_stop(done, ok) == done /\ ~cor_wlan_is_started(ok)

----------------------------------------------------------------------------
(* Sharing.                                                                *)

cor_ics_is_enabled(priv, pub) == priv # None /\ pub # None

\* The shared connections.
SharedConns == {c \in AllConns : shared[c] # "no"}

\* The sharings left by disabling the connections in P: those in F stay as they
\* are, their configuration cannot be had or DisableSharing fails.
Disabled(sh, P, F) == [c \in AllConns |-> IF c \in P \ F THEN "no" ELSE sh[c]]

\* The connections of the two pointers.
Pointed == {pNCPrivate, pNCPublic} \ {None}

\* The connections lost when the pointed ones are disabled but for those in F.
LostBut(F) == (lost \ Pointed) \cup (Pointed \cap F)

\* cor_ics_disable: the result of DisableSharing is not looked at and both
\* pointers are released.
cor_ics_disable(F) ==
  /\ shared' = Disabled(shared, Pointed, F)
  /\ lost' = LostBut(F)
  /\ pNCPrivate' = None /\ pNCPublic' = None

\* Mutation: when one half fails the pointers are released and the other half
\* stays enabled.
cor_ics_enableHalf(c, state, ok, F) ==
  IF state = "unavailable"
  THEN UNCHANGED <<shared, lost, pNCPrivate, pNCPublic>>
  ELSE /\ shared' = [x \in AllConns |->
                       IF x \in ok THEN IF x = Adapter THEN "private" ELSE "public"
                       ELSE Disabled(shared, Pointed, F)[x]]
       /\ lost' = LostBut(F) \ ok
       /\ pNCPrivate' = IF ok = {Adapter, c} THEN Adapter ELSE None
       /\ pNCPublic' = IF ok = {Adapter, c} THEN c ELSE None

\* cor_ics_enable: nothing is touched while the network is unavailable.
\* Otherwise the old sharing is disabled, and the adapter and connection c are
\* shared, the ones in ok with success (the enumeration comes to them, they are
\* supported and no call about them fails); unless both are, what was enabled is
\* disabled again.  F are the connections that cannot be disabled.
cor_ics_enable(c, state, ok, F) ==
  IF state = "unavailable"
  THEN UNCHANGED <<shared, lost, pNCPrivate, pNCPublic>>
  ELSE LET cleared == Disabled(shared, Pointed, F)
           enabled == [x \in AllConns |->
                         IF x \in ok THEN IF x = Adapter THEN "private" ELSE "public"
                         ELSE cleared[x]]
           refused == LostBut(F) \ ok
       IN IF ok = {Adapter, c}
          THEN /\ shared' = enabled /\ lost' = refused
               /\ pNCPrivate' = Adapter /\ pNCPublic' = c
          ELSE /\ shared' = Disabled(enabled, ok, F)
               /\ lost' = refused \cup (ok \cap F)
               /\ pNCPrivate' = None /\ pNCPublic' = None

\* The connections cor_ics_enum may offer: any but the adapter, when it is
\* supported and its properties can be had at that moment.
cor_ics_enum == AllConns \ {Adapter}

----------------------------------------------------------------------------
(* Start and end.                                                          *)

CoreInit ==
  /\ gInitialized = FALSE /\ gCoInitialized = FALSE
  /\ cbs = {} /\ held = {} /\ notes = <<>>
  /\ hn \in HnStates /\ changes = MaxChanges
  /\ nt = [todo |-> <<>>, at |-> 0]
  /\ ssid \in ServiceSsids /\ conn = 0
  /\ \E s \in SharedAtFirst :
       shared = [x \in AllConns |-> IF x \notin s THEN "no"
                                   ELSE IF x = Adapter THEN "private" ELSE "public"]
  /\ pNCPrivate = None /\ pNCPublic = None
  /\ lost = {} /\ missed = FALSE

\* What cor_ics_initialize found before it failed: nothing without netshell.dll,
\* COM without a sharing manager, both when sharing is not installed.  Its call
\* of cor_ics_deinitialize returns at once: gInitialized is still false.
cor_ics_failures == {{}, {"com"}, {"com", "nsm"}}

\* The values of a pointer the connections in C are stored in, one after another.
LastOf(C) == IF C = {} THEN {None} ELSE C

\* cor_ics_initialize with success: gCoInitialized records that COM was there
\* before.  The enumeration comes to the shared connections in seen; the others
\* are passed over in silence: it cannot be had or ends early, their properties
\* or configuration cannot be had, they are not supported (NC_SUPPORT: a LAN
\* connection, not disconnected).  type is the local SharingType, which nobody
\* initialises: it is the connection's unless get_SharingConnectionType fails.
\* (A value of neither type leaves the connection out as well.)
cor_ics_initialize(before) ==
  /\ gCoInitialized' = before
  /\ \E seen \in SUBSET SharedConns : \E type \in [seen -> {"private", "public"}] :
       /\ pNCPrivate' \in LastOf({c \in seen : type[c] = "private"})
       /\ pNCPublic' \in LastOf({c \in seen : type[c] = "public"})
       /\ LET right == {c \in seen : type[c] = shared[c]}
          IN lost' = SharedConns \ (IF right = seen THEN seen
                                    ELSE right \cap {pNCPrivate', pNCPublic'})

\* What cor_wlan_initialize holds when it fails: some of the items, in order.
cor_wlan_failures == {{WlanItems[i] : i \in 1..k} : k \in 1..Len(WlanItems)}

\* The checks of the user's groups and of the policy may come out either way.
cor_is_administrator == BOOLEAN

cor_is_ics_allowed == BOOLEAN

\* cor_initialize, answering r: the checks (1, 2), cor_ics_initialize (3) and
\* cor_wlan_initialize (4) in turn.
cor_initialize(r) ==
  /\ \E before \in BOOLEAN, admin \in cor_is_administrator, allowed \in cor_is_ics_allowed :
       \/ /\ ~admin \/ ~allowed
          /\ r = IF admin THEN 2 ELSE 1
          /\ UNCHANGED <<gInitialized, gCoInitialized, held, conn, pNCPrivate, pNCPublic, lost>>
       \/ /\ admin /\ allowed /\ r = 3
          /\ held' \in cor_ics_failures
          /\ gCoInitialized' = (before /\ "com" \in held')
          /\ UNCHANGED <<gInitialized, conn, pNCPrivate, pNCPublic, lost>>
       \/ /\ admin /\ allowed /\ r = 4
          /\ cor_ics_initialize(before)
          /\ \E w \in cor_wlan_failures : held' = w \cup {"com", "nsm"}
          /\ UNCHANGED <<gInitialized, conn>>
       \/ /\ admin /\ allowed /\ r = 0
          /\ cor_ics_initialize(before)
          /\ held' = WlanHeld \cup {"com", "nsm"} /\ conn' = ssid
          /\ gInitialized' = TRUE
  /\ UNCHANGED <<cbs, hn, notes, changes, nt, ssid, missed, shared>>

\* cor_deinitialize up to the call of WlanCloseHandle: cor_ics_deinitialize and
\* the table and settings of cor_wlan_deinitialize.  Nothing at all when the core
\* was not initialised.
cor_deinitialize ==
  IF gInitialized
  THEN /\ cbs' = {}
       /\ held' = (held \ {"nsm", "enabled", "status", "conn", "sec"})
                    \ (IF gCoInitialized THEN {"com"} ELSE {})
       /\ pNCPrivate' = None /\ pNCPublic' = None /\ gCoInitialized' = FALSE
       /\ UNCHANGED <<gInitialized, hn, notes, changes, nt, ssid, conn, missed,
                      shared, lost>>
  ELSE UNCHANGED coreVars

\* WlanCloseHandle waits for a notification that is being delivered; the critical
\* section is deleted after it and gInitialized cleared.
cor_wlan_close ==
  /\ NtFree
  /\ held' = held \ {"wlan", "cs"} /\ gInitialized' = FALSE
  /\ UNCHANGED <<cbs, hn, notes, changes, nt, ssid, conn, missed, icsVars>>

=============================================================================
