------------------------------- MODULE WohnUI -------------------------------
(***************************************************************************)
(* Wohn's dialog (src/cpp/wohn/WohnUI.cpp) on top of WohnCore.             *)
(*                                                                         *)
(* Two threads meet here.  The callbacks run on the service's notification *)
(* thread: every window call they make is a message the dialog's thread    *)
(* must answer, which it does only between its own handlers or inside a    *)
(* message box (Pumping), and their last statement stores gHNStarted       *)
(* without it.  A handler of the dialog's thread runs with calls into the  *)
(* service in the middle: Click... up to and including StartUsing or       *)
(* StopUsing, ...Finish from the query of the new state to the return.     *)
(***************************************************************************)
EXTENDS WohnCore

CONSTANTS MaxClicks,        \* bound: clicks of the user
          ServiceKeys,      \* bytes the stored pass phrase may have
          TypedSsids, TypedKeys   \* lengths of the texts the user types

VARIABLES ui,       \* what the dialog's thread is doing
          view,     \* widgets and gHNStarted
          sWlanSSID, sWlanPasswd,
          gNCShared,
          clicks    \* clicks left

uiVars == <<ui, view, sWlanSSID, sWlanPasswd, gNCShared, clicks>>
vars == <<coreVars, uiVars>>

MAX_SSID_LEN == 32
MIN_KEY_LEN == 8
MAX_KEY_LEN == 63

\* The order in which ui_on_initdialog registers.
Registrations == <<"available", "unavailable", "started", "stoped", "join">>

\* The dialog's thread answers messages of other threads.
Pumping == ui \in {"idle", "box", "initbox"}

----------------------------------------------------------------------------
(* Callbacks: the assignments each makes, in order.                        *)

ui_on_hn_unavailable ==
  <<<<"ssid", FALSE>>, <<"passwd", FALSE>>, <<"button", FALSE>>, <<"log", TRUE>>,
    <<"gHNStarted", FALSE>>>>

ui_on_hn_active ==
  <<<<"ssid", TRUE>>, <<"passwd", TRUE>>, <<"button", TRUE>>, <<"log", TRUE>>,
    <<"gHNStarted", FALSE>>>>

ui_on_hn_started ==
  <<<<"ssid", FALSE>>, <<"passwd", FALSE>>, <<"text", "stop">>, <<"log", TRUE>>,
    <<"gHNStarted", TRUE>>>>

ui_on_hn_stoped ==
  <<<<"ssid", TRUE>>, <<"passwd", TRUE>>, <<"text", "start">>, <<"gHNStarted", FALSE>>>>

\* A line of the log is a message like the others; its text is left out.
ui_on_hn_join == <<<<"log", TRUE>>>>

Writes(cb) == CASE cb = "unavailable" -> ui_on_hn_unavailable
                [] cb = "available"   -> ui_on_hn_active
                [] cb = "started"     -> ui_on_hn_started
                [] cb = "stoped"      -> ui_on_hn_stoped
                [] cb = "join"        -> ui_on_hn_join

\* The view after a sequence of assignments.
After(v, ws) ==
  [f \in DOMAIN v |->
     LET is == {i \in 1..Len(ws) : ws[i][1] = f}
     IN IF is = {} THEN v[f] ELSE ws[CHOOSE i \in is : \A j \in is : j <= i][2]]

\* One statement of the callback being made.
CallbackStep ==
  /\ InCallback /\ ui # "crashed"
  /\ LET ws == Writes(Head(nt.todo))
         w  == ws[nt.at]
     IN /\ w[1] # "gHNStarted" => Pumping
        /\ view' = After(view, <<w>>)
        /\ nt' = IF nt.at = Len(ws) THEN [todo |-> Tail(nt.todo), at |-> 0]
                 ELSE [nt EXCEPT !.at = @ + 1]
  /\ UNCHANGED <<gInitialized, cbs, held, hn, notes, changes, ssid, conn, missed, icsVars,
                 ui, sWlanSSID, sWlanPasswd, gNCShared, clicks>>

\* The pointer was cleared between its test and the call: a build that reads it
\* a second time calls a null pointer.
CallbackCrash ==
  /\ nt.at = 1 /\ Head(nt.todo) \notin cbs /\ ui = "closing"
  /\ ui' = "crashed"
  /\ UNCHANGED <<coreVars, view, sWlanSSID, sWlanPasswd, gNCShared, clicks>>

----------------------------------------------------------------------------
(* The dialog's handlers.                                                  *)

UIInit ==
  /\ ui = "start"
  /\ view = [ssid |-> TRUE, passwd |-> TRUE, button |-> TRUE, text |-> "start",
             gHNStarted |-> FALSE]
  /\ sWlanSSID = 0 /\ sWlanPasswd = 0
  /\ gNCShared = FALSE /\ clicks = MaxClicks

Init == CoreInit /\ UIInit

\* ui_on_initdialog up to the query of the state.  The stored pass phrase has
\* k bytes; an unreadable one leaves the empty static buffer.  When the core
\* cannot be initialised a box is shown and the case falls through to WM_CLOSE.
ui_on_initdialog ==
  /\ ui = "start"
  /\ \E r \in 0..4, k \in ServiceKeys :
       /\ cor_initialize(r)
       /\ IF r = 0
          THEN /\ sWlanSSID' = cor_wlan_get_ssid(conn')
               /\ sWlanPasswd' = IF cor_wlan_get_key(k) = -1 THEN sWlanPasswd
                                 ELSE cor_wlan_get_key(k)
               /\ gNCShared' = cor_ics_is_enabled(pNCPrivate', pNCPublic')
               /\ ui' = "query"
          ELSE ui' = "failbox" /\ UNCHANGED <<sWlanSSID, sWlanPasswd, gNCShared>>
  /\ UNCHANGED <<view, clicks>>

\* The state is shown; an unavailable network is reported in a box.
InitQuery ==
  /\ ui = "query"
  /\ \E ok \in BOOLEAN :
       LET s == cor_wlan_get_state(ok)
       IN /\ view' = After(view, CASE s = "active" -> ui_on_hn_started
                                   [] s = "unavailable" -> ui_on_hn_unavailable
                                   [] s = "idle" -> ui_on_hn_stoped)
          /\ ui' = IF s = "unavailable" THEN "initbox" ELSE "register"
          /\ missed' = (missed \/ ~ok)
  /\ UNCHANGED <<gInitialized, cbs, held, hn, notes, changes, nt, ssid, conn, icsVars,
                 sWlanSSID, sWlanPasswd, gNCShared, clicks>>

\* cor_register_notify, once for each callback.
cor_register_notify ==
  /\ ui = "register"
  /\ cbs' = cbs \cup {Registrations[Cardinality(cbs) + 1]}
  /\ ui' = IF cbs' = Callbacks THEN "idle" ELSE ui
  /\ UNCHANGED <<gInitialized, held, hn, notes, changes, nt, ssid, conn, missed, icsVars,
                 view, sWlanSSID, sWlanPasswd, gNCShared, clicks>>

\* The user closes a message box.
ui_msgbox ==
  /\ ui \in {"box", "initbox", "failbox"}
  /\ IF ui = "failbox" THEN cor_deinitialize ELSE UNCHANGED coreVars
  /\ ui' = CASE ui = "box" -> "idle" [] ui = "initbox" -> "register"
             [] ui = "failbox" -> "failed"
  /\ UNCHANGED <<view, sWlanSSID, sWlanPasswd, gNCShared, clicks>>

Click == ui = "idle" /\ clicks > 0 /\ clicks' = clicks - 1

\* cor_wlan_set_ssid unless the text is the one the dialog remembers.
Update(t, old, done) == IF t = old THEN done /\ UNCHANGED <<ssid, conn>>
                        ELSE cor_wlan_set_ssid(t, done)

\* ui_on_btn_hn_click while gHNStarted is false, up to StartUsing.  The tests and
\* updates end the handler with a box as soon as one fails; a changed password
\* is passed to cor_wlan_set_ssid too.  An edit holds a text typed while it was
\* enabled or the one the dialog remembers.
ClickStart ==
  /\ Click /\ view.button /\ ~view.gHNStarted
  /\ \E s \in TypedSsids \cup {sWlanSSID}, p \in TypedKeys \cup {sWlanPasswd},
        done \in BOOLEAN :
          \/ /\ s = 0 \/ s > MAX_SSID_LEN
             /\ done
             /\ ui' = "box"
             /\ UNCHANGED <<ssid, conn, hn, notes, sWlanSSID, sWlanPasswd>>
          \/ /\ s \in 1..MAX_SSID_LEN
             /\ ~done /\ s # sWlanSSID
             /\ cor_wlan_set_ssid(s, FALSE)
             /\ ui' = "box"
             /\ UNCHANGED <<hn, notes, sWlanSSID, sWlanPasswd>>
          \/ /\ s \in 1..MAX_SSID_LEN
             /\ p < MIN_KEY_LEN \/ p > MAX_KEY_LEN
             /\ done /\ Update(s, sWlanSSID, TRUE)
             /\ sWlanSSID' = s
             /\ ui' = "box"
             /\ UNCHANGED <<hn, notes, sWlanPasswd>>
          \/ /\ s \in 1..MAX_SSID_LEN
             /\ p \in MIN_KEY_LEN..MAX_KEY_LEN /\ p # sWlanPasswd
             /\ ~done /\ Update(s, sWlanSSID, TRUE)
             /\ sWlanSSID' = s
             /\ ui' = "box"
             /\ UNCHANGED <<hn, notes, sWlanPasswd>>
          \/ /\ s \in 1..MAX_SSID_LEN
             /\ p \in MIN_KEY_LEN..MAX_KEY_LEN
             /\ IF p = sWlanPasswd THEN Update(s, sWlanSSID, TRUE)
                ELSE /\ s # sWlanSSID => Convertible(s)
                     /\ cor_wlan_set_ssid(p, TRUE)
             /\ sWlanSSID' = s /\ sWlanPasswd' = p
             /\ StartUsing(done)
             /\ ui' = IF done THEN "starting" ELSE "box"
  /\ UNCHANGED <<gInitialized, cbs, held, changes, nt, missed, icsVars, view, gNCShared>>

\* The rest of the handler: is the network started?
FinishStart ==
  /\ ui = "starting"
  /\ \E ok \in BOOLEAN :
       /\ missed' = (missed \/ ~ok)
       /\ IF cor_wlan_start(TRUE, ok)
          THEN view' = After(view, ui_on_hn_started) /\ ui' = "idle"
          ELSE view' = view /\ ui' = "box"
  /\ UNCHANGED <<gInitialized, cbs, held, hn, notes, changes, nt, ssid, conn, icsVars,
                 sWlanSSID, sWlanPasswd, gNCShared, clicks>>

\* ui_on_btn_hn_click while gHNStarted is true, up to StopUsing or ForceStop.
ClickStop ==
  /\ Click /\ view.button /\ view.gHNStarted
  /\ \E done \in BOOLEAN : StopUsing(done) /\ ui' = IF done THEN "stopping" ELSE "idle"
  /\ UNCHANGED <<gInitialized, cbs, held, changes, nt, ssid, conn, missed, icsVars,
                 view, sWlanSSID, sWlanPasswd, gNCShared>>

\* Mutation: the handler stores gHNStarted whatever cor_wlan_stop answers.
FinishStopAlways ==
  /\ ui = "stopping" /\ ui' = "idle"
  /\ view' = After(view, ui_on_hn_stoped)
  /\ UNCHANGED <<coreVars, sWlanSSID, sWlanPasswd, gNCShared, clicks>>

\* The rest of it: the dialog shows a stopped network unless it still runs.
FinishStop ==
  /\ ui = "stopping" /\ ui' = "idle"
  /\ \E ok \in BOOLEAN :
       /\ missed' = (missed \/ ~ok)
       /\ view' = IF cor_wlan_stop(TRUE, ok) THEN After(view, ui_on_hn_stoped)
                  ELSE view
  /\ UNCHANGED <<gInitialized, cbs, held, hn, notes, changes, nt, ssid, conn, icsVars,
                 sWlanSSID, sWlanPasswd, gNCShared, clicks>>

\* ui_on_btn_ics_click.  The combo is enabled while nothing is shared; its first
\* entry stands for no connection.
ui_on_btn_ics_click ==
  /\ Click
  /\ \/ ~gNCShared /\ ui' = "box" /\ UNCHANGED <<icsVars, view, gNCShared>>
     \/ /\ ~gNCShared /\ ui' = "idle"
        /\ \E c \in cor_ics_enum, okQuery \in BOOLEAN, F \in SUBSET AllConns :
             \E ok \in SUBSET {Adapter, c} :
                cor_ics_enable(c, cor_wlan_get_state(okQuery), ok, F)
        /\ gNCShared' = cor_ics_is_enabled(pNCPrivate', pNCPublic')
        /\ UNCHANGED <<gCoInitialized, view>>
     \/ /\ gNCShared /\ ui' = "idle"
        /\ \E F \in SUBSET AllConns : cor_ics_disable(F)
        /\ gNCShared' = cor_ics_is_enabled(pNCPrivate', pNCPublic')
        /\ UNCHANGED <<gCoInitialized, view>>
  /\ UNCHANGED <<wlanVars, sWlanSSID, sWlanPasswd>>

\* A double click on a line of the log shows it in a box.
ui_on_lst_log_dblclick ==
  /\ Click
  /\ ui' = "box"
  /\ UNCHANGED <<coreVars, view, sWlanSSID, sWlanPasswd, gNCShared>>

\* WM_CLOSE.
ui_on_close ==
  /\ ui = "idle" /\ ui' = "closing"
  /\ cor_deinitialize
  /\ UNCHANGED <<view, sWlanSSID, sWlanPasswd, gNCShared, clicks>>

\* Its end: the handle is closed and EndDialog called.
FinishClose ==
  /\ ui = "closing" /\ ui' = "closed"
  /\ cor_wlan_close
  /\ UNCHANGED <<view, sWlanSSID, sWlanPasswd, gNCShared, clicks>>

----------------------------------------------------------------------------
Running == ui \notin {"closed", "failed", "crashed"}

\* Steps of the notification thread and of a handler that has begun.
Notified == Running /\ (cor_wlan_notification \/ TestCallback) /\ UNCHANGED uiVars

Handled == InitQuery \/ cor_register_notify \/ FinishStart \/ FinishStop \/ FinishClose

User == \/ ui_on_initdialog \/ ui_msgbox \/ ClickStart \/ ClickStop \/ ui_on_btn_ics_click
        \/ ui_on_lst_log_dblclick \/ ui_on_close

Next == \/ Running /\ ServiceChange /\ UNCHANGED uiVars
        \/ Notified \/ CallbackStep \/ CallbackCrash
        \/ Handled \/ User

\* Both threads are scheduled: a delivered notification and a handler that has
\* begun go on whenever they can.  Nothing is assumed of the user.
Fairness == WF_vars(Notified) /\ WF_vars(CallbackStep) /\ WF_vars(Handled)

Spec == Init /\ [][Next]_vars /\ Fairness

----------------------------------------------------------------------------
\* Type invariant of the dialog and the core.
WohnTypeOK ==
  /\ hn \in HnStates /\ cbs \subseteq Callbacks
  /\ held \subseteq WlanHeld \cup {"com", "nsm"}
  /\ nt.at \in 0..5 /\ (nt.todo = <<>> => nt.at = 0)
  /\ ssid \in 0..32 /\ conn \in 0..32
  /\ pNCPrivate \in AllConns \cup {None} /\ pNCPublic \in AllConns \cup {None}
  /\ shared \in [AllConns -> {"no", "private", "public"}]
  /\ sWlanSSID \in 0..MAX_SSID_LEN /\ sWlanPasswd \in 0..MAX_KEY_LEN

\* The dialog shows the hosted network as it is.
Agrees ==
  /\ view.gHNStarted = (hn = "active")
  /\ view.text = (IF hn = "active" THEN "stop" ELSE "start")
  /\ view.ssid = (hn = "idle") /\ view.passwd = (hn = "idle")
  /\ view.button = (hn # "unavailable")

\* When no notification is waiting and no handler or callback is under way, the
\* dialog agrees with the hosted network, however callbacks and clicks were
\* interleaved; except after a change that was not called back (it came before the
\* callbacks were registered) or a state query that failed.
UiAgrees == (ui = "idle" /\ notes = <<>> /\ NtFree /\ ~missed) => Agrees

\* The core's copy of the connection settings has the SSID the service has: a
\* refused update of the SSID is undone in the copy, or the next update would
\* send it along.
ConnCopyCurrent == gInitialized => conn = ssid

\* While the core runs, what the dialog takes for sharing is what the pointers
\* say, and the pointers of cor_ics_initialize, cor_ics_enable and cor_ics_disable
\* account for the sharing: they name shared connections of their kind, and every
\* other shared connection is one whose sharing a call failed to end or one that
\* cor_ics_initialize passed over (the code then leaves it shared and unknown).
\* So a half enabled sharing is taken back, and no connection is forgotten
\* without such a cause.
IcsAgrees ==
  gInitialized /\ ui \notin {"closing", "crashed"} =>
    /\ gNCShared = cor_ics_is_enabled(pNCPrivate, pNCPublic)
    /\ SharedConns = Pointed \cup lost
    /\ pNCPrivate \notin lost \cup {None} => shared[pNCPrivate] = "private"
    /\ pNCPublic \notin lost \cup {None} => shared[pNCPublic] = "public"

\* Every SSID the program can set, and every pass phrase but one of 63
\* characters, is read back as the text that was set.
SettingsReadBack ==
  /\ \A t \in 1..MAX_SSID_LEN : Convertible(t) => cor_wlan_get_ssid(t) = t
  /\ \A t \in MIN_KEY_LEN..MAX_KEY_LEN - 1 : cor_wlan_get_key(cor_wlan_set_key(t)) = t

\* Closing a dialog whose core was initialised gives everything back except COM
\* when this process was the first to initialise it, and leaves no callback.
\* (A core that failed to initialise keeps what it had: the dialog ends in
\* "failed", not in "closed".)
ReleasedOnClose ==
  ui = "closed" =>
    held \subseteq {"com"} /\ cbs = {} /\ NtFree /\ Pointed = {}

\* The dialog catches up: once the service stays as it is the dialog shows it,
\* unless it missed a change or is closed.
UiCatchesUp == <>[](Agrees \/ missed \/ ui \in {"start", "failbox", "failed", "closing", "closed", "crashed"})

\* Closing the dialog comes to an end when it begins outside a callback: the table
\* is cleared before WlanCloseHandle waits, so no further callback can be entered
\* and wait for the dialog's thread in its turn.
CloseCompletes == (ui = "closing" /\ ~InCallback) ~> (ui \in {"closed", "crashed"})

\* The core's copies are what the service has, and the service's texts are what was set.
SettingsKept == ConnCopyCurrent /\ SettingsReadBack

\* Sharing is accounted for, and closing gives everything back but the sharing.
SharingReleased == IcsAgrees /\ ReleasedOnClose

\* The dialog comes to show the network as it is, and to its end when it is closed.
UiSettles == UiCatchesUp /\ CloseCompletes
=============================================================================
