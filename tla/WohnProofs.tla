------------------------------ MODULE WohnProofs ------------------------------
(***************************************************************************)
(* Proofs about WohnUI and its core: any connections, any number of the    *)
(* service's changes and of the user's clicks, any texts.                  *)
(***************************************************************************)
EXTENDS WohnUI, FiniteSetTheorems, SequenceTheorems, TLAPS

UiStates == {"start", "query", "initbox", "register", "idle", "box", "starting", "stopping",
             "closing", "closed", "failbox", "failed", "crashed"}

Fields == {"ssid", "passwd", "button", "text", "gHNStarted"}

Views == [ssid : BOOLEAN, passwd : BOOLEAN, button : BOOLEAN, text : {"start", "stop"},
          gHNStarted : BOOLEAN]

Peers == {<<"peer", "join">>, <<"peer", "leave">>}
Notes == Moves \cup Peers

\* The callbacks of one notification.
Todos == {<<>>, <<"stoped", "unavailable">>} \cup {<<cb>> : cb \in Callbacks}

Held == WlanHeld \cup {"com", "nsm"}

Types ==
    /\ hn \in HnStates /\ notes \in Seq(Notes)
    /\ nt \in [todo : Todos, at : 0..5]
    /\ nt.at > 0 => nt.todo # <<>> /\ nt.at <= Len(Writes(nt.todo[1]))
    /\ cbs \subseteq Callbacks /\ held \subseteq Held
    /\ ssid \in 0..32 /\ conn \in 0..32
    /\ view \in Views /\ ui \in UiStates
    /\ gInitialized \in BOOLEAN /\ missed \in BOOLEAN
    /\ sWlanSSID \in 0..MAX_SSID_LEN /\ sWlanPasswd \in 0..MAX_KEY_LEN

SharingTypes ==
    /\ pNCPrivate \in AllConns \cup {None} /\ pNCPublic \in AllConns \cup {None}
    /\ shared \in [AllConns -> {"no", "private", "public"}]
    /\ lost \subseteq AllConns /\ gNCShared \in BOOLEAN

\* ui_on_initdialog registers one callback after the other.
Registered(k) == {Registrations[i] : i \in 1..k}

\* What the dialog's thread has done when it is in a state.
Phases ==
    /\ gInitialized = (ui \notin {"start", "failbox", "failed", "closed"})
    /\ ui = "start" => held = {} /\ notes = <<>>
    /\ ui \in {"start", "query"} => view = [ssid |-> TRUE, passwd |-> TRUE, button |-> TRUE,
                                            text |-> "start", gHNStarted |-> FALSE]
    /\ ui \in {"start", "query", "failbox", "failed", "closed"} => nt.todo = <<>> /\ nt.at = 0
    /\ ui \in {"start", "query", "failbox", "failed", "closing", "closed"} => cbs = {}
    /\ ui \in {"register", "initbox"} => \E k \in 0..4 : cbs = Registered(k)
    /\ gInitialized /\ ui # "crashed" => "wlan" \in held
    /\ Running /\ "wlan" \notin held => notes = <<>>
    /\ ui \in {"closing", "closed"} => pNCPrivate = None /\ pNCPublic = None
    /\ ui = "closing" => held \subseteq {"com", "wlan", "cs"}
    /\ ui = "closed" => held \subseteq {"com"}

\* The pointers name what is shared; before the core looks there is one connection of a
\* kind at most.
Sharing ==
    /\ ui = "start" => \A c, d \in AllConns : shared[c] = shared[d] /\ shared[c] # "no" => c = d
    /\ gInitialized /\ ui \notin {"closing", "crashed"} =>
         /\ gNCShared = cor_ics_is_enabled(pNCPrivate, pNCPublic)
         /\ SharedConns = Pointed \cup lost
         /\ pNCPrivate \notin lost \cup {None} => shared[pNCPrivate] = "private"
         /\ pNCPublic \notin lost \cup {None} => shared[pNCPublic] = "public"

\* The dialog for a hosted network in state s.
Target(s) ==
    [ssid |-> s = "idle", passwd |-> s = "idle", button |-> s # "unavailable",
     text |-> IF s = "active" THEN "stop" ELSE "start", gHNStarted |-> s = "active"]

\* The states a notification tells of; peers come and go in an active network.
From(n) == IF n \in Peers THEN "active" ELSE n[1]
To(n) == IF n \in Peers THEN "active" ELSE n[2]

\* The callbacks of a notification set a field.
Affects(n, f) ==
    /\ n \in Moves
    /\ f = "text" => "active" \in {n[1], n[2]}
    /\ f = "button" => "unavailable" \in {n[1], n[2]}

\* The notifications not delivered yet lead to the state the network is in; from each of them
\* on a field is set again, or is the same in the end.
Chain ==
    /\ \A i \in 1..Len(notes) - 1 : To(notes[i]) = From(notes[i + 1])
    /\ notes # <<>> => To(notes[Len(notes)]) = hn
    /\ \A i \in 1..Len(notes), f \in Fields :
          \/ \E j \in i..Len(notes) : Affects(notes[j], f)
          \/ Target(From(notes[i]))[f] = Target(hn)[f]

\* The state before them.
Base == IF notes = <<>> THEN hn ELSE From(notes[1])

\* The state a callback shows, the fields it sets, and the place where it sets one.
Shows(cb) == CASE cb \in {"started", "join"} -> "active" [] cb \in {"stoped", "available"} -> "idle"
               [] cb = "unavailable" -> "unavailable"
Sets(cb) == CASE cb \in {"unavailable", "available"} -> {"ssid", "passwd", "button", "gHNStarted"}
              [] cb \in {"started", "stoped"} -> {"ssid", "passwd", "text", "gHNStarted"}
              [] cb = "join" -> {}
Place(cb, f) == CASE f = "ssid" -> 1 [] f = "passwd" -> 2 [] f \in {"button", "text"} -> 3
                  [] f = "gHNStarted" -> IF cb = "stoped" THEN 4 ELSE 5

\* The last callback of those being made shows the state before the notifications left.
TodoBase == nt.todo # <<>> => Shows(nt.todo[Len(nt.todo)]) = Base

\* A field is going to be set: by the callbacks being made, or by those of a notification.
TodoSets(f) == \E k \in 1..Len(nt.todo) : f \in Sets(nt.todo[k]) /\ (k = 1 => nt.at <= Place(nt.todo[1], f))
NotesSet(f) == \E i \in 1..Len(notes) : Affects(notes[i], f)
Due(f) == TodoSets(f) \/ NotesSet(f)

\* The dialog has shown a state, and has missed nothing since.
Shown == ui \in {"register", "initbox", "idle", "box", "starting", "stopping"} /\ ~missed

\* A field that is not going to be set is right.
Settled == Shown => \A f \in Fields : ~Due(f) => view[f] = Target(hn)[f]

\* When the last callback to come is ui_on_hn_unavailable the button has been released:
\* a click on it cannot take the network for running.
Last ==
    Shown /\ hn = "unavailable" =>
       /\ notes = <<>> /\ Len(nt.todo) = 1 => ~view.gHNStarted
       /\ notes = <<<<"idle", "unavailable">>>> /\ ~TodoSets("gHNStarted") => ~view.gHNStarted

\* A network that becomes unavailable under ui_on_btn_hn_click will still be shown so.
Stopping ==
    Shown /\ ui = "stopping" /\ hn = "unavailable" => Due("ssid") /\ Due("passwd")

IInv == /\ Types /\ SharingTypes /\ Phases /\ Sharing /\ ConnCopyCurrent
        /\ Chain /\ TodoBase /\ Settled /\ Last /\ Stopping

-----------------------------------------------------------------------------
(* Callbacks and notifications *)

\* The dialog for each state, field by field.
LEMMA TargetFields ==
    /\ Target("unavailable").ssid = FALSE /\ Target("unavailable").passwd = FALSE /\ Target("unavailable").button = FALSE
    /\ Target("unavailable").text = "start" /\ Target("unavailable").gHNStarted = FALSE
    /\ Target("idle").ssid = TRUE /\ Target("idle").passwd = TRUE /\ Target("idle").button = TRUE
    /\ Target("idle").text = "start" /\ Target("idle").gHNStarted = FALSE
    /\ Target("active").ssid = FALSE /\ Target("active").passwd = FALSE /\ Target("active").button = TRUE
    /\ Target("active").text = "stop" /\ Target("active").gHNStarted = TRUE
BY DEF Target

\* The statements of the callbacks.
LEMMA WritesOf ==
    /\ Writes("unavailable") = ui_on_hn_unavailable
    /\ Writes("available") = ui_on_hn_active
    /\ Writes("started") = ui_on_hn_started
    /\ Writes("stoped") = ui_on_hn_stoped
    /\ Writes("join") = ui_on_hn_join
BY DEF Writes

\* A callback has five statements at most.
LEMMA WritesLen ==
    /\ Len(Writes("unavailable")) = 5 /\ Len(Writes("available")) = 5 /\ Len(Writes("started")) = 5
    /\ Len(Writes("stoped")) = 4 /\ Len(Writes("join")) = 1
BY WritesOf DEF ui_on_hn_unavailable, ui_on_hn_active, ui_on_hn_started, ui_on_hn_stoped, ui_on_hn_join

\* Every callback has a statement, and five at most.
LEMMA WritesBound == \A cb \in Callbacks : Len(Writes(cb)) \in 1..5
BY WritesLen DEF Callbacks

\* A statement of a callback sets a field to what the dialog is for the callback's state,
\* or writes a line of the log.
StatementOf(cb, k) ==
    \/ Writes(cb)[k][1] = "log"
    \/ /\ Writes(cb)[k][1] \in Sets(cb) /\ Place(cb, Writes(cb)[k][1]) = k
       /\ Writes(cb)[k][2] = Target(Shows(cb))[Writes(cb)[k][1]]

\* It holds of every statement of the five callbacks.
LEMMA WriteSets == \A cb \in Callbacks : \A k \in 1..Len(Writes(cb)) : StatementOf(cb, k)
<1>1. \A k \in 1..Len(Writes("unavailable")) : StatementOf("unavailable", k)
  <2>1. 1..Len(Writes("unavailable")) = 1..5
    BY WritesLen
  <2>2. \A k \in 1..5 : k \in {1, 2, 3, 4, 5}
    OBVIOUS
  <2>3. Shows("unavailable") = "unavailable"
    BY DEF Shows
  <2>4. ui_on_hn_unavailable[1][1] = "ssid" /\ ui_on_hn_unavailable[1][2] = FALSE /\ "ssid" \in Sets("unavailable") /\ Place("unavailable", "ssid") = 1
    BY DEF ui_on_hn_unavailable, Sets, Place
  <2>5. StatementOf("unavailable", 1)
    BY <2>3, <2>4, WritesOf, TargetFields DEF StatementOf
  <2>6. ui_on_hn_unavailable[2][1] = "passwd" /\ ui_on_hn_unavailable[2][2] = FALSE /\ "passwd" \in Sets("unavailable") /\ Place("unavailable", "passwd") = 2
    BY DEF ui_on_hn_unavailable, Sets, Place
  <2>7. StatementOf("unavailable", 2)
    BY <2>3, <2>6, WritesOf, TargetFields DEF StatementOf
  <2>8. ui_on_hn_unavailable[3][1] = "button" /\ ui_on_hn_unavailable[3][2] = FALSE /\ "button" \in Sets("unavailable") /\ Place("unavailable", "button") = 3
    BY DEF ui_on_hn_unavailable, Sets, Place
  <2>9. StatementOf("unavailable", 3)
    BY <2>3, <2>8, WritesOf, TargetFields DEF StatementOf
  <2>10. StatementOf("unavailable", 4)
    BY WritesOf DEF StatementOf, ui_on_hn_unavailable
  <2>12. ui_on_hn_unavailable[5][1] = "gHNStarted" /\ ui_on_hn_unavailable[5][2] = FALSE /\ "gHNStarted" \in Sets("unavailable") /\ Place("unavailable", "gHNStarted") = 5
    BY DEF ui_on_hn_unavailable, Sets, Place
  <2>13. StatementOf("unavailable", 5)
    BY <2>3, <2>12, WritesOf, TargetFields DEF StatementOf
  <2>. QED BY <2>1, <2>2, <2>5, <2>7, <2>9, <2>10, <2>13
<1>2. \A k \in 1..Len(Writes("available")) : StatementOf("available", k)
  <2>1. 1..Len(Writes("available")) = 1..5
    BY WritesLen
  <2>2. \A k \in 1..5 : k \in {1, 2, 3, 4, 5}
    OBVIOUS
  <2>3. Shows("available") = "idle"
    BY DEF Shows
  <2>4. ui_on_hn_active[1][1] = "ssid" /\ ui_on_hn_active[1][2] = TRUE /\ "ssid" \in Sets("available") /\ Place("available", "ssid") = 1
    BY DEF ui_on_hn_active, Sets, Place
  <2>5. StatementOf("available", 1)
    BY <2>3, <2>4, WritesOf, TargetFields DEF StatementOf
  <2>6. ui_on_hn_active[2][1] = "passwd" /\ ui_on_hn_active[2][2] = TRUE /\ "passwd" \in Sets("available") /\ Place("available", "passwd") = 2
    BY DEF ui_on_hn_active, Sets, Place
  <2>7. StatementOf("available", 2)
    BY <2>3, <2>6, WritesOf, TargetFields DEF StatementOf
  <2>8. ui_on_hn_active[3][1] = "button" /\ ui_on_hn_active[3][2] = TRUE /\ "button" \in Sets("available") /\ Place("available", "button") = 3
    BY DEF ui_on_hn_active, Sets, Place
  <2>9. StatementOf("available", 3)
    BY <2>3, <2>8, WritesOf, TargetFields DEF StatementOf
  <2>10. StatementOf("available", 4)
    BY WritesOf DEF StatementOf, ui_on_hn_active
  <2>12. ui_on_hn_active[5][1] = "gHNStarted" /\ ui_on_hn_active[5][2] = FALSE /\ "gHNStarted" \in Sets("available") /\ Place("available", "gHNStarted") = 5
    BY DEF ui_on_hn_active, Sets, Place
  <2>13. StatementOf("available", 5)
    BY <2>3, <2>12, WritesOf, TargetFields DEF StatementOf
  <2>. QED BY <2>1, <2>2, <2>5, <2>7, <2>9, <2>10, <2>13
<1>3. \A k \in 1..Len(Writes("started")) : StatementOf("started", k)
  <2>1. 1..Len(Writes("started")) = 1..5
    BY WritesLen
  <2>2. \A k \in 1..5 : k \in {1, 2, 3, 4, 5}
    OBVIOUS
  <2>3. Shows("started") = "active"
    BY DEF Shows
  <2>4. ui_on_hn_started[1][1] = "ssid" /\ ui_on_hn_started[1][2] = FALSE /\ "ssid" \in Sets("started") /\ Place("started", "ssid") = 1
    BY DEF ui_on_hn_started, Sets, Place
  <2>5. StatementOf("started", 1)
    BY <2>3, <2>4, WritesOf, TargetFields DEF StatementOf
  <2>6. ui_on_hn_started[2][1] = "passwd" /\ ui_on_hn_started[2][2] = FALSE /\ "passwd" \in Sets("started") /\ Place("started", "passwd") = 2
    BY DEF ui_on_hn_started, Sets, Place
  <2>7. StatementOf("started", 2)
    BY <2>3, <2>6, WritesOf, TargetFields DEF StatementOf
  <2>8. ui_on_hn_started[3][1] = "text" /\ ui_on_hn_started[3][2] = "stop" /\ "text" \in Sets("started") /\ Place("started", "text") = 3
    BY DEF ui_on_hn_started, Sets, Place
  <2>9. StatementOf("started", 3)
    BY <2>3, <2>8, WritesOf, TargetFields DEF StatementOf
  <2>10. StatementOf("started", 4)
    BY WritesOf DEF StatementOf, ui_on_hn_started
  <2>12. ui_on_hn_started[5][1] = "gHNStarted" /\ ui_on_hn_started[5][2] = TRUE /\ "gHNStarted" \in Sets("started") /\ Place("started", "gHNStarted") = 5
    BY DEF ui_on_hn_started, Sets, Place
  <2>13. StatementOf("started", 5)
    BY <2>3, <2>12, WritesOf, TargetFields DEF StatementOf
  <2>. QED BY <2>1, <2>2, <2>5, <2>7, <2>9, <2>10, <2>13
<1>4. \A k \in 1..Len(Writes("stoped")) : StatementOf("stoped", k)
  <2>1. 1..Len(Writes("stoped")) = 1..4
    BY WritesLen
  <2>2. \A k \in 1..4 : k \in {1, 2, 3, 4}
    OBVIOUS
  <2>3. Shows("stoped") = "idle"
    BY DEF Shows
  <2>4. ui_on_hn_stoped[1][1] = "ssid" /\ ui_on_hn_stoped[1][2] = TRUE /\ "ssid" \in Sets("stoped") /\ Place("stoped", "ssid") = 1
    BY DEF ui_on_hn_stoped, Sets, Place
  <2>5. StatementOf("stoped", 1)
    BY <2>3, <2>4, WritesOf, TargetFields DEF StatementOf
  <2>6. ui_on_hn_stoped[2][1] = "passwd" /\ ui_on_hn_stoped[2][2] = TRUE /\ "passwd" \in Sets("stoped") /\ Place("stoped", "passwd") = 2
    BY DEF ui_on_hn_stoped, Sets, Place
  <2>7. StatementOf("stoped", 2)
    BY <2>3, <2>6, WritesOf, TargetFields DEF StatementOf
  <2>8. ui_on_hn_stoped[3][1] = "text" /\ ui_on_hn_stoped[3][2] = "start" /\ "text" \in Sets("stoped") /\ Place("stoped", "text") = 3
    BY DEF ui_on_hn_stoped, Sets, Place
  <2>9. StatementOf("stoped", 3)
    BY <2>3, <2>8, WritesOf, TargetFields DEF StatementOf
  <2>10. ui_on_hn_stoped[4][1] = "gHNStarted" /\ ui_on_hn_stoped[4][2] = FALSE /\ "gHNStarted" \in Sets("stoped") /\ Place("stoped", "gHNStarted") = 4
    BY DEF ui_on_hn_stoped, Sets, Place
  <2>11. StatementOf("stoped", 4)
    BY <2>3, <2>10, WritesOf, TargetFields DEF StatementOf
  <2>. QED BY <2>1, <2>2, <2>5, <2>7, <2>9, <2>11
<1>5. \A k \in 1..Len(Writes("join")) : StatementOf("join", k)
  <2>1. 1..Len(Writes("join")) = 1..1
    BY WritesLen
  <2>2. \A k \in 1..1 : k \in {1}
    OBVIOUS
  <2>3. Shows("join") = "active"
    BY DEF Shows
  <2>4. StatementOf("join", 1)
    BY WritesOf DEF StatementOf, ui_on_hn_join
  <2>. QED BY <2>1, <2>2, <2>4
<1>. QED BY <1>1, <1>2, <1>3, <1>4, <1>5 DEF Callbacks

\* The fields of a callback have their statements.
LEMMA SetsWrites ==
    ASSUME NEW cb \in Callbacks, NEW f \in Sets(cb)
    PROVE  /\ f \in Fields /\ Place(cb, f) \in 1..Len(Writes(cb))
           /\ Writes(cb)[Place(cb, f)][1] = f
<1>1. CASE cb = "unavailable"
  <2>1. f \in {"ssid", "passwd", "button", "gHNStarted"}
    BY <1>1 DEF Sets
  <2>2. ui_on_hn_unavailable[1][1] = "ssid" /\ Place("unavailable", "ssid") = 1
    BY DEF ui_on_hn_unavailable, Place
  <2>3. ui_on_hn_unavailable[2][1] = "passwd" /\ Place("unavailable", "passwd") = 2
    BY DEF ui_on_hn_unavailable, Place
  <2>4. ui_on_hn_unavailable[3][1] = "button" /\ Place("unavailable", "button") = 3
    BY DEF ui_on_hn_unavailable, Place
  <2>5. ui_on_hn_unavailable[5][1] = "gHNStarted" /\ Place("unavailable", "gHNStarted") = 5
    BY DEF ui_on_hn_unavailable, Place
  <2>. QED BY <1>1, <2>1, <2>2, <2>3, <2>4, <2>5, WritesOf, WritesLen DEF Fields
<1>2. CASE cb = "available"
  <2>1. f \in {"ssid", "passwd", "button", "gHNStarted"}
    BY <1>2 DEF Sets
  <2>2. ui_on_hn_active[1][1] = "ssid" /\ Place("available", "ssid") = 1
    BY DEF ui_on_hn_active, Place
  <2>3. ui_on_hn_active[2][1] = "passwd" /\ Place("available", "passwd") = 2
    BY DEF ui_on_hn_active, Place
  <2>4. ui_on_hn_active[3][1] = "button" /\ Place("available", "button") = 3
    BY DEF ui_on_hn_active, Place
  <2>5. ui_on_hn_active[5][1] = "gHNStarted" /\ Place("available", "gHNStarted") = 5
    BY DEF ui_on_hn_active, Place
  <2>. QED BY <1>2, <2>1, <2>2, <2>3, <2>4, <2>5, WritesOf, WritesLen DEF Fields
<1>3. CASE cb = "started"
  <2>1. f \in {"ssid", "passwd", "text", "gHNStarted"}
    BY <1>3 DEF Sets
  <2>2. ui_on_hn_started[1][1] = "ssid" /\ Place("started", "ssid") = 1
    BY DEF ui_on_hn_started, Place
  <2>3. ui_on_hn_started[2][1] = "passwd" /\ Place("started", "passwd") = 2
    BY DEF ui_on_hn_started, Place
  <2>4. ui_on_hn_started[3][1] = "text" /\ Place("started", "text") = 3
    BY DEF ui_on_hn_started, Place
  <2>5. ui_on_hn_started[5][1] = "gHNStarted" /\ Place("started", "gHNStarted") = 5
    BY DEF ui_on_hn_started, Place
  <2>. QED BY <1>3, <2>1, <2>2, <2>3, <2>4, <2>5, WritesOf, WritesLen DEF Fields
<1>4. CASE cb = "stoped"
  <2>1. f \in {"ssid", "passwd", "text", "gHNStarted"}
    BY <1>4 DEF Sets
  <2>2. ui_on_hn_stoped[1][1] = "ssid" /\ Place("stoped", "ssid") = 1
    BY DEF ui_on_hn_stoped, Place
  <2>3. ui_on_hn_stoped[2][1] = "passwd" /\ Place("stoped", "passwd") = 2
    BY DEF ui_on_hn_stoped, Place
  <2>4. ui_on_hn_stoped[3][1] = "text" /\ Place("stoped", "text") = 3
    BY DEF ui_on_hn_stoped, Place
  <2>5. ui_on_hn_stoped[4][1] = "gHNStarted" /\ Place("stoped", "gHNStarted") = 4
    BY DEF ui_on_hn_stoped, Place
  <2>. QED BY <1>4, <2>1, <2>2, <2>3, <2>4, <2>5, WritesOf, WritesLen DEF Fields
<1>5. CASE cb = "join"
  BY <1>5 DEF Sets
<1>. QED BY <1>1, <1>2, <1>3, <1>4, <1>5 DEF Callbacks

\* The dialog for a state is a view.
LEMMA TargetView == \A s \in HnStates : Target(s) \in Views
BY DEF Target, Views

\* A view has the fields.
LEMMA ViewFields ==
    ASSUME NEW v \in Views
    PROVE  DOMAIN v = Fields /\ v = [f \in Fields |-> v[f]]
BY DEF Views, Fields

\* One assignment changes its field.
LEMMA AfterOne ==
    ASSUME NEW v \in Views, NEW w
    PROVE  \A f \in Fields : After(v, <<w>>)[f] = IF w[1] = f THEN w[2] ELSE v[f]
<1>. SUFFICES ASSUME NEW f \in Fields
              PROVE  After(v, <<w>>)[f] = IF w[1] = f THEN w[2] ELSE v[f]
  OBVIOUS
<1>. DEFINE is == {i \in 1..Len(<<w>>) : <<w>>[i][1] = f}
<1>1. f \in DOMAIN v
  BY ViewFields
<1>2. After(v, <<w>>)[f] = IF is = {} THEN v[f] ELSE <<w>>[CHOOSE i \in is : \A j \in is : j <= i][2]
  BY <1>1 DEF After
<1>3. CASE w[1] = f
  <2>1. is = {1}
    BY <1>3
  <2>2. (CHOOSE i \in {1} : \A j \in {1} : j <= i) = 1
    OBVIOUS
  <2>. QED BY <1>2, <1>3, <2>1, <2>2
<1>4. CASE w[1] # f
  <2>1. is = {}
    BY <1>4
  <2>. QED BY <1>2, <1>4, <2>1
<1>. QED BY <1>3, <1>4

\* What was assigned is a view, if the fields have their types.
LEMMA AfterIsView ==
    ASSUME NEW v \in Views, NEW ws, NEW u \in Views,
           \A f \in Fields : After(v, ws)[f] \in {v[f], u[f]}
    PROVE  After(v, ws) \in Views
<1>1. After(v, ws) = [f \in Fields |-> After(v, ws)[f]]
  <2>1. DOMAIN v = Fields
    BY ViewFields
  <2>. QED BY <2>1 DEF After
<1>. QED BY <1>1 DEF Views, Fields

\* A callback run to its end without the log.
LEMMA AfterAll ==
    ASSUME NEW v \in Views, NEW cb \in Callbacks
    PROVE  \A f \in Fields :
              After(v, Writes(cb))[f] = IF f \in Sets(cb) THEN Target(Shows(cb))[f] ELSE v[f]
<1>. SUFFICES ASSUME NEW f \in Fields
              PROVE  After(v, Writes(cb))[f] = IF f \in Sets(cb) THEN Target(Shows(cb))[f] ELSE v[f]
  OBVIOUS
<1>. DEFINE is == {i \in 1..Len(Writes(cb)) : Writes(cb)[i][1] = f}
<1>1. f \in DOMAIN v
  BY ViewFields
<1>2. After(v, Writes(cb))[f] =
         IF is = {} THEN v[f] ELSE Writes(cb)[CHOOSE i \in is : \A j \in is : j <= i][2]
  BY <1>1 DEF After
<1>3. f # "log"
  BY DEF Fields
<1>4. CASE f \in Sets(cb)
  <2>. DEFINE k == Place(cb, f)
  <2>1. k \in 1..Len(Writes(cb)) /\ Writes(cb)[k][1] = f
    BY <1>4, SetsWrites
  <2>2. \A i \in is : i = k
    BY <1>3, WriteSets DEF StatementOf
  <2>3. is = {k}
    BY <2>1, <2>2
  <2>4. k <= k
    BY <2>1, WritesLen
  <2>. HIDE DEF k
  <2>5. (CHOOSE i \in {k} : \A j \in {k} : j <= i) = k
    BY <2>4
  <2>6. Writes(cb)[k][2] = Target(Shows(cb))[f]
    BY <1>3, <2>1, WriteSets DEF StatementOf
  <2>. QED BY <1>2, <1>4, <2>3, <2>5, <2>6
<1>5. CASE f \notin Sets(cb)
  <2>1. is = {}
    BY <1>3, <1>5, WriteSets DEF StatementOf
  <2>. QED BY <1>2, <1>5, <2>1
<1>. QED BY <1>4, <1>5

-----------------------------------------------------------------------------
(* What the run checks follows from the invariant *)

\* The types of the run are among those of the invariant.
LEMMA InvTypeOK == IInv => WohnTypeOK
BY DEF IInv, Types, SharingTypes, WohnTypeOK, Held, Todos

\* With nothing on its way every field is settled.
LEMMA InvUiAgrees == IInv => UiAgrees
<1>. SUFFICES ASSUME IInv, ui = "idle", notes = <<>>, NtFree, ~missed PROVE Agrees
  BY DEF UiAgrees
<1>1. \A f \in Fields : ~Due(f)
  BY DEF Due, TodoSets, NotesSet, NtFree
<1>2. \A f \in Fields : view[f] = Target(hn)[f]
  BY <1>1 DEF IInv, Settled, Shown
<1>3. /\ view.gHNStarted = Target(hn).gHNStarted /\ view.text = Target(hn).text
      /\ view.ssid = Target(hn).ssid /\ view.passwd = Target(hn).passwd
      /\ view.button = Target(hn).button
  BY <1>2 DEF Fields
<1>4. hn \in HnStates
  BY DEF IInv, Types
<1>5. CASE hn = "unavailable"
  BY <1>3, <1>5, TargetFields DEF Agrees
<1>6. CASE hn = "idle"
  BY <1>3, <1>6, TargetFields DEF Agrees
<1>7. CASE hn = "active"
  BY <1>3, <1>7, TargetFields DEF Agrees
<1>. QED BY <1>4, <1>5, <1>6, <1>7 DEF HnStates

\* The copy of the settings, and the texts that are read back.
LEMMA InvSettingsKept == IInv => SettingsKept
<1>1. SettingsReadBack
  <2>1. \A t \in 1..MAX_SSID_LEN : Convertible(t) => cor_wlan_get_ssid(t) = t
    BY DEF Convertible, cor_wlan_get_ssid, MAX_SSID_LEN
  <2>2. \A t \in MIN_KEY_LEN..MAX_KEY_LEN - 1 : cor_wlan_get_key(cor_wlan_set_key(t)) = t
    BY DEF cor_wlan_get_key, cor_wlan_set_key, MIN_KEY_LEN, MAX_KEY_LEN
  <2>. QED BY <2>1, <2>2 DEF SettingsReadBack
<1>. QED BY <1>1 DEF IInv, SettingsKept

\* Sharing is the pointers' part of it, Phases that of the closed dialog.
LEMMA InvSharingReleased == IInv => SharingReleased
<1>. SUFFICES ASSUME IInv PROVE IcsAgrees /\ ReleasedOnClose
  BY DEF SharingReleased
<1>1. IcsAgrees
  BY DEF IInv, Sharing, IcsAgrees
<1>2. ReleasedOnClose
  BY DEF IInv, Phases, ReleasedOnClose, NtFree, Pointed
<1>. QED BY <1>1, <1>2

-----------------------------------------------------------------------------
(* The beginning *)

\* The dialog has shown nothing yet, and nothing is on its way.
LEMMA InitInv == Init => IInv
<1>. SUFFICES ASSUME Init PROVE IInv
  OBVIOUS
<1>. USE WohnAssumption DEF Init, CoreInit, UIInit
<1>1. Types
  <2>1. view \in Views
    BY DEF Views
  <2>2. nt \in [todo : Todos, at : 0..5] /\ nt.at = 0
    BY DEF Todos
  <2>3. ssid \in 0..32 /\ conn \in 0..32 /\ notes \in Seq(Notes) /\ cbs \subseteq Callbacks
    OBVIOUS
  <2>4. sWlanSSID \in 0..MAX_SSID_LEN /\ sWlanPasswd \in 0..MAX_KEY_LEN
    BY DEF MAX_SSID_LEN, MAX_KEY_LEN
  <2>5. /\ hn \in HnStates /\ held \subseteq Held /\ ui \in UiStates
        /\ gInitialized \in BOOLEAN /\ missed \in BOOLEAN
    BY DEF UiStates
  <2>. QED BY ONLY <2>1, <2>2, <2>3, <2>4, <2>5 DEF Types
<1>2. shared \in [AllConns -> {"no", "private", "public"}]
      /\ \A c, d \in AllConns : shared[c] = shared[d] /\ shared[c] # "no" => c = d
  <2>1. ASSUME NEW s \in SharedAtFirst,
               shared = [x \in AllConns |-> IF x \notin s THEN "no"
                                            ELSE IF x = Adapter THEN "private" ELSE "public"]
        PROVE  /\ shared \in [AllConns -> {"no", "private", "public"}]
               /\ \A c, d \in AllConns : shared[c] = shared[d] /\ shared[c] # "no" => c = d
    <3>1. \A c, d \in s : c # Adapter /\ d # Adapter => c = d
      BY WohnAssumption
    <3>. QED BY ONLY <2>1, <3>1
  <2>. QED BY <2>1
<1>3. SharingTypes
  BY <1>2 DEF SharingTypes
<1>4. Phases
  BY DEF Phases
<1>5. Sharing
  BY <1>2 DEF Sharing
<1>6. Chain /\ TodoBase /\ Settled /\ Last /\ Stopping /\ ConnCopyCurrent
  BY DEF Chain, TodoBase, Settled, Last, Stopping, Shown, ConnCopyCurrent
<1>. QED BY <1>1, <1>3, <1>4, <1>5, <1>6 DEF IInv

-----------------------------------------------------------------------------
(* Notifications on their way *)

\* The callbacks of each notification.
LEMMA CallsOfNotes ==
    /\ CallsOf(<<"unavailable", "idle">>) = <<"available">>
    /\ CallsOf(<<"idle", "unavailable">>) = <<"unavailable">>
    /\ CallsOf(<<"idle", "active">>) = <<"started">>
    /\ CallsOf(<<"active", "idle">>) = <<"stoped">>
    /\ CallsOf(<<"active", "unavailable">>) = <<"stoped", "unavailable">>
    /\ CallsOf(<<"peer", "join">>) = <<"join">>
    /\ CallsOf(<<"peer", "leave">>) = <<>>
<1>1. \A a, b \in Callbacks : <<a>> \o <<b>> = <<a, b>>
  <2>. TAKE a, b \in Callbacks
  <2>1. /\ <<a>> \o <<b>> \in Seq(Callbacks) /\ <<a, b>> \in Seq(Callbacks)
        /\ Len(<<a>> \o <<b>>) = 2 /\ Len(<<a, b>>) = 2
        /\ (<<a>> \o <<b>>)[1] = a /\ (<<a>> \o <<b>>)[2] = b
    OBVIOUS
  <2>2. \A i \in 1..2 : (<<a>> \o <<b>>)[i] = <<a, b>>[i]
    <3>1. \A i \in 1..2 : i = 1 \/ i = 2
      OBVIOUS
    <3>. QED BY <2>1, <3>1
  <2>. QED BY <2>1, <2>2, SeqEqual
<1>2. \A b \in Callbacks : <<>> \o <<b>> = <<b>>
  BY ConcatEmptySeq
<1>. QED BY <1>1, <1>2 DEF CallsOf, Callbacks

\* What a notification tells.
NoteFacts(n) ==
    /\ From(n) \in HnStates /\ To(n) \in HnStates /\ CallsOf(n) \in Todos
    /\ CallsOf(n) # <<>> => Shows(CallsOf(n)[Len(CallsOf(n))]) = To(n)
    /\ n \in Moves => n \notin Peers /\ n[1] # "peer" /\ CallsOf(n) # <<>>
                      /\ \A k \in 1..Len(CallsOf(n)) : {"ssid", "passwd", "gHNStarted"} \subseteq Sets(CallsOf(n)[k])
    /\ Affects(n, "text") => "text" \in Sets(CallsOf(n)[1])
    /\ Affects(n, "button") => "button" \in Sets(CallsOf(n)[Len(CallsOf(n))])
    /\ n \notin Moves => n \in Peers /\ n[1] = "peer" /\ From(n) = "active" /\ To(n) = "active"
    /\ To(n) = "unavailable" => \/ n = <<"idle", "unavailable">>
                                \/ Len(CallsOf(n)) = 2

\* It holds of the seven notifications.
LEMMA NoteTells == \A n \in Notes : NoteFacts(n)
<1>1. NoteFacts(<<"unavailable", "idle">>)
  BY CallsOfNotes DEF NoteFacts, From, To, HnStates, Todos, Callbacks, Shows, Moves, Peers, Sets, Affects
<1>2. NoteFacts(<<"idle", "unavailable">>)
  BY CallsOfNotes DEF NoteFacts, From, To, HnStates, Todos, Callbacks, Shows, Moves, Peers, Sets, Affects
<1>3. NoteFacts(<<"idle", "active">>)
  BY CallsOfNotes DEF NoteFacts, From, To, HnStates, Todos, Callbacks, Shows, Moves, Peers, Sets, Affects
<1>4. NoteFacts(<<"active", "idle">>)
  BY CallsOfNotes DEF NoteFacts, From, To, HnStates, Todos, Callbacks, Shows, Moves, Peers, Sets, Affects
<1>5. NoteFacts(<<"active", "unavailable">>)
  <2>. DEFINE n == <<"active", "unavailable">>
  <2>1. /\ CallsOf(n)[1] = "stoped" /\ CallsOf(n)[2] = "unavailable" /\ Len(CallsOf(n)) = 2
        /\ CallsOf(n) \in Todos /\ CallsOf(n) # <<>>
    BY CallsOfNotes DEF Todos
  <2>2. \A k \in 1..2 : k = 1 \/ k = 2
    OBVIOUS
  <2>3. From(n) = "active" /\ To(n) = "unavailable" /\ n \in Moves /\ n \notin Peers /\ n[1] # "peer"
    BY DEF From, To, Moves, Peers
  <2>4. /\ {"ssid", "passwd", "text", "gHNStarted"} \subseteq Sets("stoped")
        /\ {"ssid", "passwd", "button", "gHNStarted"} \subseteq Sets("unavailable")
        /\ Shows("unavailable") = "unavailable"
    BY DEF Sets, Shows
  <2>. HIDE DEF n
  <2>5. \A k \in 1..2 : {"ssid", "passwd", "gHNStarted"} \subseteq Sets(CallsOf(n)[k])
    BY <2>1, <2>2, <2>4
  <2>6. "text" \in Sets(CallsOf(n)[1]) /\ "button" \in Sets(CallsOf(n)[2])
    BY <2>1, <2>4
  <2>7. Shows(CallsOf(n)[2]) = To(n) /\ {From(n), To(n)} \subseteq HnStates
    BY <2>1, <2>3, <2>4 DEF HnStates
  <2>8. NoteFacts(n)
    BY <2>1, <2>3, <2>5, <2>6, <2>7 DEF NoteFacts
  <2>. QED BY <2>8 DEF n
<1>6. NoteFacts(<<"peer", "join">>)
  BY CallsOfNotes DEF NoteFacts, From, To, HnStates, Todos, Callbacks, Shows, Moves, Peers, Sets, Affects
<1>7. NoteFacts(<<"peer", "leave">>)
  BY CallsOfNotes DEF NoteFacts, From, To, HnStates, Todos, Callbacks, Shows, Moves, Peers, Sets, Affects
<1>. QED BY <1>1, <1>2, <1>3, <1>4, <1>5, <1>6, <1>7 DEF Notes, Moves, Peers

\* A notification sets the fields in which its two states differ.
LEMMA NoteSets ==
    \A n \in Notes, f \in Fields : Affects(n, f) \/ Target(From(n))[f] = Target(To(n))[f]
<1>. SUFFICES ASSUME NEW n \in Notes, NEW f \in Fields, ~Affects(n, f)
              PROVE  Target(From(n))[f] = Target(To(n))[f]
  OBVIOUS
<1>1. CASE n \notin Moves
  BY <1>1, NoteTells DEF NoteFacts
<1>2. CASE n \in Moves
  <2>1. From(n) = n[1] /\ To(n) = n[2]
    BY <1>2 DEF From, To, Moves, Peers
  <2>2. CASE f = "text"
    <3>1. n[1] \in {"unavailable", "idle"} /\ n[2] \in {"unavailable", "idle"}
      BY <1>2, <2>2 DEF Affects, Moves
    <3>. QED BY <2>1, <2>2, <3>1, TargetFields
  <2>3. CASE f = "button"
    <3>1. n[1] \in {"idle", "active"} /\ n[2] \in {"idle", "active"}
      BY <1>2, <2>3 DEF Affects, Moves
    <3>. QED BY <2>1, <2>3, <3>1, TargetFields
  <2>4. CASE f \notin {"text", "button"}
    BY <1>2, <2>4 DEF Affects
  <2>. QED BY <2>2, <2>3, <2>4
<1>. QED BY <1>1, <1>2

\* A field no notification sets is the same before and after them.
LEMMA BaseSettled ==
    ASSUME IInv, NEW f \in Fields, ~NotesSet(f)
    PROVE  Target(Base)[f] = Target(hn)[f]
<1>1. CASE notes = <<>>
  BY <1>1 DEF Base
<1>2. CASE notes # <<>>
  <2>1. 1 \in 1..Len(notes)
    BY <1>2 DEF IInv, Types
  <2>. QED BY <1>2, <2>1 DEF IInv, Chain, NotesSet, Base
<1>. QED BY <1>1, <1>2

\* A change of the network's state, or of its peers, is added.
LEMMA NoteAdded ==
    ASSUME IInv, NEW n \in Notes, From(n) = hn, hn' = To(n), notes' = Append(notes, n), nt' = nt
    PROVE  /\ hn' \in HnStates /\ notes' \in Seq(Notes) /\ Chain' /\ TodoBase'
           /\ \A f \in Fields : Due(f) => Due(f)'
           /\ \A f \in Fields : Due(f)' \/ Target(hn')[f] = Target(hn)[f]
           /\ n \in Moves => Due("ssid")' /\ Due("passwd")' /\ Due("gHNStarted")'
<1>. DEFINE m == Len(notes)
<1>1. /\ notes \in Seq(Notes) /\ m \in Nat /\ notes' \in Seq(Notes) /\ Len(notes') = m + 1
      /\ \A i \in 1..m : notes'[i] = notes[i]
      /\ notes'[m + 1] = n
  BY DEF IInv, Types
<1>2. notes = <<>> <=> m = 0
  BY <1>1
<1>. HIDE DEF m
<1>3. hn' \in HnStates
  BY NoteTells DEF NoteFacts
<1>4. Chain'
  <2>1. ASSUME NEW i \in 1..m PROVE To(notes'[i]) = From(notes'[i + 1])
    <3>1. CASE i = m
      <4>1. To(notes[m]) = hn
        BY <1>1, <1>2, <3>1 DEF IInv, Chain, m
      <4>. QED BY <1>1, <3>1, <4>1
    <3>2. CASE i # m
      <4>1. i \in 1..m - 1 /\ i + 1 \in 1..m
        BY <1>1, <3>2
      <4>2. To(notes[i]) = From(notes[i + 1])
        BY <4>1 DEF IInv, Chain, m
      <4>. QED BY <1>1, <4>1, <4>2
    <3>. QED BY <3>1, <3>2
  <2>2. ASSUME NEW i \in 1..m + 1, NEW f \in Fields
        PROVE  \/ \E j \in i..m + 1 : Affects(notes'[j], f)
               \/ Target(From(notes'[i]))[f] = Target(hn')[f]
    <3>1. CASE Affects(n, f)
      <4>1. m + 1 \in i..m + 1
        BY <1>1
      <4>. QED BY <1>1, <3>1, <4>1
    <3>2. CASE ~Affects(n, f)
      <4>1. Target(hn)[f] = Target(hn')[f]
        BY <3>2, NoteSets
      <4>2. CASE i = m + 1
        BY <1>1, <4>1, <4>2
      <4>3. CASE i # m + 1
        <5>1. i \in 1..m
          BY <1>1, <4>3
        <5>2. \/ \E j \in i..m : Affects(notes[j], f)
              \/ Target(From(notes[i]))[f] = Target(hn)[f]
          BY <5>1 DEF IInv, Chain, m
        <5>3. CASE \E j \in i..m : Affects(notes[j], f)
          <6>1. PICK j \in i..m : Affects(notes[j], f)
            BY <5>3
          <6>2. j \in 1..m /\ j \in i..m + 1
            BY <1>1, <5>1
          <6>. QED BY <1>1, <6>1, <6>2
        <5>4. CASE Target(From(notes[i]))[f] = Target(hn)[f]
          BY <1>1, <4>1, <5>1, <5>4
        <5>. QED BY <5>2, <5>3, <5>4
      <4>. QED BY <4>2, <4>3
    <3>. QED BY <3>1, <3>2
  <2>3. Len(notes') - 1 = m
    BY <1>1
  <2>4. \A i \in 1..Len(notes') - 1 : To(notes'[i]) = From(notes'[i + 1])
    BY <2>1, <2>3, Zenon
  <2>5. To(notes'[Len(notes')]) = hn'
    BY <1>1, Zenon
  <2>6. \A i \in 1..Len(notes'), f \in Fields :
           \/ \E j \in i..Len(notes') : Affects(notes'[j], f)
           \/ Target(From(notes'[i]))[f] = Target(hn')[f]
    BY <1>1, <2>2, Zenon
  <2>. QED BY <2>4, <2>5, <2>6, Zenon DEF Chain
<1>5. TodoBase'
  <2>1. Base' = Base
    <3>1. CASE m = 0
      BY <1>1, <1>2, <3>1 DEF Base
    <3>2. CASE m # 0
      <4>1. 1 \in 1..m /\ notes' # <<>>
        BY <1>1, <3>2
      <4>. QED BY <1>1, <1>2, <3>2, <4>1 DEF Base
    <3>. QED BY <3>1, <3>2
  <2>. QED BY <2>1 DEF IInv, TodoBase
<1>6. ASSUME NEW f \in Fields, Due(f) PROVE Due(f)'
  <2>1. CASE TodoSets(f)
    BY <2>1 DEF Due, TodoSets
  <2>2. CASE NotesSet(f)
    <3>1. PICK i \in 1..m : Affects(notes[i], f)
      BY <2>2 DEF NotesSet, m
    <3>2. i \in 1..m + 1
      BY <1>1
    <3>. QED BY <1>1, <3>1, <3>2 DEF Due, NotesSet
  <2>. QED BY <1>6, <2>1, <2>2 DEF Due
<1>7. ASSUME NEW f \in Fields, Affects(n, f) PROVE Due(f)'
  <2>1. m + 1 \in 1..m + 1
    BY <1>1
  <2>. QED BY <1>1, <1>7, <2>1 DEF Due, NotesSet
<1>8. \A f \in Fields : Due(f)' \/ Target(hn')[f] = Target(hn)[f]
  BY <1>7, NoteSets
<1>9. n \in Moves => Due("ssid")' /\ Due("passwd")' /\ Due("gHNStarted")'
  BY <1>7 DEF Affects, Fields
<1>. QED BY <1>1, <1>3, <1>4, <1>5, <1>6, <1>8, <1>9

-----------------------------------------------------------------------------
(* What a step leaves alone *)

\* Steps that do not touch the sharing.
LEMMA SharingKept ==
    ASSUME IInv, UNCHANGED <<shared, pNCPrivate, pNCPublic, lost, gNCShared>>,
           ui' = "start" => ui = "start",
           gInitialized' /\ ui' \notin {"closing", "crashed"} =>
               gInitialized /\ ui \notin {"closing", "crashed"}
    PROVE  SharingTypes' /\ Sharing'
<1>1. SharingTypes'
  BY DEF IInv, SharingTypes
<1>2. Pointed' = Pointed /\ SharedConns' = SharedConns
  BY DEF Pointed, SharedConns
<1>3. Sharing'
  BY <1>2 DEF IInv, Sharing
<1>. QED BY <1>1, <1>3

\* What the invariant says of the notifications and of the dialog.
Agreement == Chain /\ TodoBase /\ Settled /\ Last /\ Stopping

\* Steps that touch neither the network and its notifications nor the dialog.
LEMMA AgreementKept ==
    ASSUME IInv, UNCHANGED <<hn, notes, nt, view>>, Shown' => Shown,
           Shown' /\ ui' = "stopping" => ui = "stopping"
    PROVE  Agreement'
<1>1. Chain' /\ TodoBase'
  BY DEF IInv, Chain, TodoBase, Base
<1>2. \A f : TodoSets(f)' = TodoSets(f) /\ NotesSet(f)' = NotesSet(f) /\ Due(f)' = Due(f)
  BY DEF TodoSets, NotesSet, Due
<1>3. Settled'
  BY <1>2 DEF IInv, Settled
<1>4. Last'
  BY <1>2 DEF IInv, Last
<1>5. Stopping'
  BY <1>2 DEF IInv, Stopping
<1>. QED BY <1>1, <1>3, <1>4, <1>5 DEF Agreement

\* A notification is added: the dialog will follow it.
LEMMA AgreementAdded ==
    ASSUME IInv, NEW n \in Notes, From(n) = hn, hn' = To(n), notes' = Append(notes, n), nt' = nt,
           view' = view, Shown' => Shown, hn = To(n) => ui' = ui
    PROVE  hn' \in HnStates /\ notes' \in Seq(Notes) /\ Agreement'
<1>1. /\ hn' \in HnStates /\ notes' \in Seq(Notes) /\ Chain' /\ TodoBase'
      /\ \A f \in Fields : Due(f) => Due(f)'
      /\ \A f \in Fields : Due(f)' \/ Target(hn')[f] = Target(hn)[f]
      /\ n \in Moves => Due("ssid")' /\ Due("passwd")' /\ Due("gHNStarted")'
  BY NoteAdded
<1>2. Settled'
  BY <1>1 DEF IInv, Settled
<1>3. hn' = "unavailable" => n \in Moves
  BY NoteTells DEF NoteFacts
<1>4. Stopping'
  BY <1>1, <1>3 DEF Stopping
<1>5. Last'
  <2>. SUFFICES ASSUME Shown, hn' = "unavailable" , notes' = <<<<"idle", "unavailable">>>>,
                       ~TodoSets("gHNStarted")
                PROVE  ~view.gHNStarted
    <3>1. notes' # <<>>
      BY DEF IInv, Types
    <3>2. TodoSets("gHNStarted")' = TodoSets("gHNStarted")
      BY DEF TodoSets
    <3>. QED BY <3>1, <3>2 DEF Last
  <2>1. notes = <<>> /\ n = <<"idle", "unavailable">>
    <3>. DEFINE m == Len(notes)
    <3>1. m \in Nat /\ Len(Append(notes, n)) = m + 1 /\ Append(notes, n)[m + 1] = n
          /\ (m = 0 => notes = <<>>)
      <4>1. notes \in Seq(Notes) /\ n \in Notes
        BY DEF IInv, Types
      <4>. QED BY ONLY <4>1
    <3>. HIDE DEF m
    <3>2. Append(notes, n) = <<<<"idle", "unavailable">>>>
      OBVIOUS
    <3>3. m + 1 = 1
      BY <3>1, <3>2
    <3>4. m = 0
      BY <3>1, <3>3
    <3>. QED BY <3>1, <3>2, <3>4
  <2>2. hn = "idle"
    BY <2>1 DEF From, Peers
  <2>3. ~Due("gHNStarted")
    BY <2>1 DEF Due, NotesSet
  <2>4. view["gHNStarted"] = Target("idle")["gHNStarted"]
    BY <2>2, <2>3 DEF IInv, Settled, Fields
  <2>. QED BY <2>4, TargetFields
<1>. QED BY <1>1, <1>2, <1>4, <1>5 DEF Agreement

\* The network changes its state, or a call leaves it as it is.
LEMMA HnStep ==
    ASSUME IInv, Running, NEW s, s = hn \/ <<hn, s>> \in Moves, HnBecomes(s), nt' = nt,
           view' = view, Shown' => Shown,
           Shown' /\ ui' = "stopping" /\ hn = "unavailable" => Due("ssid") /\ Due("passwd")
    PROVE  /\ hn' \in HnStates /\ notes' \in Seq(Notes) /\ Agreement'
           /\ "wlan" \notin held => notes' = <<>>
<1>1. hn \in HnStates /\ hn' = s
  BY DEF IInv, Types, HnBecomes
<1>2. CASE s = hn
  <2>1. UNCHANGED <<hn, notes, nt, view>>
    BY <1>2 DEF HnBecomes
  <2>2. Chain' /\ TodoBase'
    BY <2>1 DEF IInv, Chain, TodoBase, Base
  <2>3. \A f : TodoSets(f)' = TodoSets(f) /\ NotesSet(f)' = NotesSet(f) /\ Due(f)' = Due(f)
    BY <2>1 DEF TodoSets, NotesSet, Due
  <2>4. Settled'
    BY <2>1, <2>3 DEF IInv, Settled
  <2>5. Last'
    BY <2>1, <2>3 DEF IInv, Last
  <2>6. Stopping'
    BY <2>1, <2>3 DEF Stopping
  <2>. QED BY <2>1, <2>2, <2>4, <2>5, <2>6 DEF IInv, Types, Phases, Agreement
<1>3. CASE s # hn /\ "wlan" \in held
  <2>1. <<hn, s>> \in Moves /\ <<hn, s>> \in Notes /\ notes' = Append(notes, <<hn, s>>)
    BY <1>3 DEF HnBecomes, Notes
  <2>2. From(<<hn, s>>) = hn /\ To(<<hn, s>>) = s
    BY <2>1 DEF From, To, Moves, Peers
  <2>. QED BY <1>1, <1>3, <2>1, <2>2, AgreementAdded
<1>4. CASE s # hn /\ "wlan" \notin held
  <2>1. notes = <<>> /\ notes' = <<>> /\ hn' \in HnStates
    BY <1>1, <1>4 DEF HnBecomes, IInv, Phases, HnStates, Moves
  <2>2. nt.todo = <<>> /\ ~Shown
    BY <1>4 DEF IInv, Phases, Types, UiStates, Running, Shown
  <2>3. Chain' /\ TodoBase'
    BY <2>1, <2>2 DEF Chain, TodoBase
  <2>. QED BY <2>1, <2>2, <2>3 DEF Agreement, Settled, Last, Stopping
<1>. QED BY <1>2, <1>3, <1>4

-----------------------------------------------------------------------------
(* The service and the notification thread *)

\* The hosted network changes its state, or a peer joins or leaves.
LEMMA ServiceChangeInv == IInv /\ Running /\ ServiceChange /\ UNCHANGED uiVars => IInv'
<1>. SUFFICES ASSUME IInv, Running, ServiceChange, UNCHANGED uiVars PROVE IInv'
  OBVIOUS
<1>1. /\ UNCHANGED <<gInitialized, cbs, held, nt, ssid, conn, missed>>
      /\ UNCHANGED <<shared, pNCPrivate, pNCPublic, lost>>
      /\ UNCHANGED <<ui, view, sWlanSSID, sWlanPasswd, gNCShared>>
  BY DEF ServiceChange, uiVars, icsVars
<1>2. Shown' = Shown
  BY <1>1 DEF Shown
<1>3. /\ hn' \in HnStates /\ notes' \in Seq(Notes) /\ Agreement'
      /\ "wlan" \notin held => notes' = <<>>
  <2>1. ASSUME NEW m \in Moves, m[1] = hn, HnBecomes(m[2])
        PROVE  /\ hn' \in HnStates /\ notes' \in Seq(Notes) /\ Agreement'
               /\ "wlan" \notin held => notes' = <<>>
    <3>1. <<hn, m[2]>> \in Moves
      BY <2>1 DEF Moves
    <3>2. Shown' /\ ui' = "stopping" /\ hn = "unavailable" => Due("ssid") /\ Due("passwd")
      BY <1>1, <1>2 DEF IInv, Stopping
    <3>. QED BY <1>1, <1>2, <2>1, <3>1, <3>2, HnStep
  <2>2. ASSUME hn = "active", "wlan" \in held, hn' = hn,
               NEW p \in {"join", "leave"}, notes' = Append(notes, <<"peer", p>>)
        PROVE  hn' \in HnStates /\ notes' \in Seq(Notes) /\ Agreement'
    <3>1. <<"peer", p>> \in Peers
      BY DEF Peers
    <3>2. <<"peer", p>> \in Notes /\ From(<<"peer", p>>) = hn /\ To(<<"peer", p>>) = hn'
      BY <2>2, <3>1 DEF Notes, From, To
    <3>. QED BY <1>1, <1>2, <2>2, <3>2, AgreementAdded
  <2>. QED BY <2>1, <2>2 DEF ServiceChange
<1>4. Types'
  BY <1>1, <1>3 DEF IInv, Types
<1>5. Phases'
  BY <1>1, <1>3 DEF IInv, Phases, Running
<1>6. SharingTypes' /\ Sharing'
  BY <1>1, SharingKept
<1>7. ConnCopyCurrent'
  BY <1>1 DEF IInv, ConnCopyCurrent
<1>. QED BY <1>3, <1>4, <1>5, <1>6, <1>7 DEF IInv, Agreement

\* A sequence of one element.
LEMMA OneLong == ASSUME NEW S, NEW s \in Seq(S), Len(s) = 1 PROVE s = <<s[1]>>
<1>1. s[1] \in S
  OBVIOUS
<1>2. <<s[1]>> \in Seq(S) /\ Len(<<s[1]>>) = 1 /\ <<s[1]>>[1] = s[1]
  BY <1>1
<1>3. \A i \in 1..1 : s[i] = <<s[1]>>[i]
  BY <1>2
<1>. QED BY <1>2, <1>3, SeqEqual

\* A field has its place in the callbacks.
LEMMA PlaceNat == \A cb, f : f \in Fields => Place(cb, f) \in 1..5
<1>. SUFFICES ASSUME NEW cb, NEW f \in Fields PROVE Place(cb, f) \in 1..5
  OBVIOUS
<1>. QED BY DEF Place, Fields

\* The fields a notification sets are set by its callbacks.
LEMMA NoteCalls ==
    ASSUME NEW n \in Notes, NEW f \in Fields, Affects(n, f)
    PROVE  \E k \in 1..Len(CallsOf(n)) : f \in Sets(CallsOf(n)[k])
<1>1. n \in Moves /\ NoteFacts(n)
  BY NoteTells DEF Affects
<1>2. 1 \in 1..Len(CallsOf(n)) /\ Len(CallsOf(n)) \in 1..Len(CallsOf(n))
  BY <1>1 DEF NoteFacts, Todos
<1>. QED BY <1>1, <1>2 DEF NoteFacts, Fields

\* The first notification is taken from the queue.
LEMMA NoteTaken ==
    ASSUME IInv, notes # <<>>, notes' = Tail(notes), hn' = hn
    PROVE  /\ notes' \in Seq(Notes) /\ Chain' /\ notes[1] \in Notes /\ Base' = To(notes[1])
           /\ \A f \in Fields : NotesSet(f) => NotesSet(f)' \/ Affects(notes[1], f)
           /\ notes' = <<>> => notes = <<notes[1]>>
           /\ Len(notes') = 1 => To(notes[1]) = From(notes'[1])
<1>. DEFINE m == Len(notes)
<1>1. /\ notes \in Seq(Notes) /\ m \in Nat /\ m # 0 /\ notes' \in Seq(Notes) /\ Len(notes') = m - 1
      /\ \A i \in 1..m - 1 : notes'[i] = notes[i + 1]
      /\ \A i \in 1..m : notes[i] \in Notes
      /\ notes' = <<>> <=> m = 1
  <2>1. notes \in Seq(Notes)
    BY DEF IInv, Types
  <2>2. Tail(notes) \in Seq(Notes) /\ Len(Tail(notes)) = m - 1 /\ m \in Nat /\ m # 0
        /\ \A i \in 1..m - 1 : Tail(notes)[i] = notes[i + 1]
    BY <2>1, HeadTailProperties
  <2>3. \A i \in 1..m : notes[i] \in Notes
    BY <2>1, ElementOfSeq
  <2>. HIDE DEF m
  <2>4. notes' \in Seq(Notes) /\ Len(notes') = m - 1 /\ \A i \in 1..m - 1 : notes'[i] = notes[i + 1]
    BY <2>2, Zenon
  <2>5. notes' = <<>> <=> m = 1
    <3>1. notes' = <<>> <=> Len(notes') = 0
      BY ONLY <2>4, EmptySeq
    <3>. QED BY ONLY <2>2, <2>4, <3>1
  <2>. QED BY <2>1, <2>2, <2>3, <2>4, <2>5, Zenon
<1>. HIDE DEF m
<1>2. 1 \in 1..m
  BY <1>1
<1>3. /\ \A i \in 1..m - 1 : To(notes[i]) = From(notes[i + 1])
      /\ To(notes[m]) = hn
      /\ \A i \in 1..m, f \in Fields : \/ \E j \in i..m : Affects(notes[j], f)
                                       \/ Target(From(notes[i]))[f] = Target(hn)[f]
  BY DEF IInv, Chain, m
<1>4. Chain'
  <2>1. ASSUME NEW i \in 1..m - 1 - 1 PROVE To(notes'[i]) = From(notes'[i + 1])
    <3>1. i \in 1..m - 1 /\ i + 1 \in 1..m - 1
      BY <1>1
    <3>. QED BY <1>1, <1>3, <3>1
  <2>2. notes' # <<>> => To(notes'[m - 1]) = hn
    <3>. SUFFICES ASSUME notes' # <<>> PROVE To(notes'[m - 1]) = hn
      OBVIOUS
    <3>1. m - 1 \in 1..m - 1 /\ (m - 1) + 1 = m
      BY <1>1
    <3>. QED BY <1>1, <1>3, <3>1
  <2>3. ASSUME NEW i \in 1..m - 1, NEW f \in Fields
        PROVE  \/ \E j \in i..m - 1 : Affects(notes'[j], f)
               \/ Target(From(notes'[i]))[f] = Target(hn)[f]
    <3>1. i + 1 \in 1..m
      BY <1>1
    <3>2. CASE \E j \in i + 1..m : Affects(notes[j], f)
      <4>1. PICK j \in i + 1..m : Affects(notes[j], f)
        BY <3>2
      <4>2. j - 1 \in i..m - 1 /\ j - 1 \in 1..m - 1 /\ (j - 1) + 1 = j
        BY <1>1, <3>1
      <4>. QED BY <1>1, <4>1, <4>2
    <3>. QED BY <1>1, <1>3, <3>1, <3>2
  <2>. QED BY <1>1, <2>1, <2>2, <2>3 DEF Chain
<1>5. Base' = To(notes[1])
  <2>1. CASE m = 1
    BY <1>1, <1>3, <2>1 DEF Base
  <2>2. CASE m # 1
    <3>1. 1 \in 1..m - 1
      BY <1>1, <2>2
    <3>. QED BY <1>1, <1>3, <2>2, <3>1 DEF Base
  <2>. QED BY <2>1, <2>2
<1>6. ASSUME NEW f \in Fields, NotesSet(f) PROVE NotesSet(f)' \/ Affects(notes[1], f)
  <2>1. PICK i \in 1..m : Affects(notes[i], f)
    BY <1>6 DEF NotesSet, m
  <2>2. CASE i = 1
    BY <2>1, <2>2
  <2>3. CASE i # 1
    <3>1. i - 1 \in 1..m - 1 /\ (i - 1) + 1 = i
      BY <1>1, <2>3
    <3>. QED BY <1>1, <2>1, <3>1 DEF NotesSet
  <2>. QED BY <2>2, <2>3
<1>7. notes' = <<>> => notes = <<notes[1]>>
  BY <1>1, OneLong DEF m
<1>8. Len(notes') = 1 => To(notes[1]) = From(notes'[1])
  <2>. SUFFICES ASSUME Len(notes') = 1 PROVE To(notes[1]) = From(notes'[1])
    OBVIOUS
  <2>1. 1 \in 1..m - 1
    BY <1>1
  <2>. QED BY <1>1, <1>3, <2>1
<1>. QED BY <1>1, <1>2, <1>4, <1>5, <1>6, <1>7, <1>8

\* cor_wlan_notification turns a notification into calls of the callbacks.
LEMMA NotificationInv == IInv /\ Running /\ cor_wlan_notification /\ UNCHANGED uiVars => IInv'
<1>. SUFFICES ASSUME IInv, Running, cor_wlan_notification, UNCHANGED uiVars PROVE IInv'
  OBVIOUS
<1>1. /\ UNCHANGED <<gInitialized, cbs, held, hn, ssid, conn>>
      /\ UNCHANGED <<shared, pNCPrivate, pNCPublic, lost>>
      /\ UNCHANGED <<ui, view, sWlanSSID, sWlanPasswd, gNCShared>>
  BY DEF cor_wlan_notification, uiVars, icsVars
<1>2. notes # <<>> /\ notes' = Tail(notes) /\ nt.todo = <<>> /\ nt.at = 0 /\ "wlan" \in held
  BY DEF cor_wlan_notification, NtFree, IInv, Types
<1>. DEFINE n == notes[1]
            heard == gInitialized /\ cbs # {}
<1>3. /\ notes' \in Seq(Notes) /\ Chain' /\ n \in Notes /\ Base' = To(n)
      /\ \A f \in Fields : NotesSet(f) => NotesSet(f)' \/ Affects(n, f)
      /\ notes' = <<>> => notes = <<n>>
      /\ Len(notes') = 1 => To(n) = From(notes'[1])
  BY <1>1, <1>2, NoteTaken
<1>4. /\ nt' \in [todo : {IF heard THEN CallsOf(n) ELSE <<>>}, at : {0}]
      /\ missed' = (missed \/ (~heard /\ n[1] # "peer"))
  BY <1>2 DEF cor_wlan_notification, IInv, Types
<1>5. NoteFacts(n)
  BY <1>3, NoteTells
<1>. HIDE DEF n
<1>6. ~heard => nt'.todo = <<>>
  BY <1>4
<1>7. heard => nt'.todo = CallsOf(n)
  BY <1>4
<1>. HIDE DEF heard
<1>8. nt' \in [todo : Todos, at : 0..5] /\ nt'.at = 0
  BY <1>4, <1>5 DEF NoteFacts, Todos
<1>9. TodoBase'
  BY <1>3, <1>5, <1>6, <1>7 DEF TodoBase, NoteFacts
<1>10. Shown' => Shown /\ (heard \/ n \notin Moves)
  BY <1>1, <1>4, <1>5 DEF Shown, NoteFacts
<1>11. ASSUME heard, NEW f \in Fields, Affects(n, f) PROVE TodoSets(f)'
  <2>1. PICK k \in 1..Len(CallsOf(n)) : f \in Sets(CallsOf(n)[k])
    BY <1>3, <1>11, NoteCalls
  <2>2. nt'.at <= Place(nt'.todo[1], f)
    BY <1>8, PlaceNat
  <2>. QED BY <1>7, <1>11, <2>1, <2>2 DEF TodoSets
<1>12. ASSUME Shown', NEW f \in Fields, Due(f) PROVE Due(f)'
  <2>1. NotesSet(f)
    BY <1>2, <1>12 DEF Due, TodoSets
  <2>2. CASE NotesSet(f)'
    BY <2>2 DEF Due
  <2>3. CASE Affects(n, f)
    BY <1>10, <1>11, <1>12, <2>3 DEF Due, Affects
  <2>. QED BY <1>3, <2>1, <2>2, <2>3
<1>13. Settled'
  BY <1>1, <1>10, <1>12 DEF IInv, Settled
<1>14. Stopping'
  <2>1. "ssid" \in Fields /\ "passwd" \in Fields
    BY DEF Fields
  <2>. QED BY <1>1, <1>10, <1>12, <2>1 DEF IInv, Stopping
<1>15. Last'
  <2>1. ASSUME Shown', hn = "unavailable", notes' = <<>>, Len(nt'.todo) = 1
        PROVE  ~view.gHNStarted
    <3>1. notes = <<n>> /\ To(n) = hn
      <4>1. notes = <<n>>
        BY <1>3, <2>1
      <4>2. Base' = hn'
        BY <2>1 DEF Base
      <4>. QED BY <1>1, <1>3, <4>1, <4>2
    <3>2. heard /\ Len(CallsOf(n)) = 1
      <4>1. CASE heard
        BY <1>7, <2>1, <4>1
      <4>2. CASE ~heard
        <5>1. Len(nt'.todo) = 0
          BY <1>6, <4>2
        <5>. QED BY <2>1, <5>1
      <4>. QED BY <4>1, <4>2
    <3>3. n = <<"idle", "unavailable">>
      BY <1>5, <2>1, <3>1, <3>2 DEF NoteFacts
    <3>4. ~TodoSets("gHNStarted")
      BY <1>2 DEF TodoSets
    <3>. QED BY <1>10, <2>1, <3>1, <3>3, <3>4 DEF IInv, Last
  <2>2. ASSUME Shown', hn = "unavailable", notes' = <<<<"idle", "unavailable">>>>,
               ~TodoSets("gHNStarted")'
        PROVE  FALSE
    <3>1. To(n) = "idle"
      <4>1. Len(notes') = 1 /\ notes'[1] = <<"idle", "unavailable">>
        BY <2>2
      <4>2. From(<<"idle", "unavailable">>) = "idle"
        BY DEF From, Peers
      <4>. QED BY <1>3, <4>1, <4>2
    <3>2. n \in Moves
      BY <1>5, <3>1 DEF NoteFacts
    <3>3. Affects(n, "gHNStarted") /\ "gHNStarted" \in Fields
      BY <3>2 DEF Affects, Fields
    <3>. QED BY <1>10, <1>11, <2>2, <3>2, <3>3
  <2>. QED BY <1>1, <2>1, <2>2 DEF Last
<1>16. Types'
  BY <1>1, <1>3, <1>4, <1>8 DEF IInv, Types
<1>17. Phases'
  <2>1. ui \in {"start", "query", "failbox", "failed", "closed"} => ~heard
    BY DEF IInv, Phases, heard
  <2>. QED BY <1>1, <1>2, <1>6, <1>8, <2>1 DEF IInv, Phases, Running
<1>18. SharingTypes' /\ Sharing'
  BY <1>1, SharingKept
<1>19. ConnCopyCurrent'
  BY <1>1 DEF IInv, ConnCopyCurrent
<1>. QED BY <1>3, <1>9, <1>13, <1>14, <1>15, <1>16, <1>17, <1>18, <1>19 DEF IInv

\* The callbacks left after the first.
LEMMA TodoTail ==
    ASSUME NEW t \in Todos, t # <<>>
    PROVE  /\ t[1] \in Callbacks /\ Tail(t) \in Todos
           /\ \/ t = <<t[1]>> /\ Len(t) = 1 /\ Tail(t) = <<>>
              \/ /\ t = <<"stoped", "unavailable">> /\ Tail(t) = <<"unavailable">>
                 /\ t[1] = "stoped" /\ t[2] = "unavailable" /\ Len(t) = 2
<1>1. CASE t = <<"stoped", "unavailable">>
  <2>1. Tail(<<"stoped", "unavailable">>) \in Seq(Callbacks) /\ Len(Tail(<<"stoped", "unavailable">>)) = 1
        /\ Tail(<<"stoped", "unavailable">>)[1] = "unavailable"
    <3>1. <<"stoped", "unavailable">> \in Seq(Callbacks)
      BY DEF Callbacks
    <3>. QED BY <3>1, HeadTailProperties
  <2>2. Tail(<<"stoped", "unavailable">>) = <<"unavailable">>
    BY <2>1, OneLong
  <2>3. t[1] = "stoped" /\ t[2] = "unavailable" /\ Len(t) = 2
    BY <1>1
  <2>4. <<"unavailable">> \in Todos /\ "stoped" \in Callbacks
    BY DEF Todos, Callbacks
  <2>. QED BY <1>1, <2>2, <2>3, <2>4
<1>2. ASSUME NEW cb \in Callbacks, t = <<cb>>
      PROVE  t[1] = cb /\ Len(t) = 1 /\ Tail(t) = <<>>
  <2>1. <<cb>> \in Seq(Callbacks) /\ Len(<<cb>>) = 1 /\ <<cb>>[1] = cb
    OBVIOUS
  <2>2. Tail(<<cb>>) \in Seq(Callbacks) /\ Len(Tail(<<cb>>)) = 0
    BY <2>1, HeadTailProperties
  <2>. QED BY <1>2, <2>1, <2>2, EmptySeq
<1>. QED BY <1>1, <1>2 DEF Todos

\* CALL_S: the pointer of the callback is tested.
LEMMA TestCallbackInv == IInv /\ Running /\ TestCallback /\ UNCHANGED uiVars => IInv'
<1>. SUFFICES ASSUME IInv, Running, TestCallback, UNCHANGED uiVars PROVE IInv'
  OBVIOUS
<1>1. /\ UNCHANGED <<gInitialized, cbs, held, hn, notes, ssid, conn>>
      /\ UNCHANGED <<shared, pNCPrivate, pNCPublic, lost>>
      /\ UNCHANGED <<ui, view, sWlanSSID, sWlanPasswd, gNCShared>>
  BY DEF TestCallback, uiVars, icsVars
<1>. DEFINE t == nt.todo
            cb == t[1]
<1>2. /\ t \in Todos /\ t # <<>> /\ nt.at = 0 /\ nt \in [todo : Todos, at : 0..5]
      /\ ui \notin {"start", "query", "failbox", "failed", "closed"}
  BY DEF TestCallback, NtFree, IInv, Types, Phases
<1>3. /\ cb \in Callbacks /\ Tail(t) \in Todos
      /\ \/ t = <<cb>> /\ Len(t) = 1 /\ Tail(t) = <<>>
         \/ /\ t = <<"stoped", "unavailable">> /\ Tail(t) = <<"unavailable">>
            /\ cb = "stoped" /\ t[2] = "unavailable" /\ Len(t) = 2
  BY <1>2, TodoTail
<1>4. \/ nt' = [nt EXCEPT !.at = 1] /\ missed' = missed
      \/ nt' = [nt EXCEPT !.todo = Tail(t)] /\ missed' = (missed \/ cb # "join")
  BY <1>2 DEF TestCallback
<1>5. \/ nt'.todo = t /\ nt'.at = 1 /\ missed' = missed
      \/ nt'.todo = Tail(t) /\ nt'.at = 0 /\ missed' = (missed \/ cb # "join")
  BY <1>2, <1>4
<1>. HIDE DEF t
<1>6. nt' \in [todo : Todos, at : 0..5]
  <2>1. Tail(t) \in Todos /\ nt \in [todo : Todos, at : 0..5]
    BY <1>2, <1>3
  <2>2. ASSUME nt' = [nt EXCEPT !.at = 1] PROVE nt' \in [todo : Todos, at : 0..5]
    BY ONLY <2>1, <2>2
  <2>3. ASSUME NEW r \in Todos, nt' = [nt EXCEPT !.todo = r] PROVE nt' \in [todo : Todos, at : 0..5]
    BY ONLY <2>1, <2>3
  <2>. QED BY ONLY <1>4, <2>1, <2>2, <2>3
<1>20. (nt'.todo = t /\ nt'.at = 1) \/ (nt'.todo = Tail(t) /\ nt'.at = 0)
  BY <1>5
<1>7. Base' = Base /\ \A f : NotesSet(f)' = NotesSet(f)
  BY <1>1 DEF Base, NotesSet
<1>8. Shown' => Shown /\ (nt'.todo = t \/ cb = "join")
  BY <1>1, <1>5 DEF Shown
<1>9. Shown' => \A f \in Fields : TodoSets(f) => TodoSets(f)'
  <2>. SUFFICES ASSUME Shown', NEW f \in Fields, TodoSets(f) PROVE TodoSets(f)'
    OBVIOUS
  <2>1. CASE nt'.todo = t /\ nt'.at = 1
    <3>1. nt'.at <= Place(t[1], f)
      BY <2>1, PlaceNat
    <3>. QED BY <2>1, <3>1 DEF TodoSets, t
  <2>2. CASE cb = "join"
    <3>1. Len(t) = 1 /\ cb = "join"
      BY <1>3, <2>2
    <3>2. \A k \in 1..1 : k = 1
      OBVIOUS
    <3>3. Sets(t[1]) = {}
      BY <3>1 DEF Sets
    <3>. QED BY <3>1, <3>2, <3>3 DEF TodoSets, t
  <2>3. nt'.todo = t \/ cb = "join"
    BY <1>8
  <2>4. CASE nt'.todo = Tail(t) /\ nt'.at = 0 /\ cb # "join"
    BY <1>3, <2>3, <2>4
  <2>. QED BY <1>20, <2>1, <2>2, <2>3, <2>4
<1>10. TodoBase'
  <2>1. CASE nt'.todo = t
    BY <1>7, <2>1 DEF IInv, TodoBase, t
  <2>2. CASE nt'.todo = Tail(t) /\ Tail(t) = <<"unavailable">> /\ t[2] = "unavailable" /\ Len(t) = 2
    <3>1. nt'.todo[Len(nt'.todo)] = "unavailable" /\ t[Len(t)] = "unavailable"
      BY <2>2
    <3>. QED BY <1>2, <1>7, <3>1 DEF IInv, TodoBase, t
  <2>3. CASE nt'.todo = <<>>
    BY <2>3 DEF TodoBase
  <2>. QED BY <1>3, <1>5, <2>1, <2>2, <2>3
<1>11. Shown' => \A f \in Fields : Due(f) => Due(f)'
  BY <1>7, <1>9 DEF Due
<1>12. Settled'
  BY <1>1, <1>8, <1>11 DEF IInv, Settled
<1>13. Last'
  <2>. SUFFICES ASSUME Shown', hn = "unavailable"
                PROVE  /\ notes = <<>> /\ Len(nt'.todo) = 1 => ~view.gHNStarted
                       /\ notes = <<<<"idle", "unavailable">>>> /\ ~TodoSets("gHNStarted")' => ~view.gHNStarted
    BY <1>1 DEF Last
  <2>1. Len(nt'.todo) = 1 => nt'.todo = t
    <3>1. cb = "join" => Len(Tail(t)) # 1
      <4>1. Len(<<>>) # 1
        OBVIOUS
      <4>. QED BY <1>3, <4>1
    <3>2. nt'.todo = t \/ cb = "join"
      BY <1>8
    <3>3. nt'.todo = t \/ nt'.todo = Tail(t)
      BY <1>20
    <3>. QED BY ONLY <3>1, <3>2, <3>3
  <2>2. ~TodoSets("gHNStarted")' => ~TodoSets("gHNStarted")
    BY <1>9 DEF Fields
  <2>. QED BY <1>8, <2>1, <2>2 DEF IInv, Last, t
<1>14. Stopping'
  <2>1. "ssid" \in Fields /\ "passwd" \in Fields
    BY DEF Fields
  <2>. QED BY <1>1, <1>8, <1>11, <2>1 DEF IInv, Stopping
<1>15. Types'
  <2>1. nt'.at > 0 => nt'.todo # <<>> /\ nt'.at <= Len(Writes(nt'.todo[1]))
    <3>1. 1 <= Len(Writes(cb))
      <4>1. cb \in Callbacks
        BY <1>3
      <4>2. Len(Writes(cb)) \in 1..5
        BY ONLY <4>1, WritesBound
      <4>. QED BY ONLY <4>2
    <3>. QED BY <1>2, <1>20, <3>1
  <2>. QED BY <1>1, <1>5, <1>6, <2>1 DEF IInv, Types
<1>16. Phases'
  BY <1>1, <1>2 DEF IInv, Phases, Running
<1>17. SharingTypes' /\ Sharing'
  BY <1>1, SharingKept
<1>18. ConnCopyCurrent' /\ Chain'
  BY <1>1 DEF IInv, ConnCopyCurrent, Chain
<1>. QED BY <1>10, <1>12, <1>13, <1>14, <1>15, <1>16, <1>17, <1>18 DEF IInv

\* A callback shows a state of the network.
LEMMA ShowsState == \A cb \in Callbacks : Shows(cb) \in HnStates
BY DEF Shows, Callbacks, HnStates

\* A statement of a callback takes one field at most from those that are going to be set.
LEMMA StatementDone ==
    ASSUME NEW f \in Fields, NEW t \in Todos, t # <<>>,
           nt.todo = t, nt.at \in 1..Len(Writes(t[1])), TodoSets(f), Writes(t[1])[nt.at][1] # f,
           \/ nt.at = Len(Writes(t[1])) /\ nt'.todo = Tail(t) /\ nt'.at = 0
           \/ nt.at # Len(Writes(t[1])) /\ nt'.todo = t /\ nt'.at = nt.at + 1
    PROVE  TodoSets(f)'
<1>1. /\ t[1] \in Callbacks
      /\ \/ t = <<t[1]>> /\ Len(t) = 1 /\ Tail(t) = <<>>
         \/ /\ Tail(t) = <<"unavailable">>
            /\ t[1] = "stoped" /\ t[2] = "unavailable" /\ Len(t) = 2
  BY TodoTail
<1>2. PICK k \in 1..Len(t) : f \in Sets(t[k]) /\ (k = 1 => nt.at <= Place(t[1], f))
  BY DEF TodoSets
<1>3. CASE k = 1
  <2>1. Place(t[1], f) \in 1..Len(Writes(t[1])) /\ Writes(t[1])[Place(t[1], f)][1] = f
    BY <1>1, <1>2, <1>3, SetsWrites
  <2>2. nt.at <= Place(t[1], f)
    BY <1>2, <1>3
  <2>3. nt.at # Place(t[1], f)
    BY <2>1
  <2>4. Len(Writes(t[1])) \in Nat
    BY <1>1, WritesBound
  <2>. DEFINE p == Place(t[1], f)
              l == Len(Writes(t[1]))
              a == nt.at
  <2>5. a \in 1..l /\ p \in 1..l /\ a <= p /\ a # p /\ l \in Nat
    BY <2>1, <2>2, <2>3, <2>4
  <2>. HIDE DEF p, l, a
  <2>6. a # l /\ a + 1 <= p
    BY ONLY <2>5
  <2>7. nt'.todo = t /\ nt'.at <= Place(t[1], f)
    BY <2>6 DEF p, l, a
  <2>. QED BY <1>2, <1>3, <2>7 DEF TodoSets
<1>4. CASE k # 1
  <2>1. k = 2 /\ Tail(t) = <<"unavailable">> /\ t[2] = "unavailable" /\ Len(t) = 2
    <3>1. k \in 1..1 => k = 1
      OBVIOUS
    <3>2. k \in 1..2 /\ k # 1 => k = 2
      OBVIOUS
    <3>. QED BY <1>1, <1>2, <1>4, <3>1, <3>2
  <2>2. CASE nt'.todo = t
    BY <1>2, <1>4, <2>2 DEF TodoSets
  <2>3. CASE nt'.todo = Tail(t) /\ nt'.at = 0
    <3>1. Len(nt'.todo) = 1 /\ nt'.todo[1] = "unavailable" /\ f \in Sets("unavailable")
      BY <1>2, <2>1, <2>3
    <3>2. nt'.at <= Place(nt'.todo[1], f)
      BY <2>3, PlaceNat
    <3>3. 1 \in 1..Len(nt'.todo)
      BY <3>1
    <3>. QED BY <3>1, <3>2, <3>3 DEF TodoSets
  <2>. QED BY <2>2, <2>3
<1>. QED BY <1>3, <1>4

\* One statement of a callback.
LEMMA CallbackStepInv == IInv /\ CallbackStep => IInv'
<1>. SUFFICES ASSUME IInv, CallbackStep PROVE IInv'
  OBVIOUS
<1>1. /\ UNCHANGED <<gInitialized, cbs, held, hn, notes, ssid, conn, missed>>
      /\ UNCHANGED <<shared, pNCPrivate, pNCPublic, lost>>
      /\ UNCHANGED <<ui, sWlanSSID, sWlanPasswd, gNCShared>>
  BY DEF CallbackStep, icsVars
<1>. DEFINE t == nt.todo
            cb == t[1]
            ws == Writes(cb)
            w == ws[nt.at]
<1>2. /\ t \in Todos /\ t # <<>> /\ nt.at > 0 /\ nt.at <= Len(ws) /\ nt \in [todo : Todos, at : 0..5]
      /\ ui \notin {"start", "query", "failbox", "failed", "closed"}
      /\ view \in Views
  BY DEF CallbackStep, InCallback, IInv, Types, Phases
<1>3. /\ cb \in Callbacks /\ Tail(t) \in Todos
      /\ \/ t = <<cb>> /\ Len(t) = 1 /\ Tail(t) = <<>>
         \/ /\ t = <<"stoped", "unavailable">> /\ Tail(t) = <<"unavailable">>
            /\ cb = "stoped" /\ t[2] = "unavailable" /\ Len(t) = 2
  BY <1>2, TodoTail
<1>4. /\ w[1] # "gHNStarted" => Pumping
      /\ view' = After(view, <<w>>)
      /\ nt' = IF nt.at = Len(ws) THEN [todo |-> Tail(t), at |-> 0] ELSE [nt EXCEPT !.at = nt.at + 1]
  BY DEF CallbackStep
<1>5. Len(ws) \in 1..5
  <2>1. cb \in Callbacks
    BY <1>3
  <2>. QED BY ONLY <2>1, WritesBound
<1>6. nt.at \in 1..Len(ws)
  BY <1>2, <1>5
<1>7. \/ nt.at = Len(ws) /\ nt'.todo = Tail(t) /\ nt'.at = 0
      \/ nt.at # Len(ws) /\ nt'.todo = t /\ nt'.at = nt.at + 1
  BY <1>2, <1>4
<1>8. nt' \in [todo : Todos, at : 0..5]
  <2>1. Tail(t) \in Todos
    BY <1>3
  <2>2. CASE nt.at = Len(ws)
    BY <1>4, <2>1, <2>2
  <2>3. CASE nt.at # Len(ws)
    <3>1. nt.at + 1 \in 0..5
      <4>. DEFINE a == nt.at
                  l == Len(ws)
      <4>1. a \in 1..l /\ l \in 1..5 /\ a # l
        BY <1>5, <1>6, <2>3
      <4>. HIDE DEF a, l
      <4>2. a + 1 \in 0..5
        BY ONLY <4>1
      <4>. QED BY <4>2 DEF a
    <3>2. nt' = [nt EXCEPT !.at = nt.at + 1]
      BY <1>4, <2>3
    <3>. QED BY ONLY <1>2, <3>1, <3>2
  <2>. QED BY <2>2, <2>3
<1>9. StatementOf(cb, nt.at)
  <2>1. cb \in Callbacks
    BY <1>3
  <2>. QED BY <1>6, <2>1, WriteSets
<1>. HIDE DEF t, ws
<1>10. w[1] \in Fields => w[1] \in Sets(cb) /\ Place(cb, w[1]) = nt.at /\ w[2] = Target(Shows(cb))[w[1]]
  BY <1>9 DEF StatementOf, Fields, ws
<1>11. Shows(cb) \in HnStates /\ Target(Shows(cb)) \in Views
  BY <1>3, ShowsState, TargetView
<1>12. \A f \in Fields : view'[f] = IF w[1] = f THEN Target(Shows(cb))[f] ELSE view[f]
  <2>1. \A f \in Fields : After(view, <<w>>)[f] = IF w[1] = f THEN w[2] ELSE view[f]
    BY <1>2, AfterOne
  <2>. QED BY <1>4, <1>10, <2>1
<1>13. view' \in Views
  <2>1. \A f \in Fields : After(view, <<w>>)[f] \in {view[f], Target(Shows(cb))[f]}
    BY <1>4, <1>12
  <2>2. After(view, <<w>>) \in Views
    BY <1>2, <1>11, <2>1, AfterIsView
  <2>. QED BY <1>4, <2>2
<1>14. Base' = Base /\ \A f : NotesSet(f)' = NotesSet(f)
  BY <1>1 DEF Base, NotesSet
<1>15. Shown' = Shown
  BY <1>1 DEF Shown
<1>16. \A f \in Fields : TodoSets(f) /\ w[1] # f => TodoSets(f)'
  BY <1>2, <1>6, <1>7, StatementDone DEF t, ws
<1>17. \A f \in Fields : Due(f) /\ w[1] # f => Due(f)'
  BY <1>14, <1>16 DEF Due
<1>18. Shows(t[Len(t)]) = Base
  BY <1>2 DEF IInv, TodoBase, t
<1>19. TodoBase'
  <2>1. CASE nt'.todo = t
    BY <1>14, <1>18, <2>1 DEF TodoBase
  <2>2. CASE nt'.todo = Tail(t) /\ Tail(t) = <<"unavailable">> /\ t[2] = "unavailable" /\ Len(t) = 2
    <3>1. nt'.todo[Len(nt'.todo)] = "unavailable" /\ t[Len(t)] = "unavailable"
      BY <2>2
    <3>. QED BY <1>14, <1>18, <3>1 DEF TodoBase
  <2>3. CASE nt'.todo = <<>>
    BY <2>3 DEF TodoBase
  <2>. QED BY <1>3, <1>7, <2>1, <2>2, <2>3
<1>20. Settled'
  <2>. SUFFICES ASSUME Shown', NEW f \in Fields, ~Due(f)'
                PROVE  view'[f] = Target(hn)[f]
    BY <1>1 DEF Settled
  <2>1. CASE w[1] # f
    <3>1. ~Due(f)
      BY <1>17, <2>1
    <3>. QED BY <1>12, <1>15, <2>1, <3>1 DEF IInv, Settled
  <2>2. CASE w[1] = f
    <3>1. view'[f] = Target(Shows(cb))[f] /\ f \in Sets(cb)
      BY <1>10, <1>12, <2>2
    <3>2. Target(Base)[f] = Target(hn)[f]
      BY <1>14, BaseSettled DEF Due
    <3>3. CASE Len(t) = 1
      BY <1>18, <3>1, <3>2, <3>3
    <3>4. CASE Len(t) = 2 /\ cb = "stoped" /\ t[2] = "unavailable" /\ Tail(t) = <<"unavailable">>
      <4>1. f \notin Sets("unavailable")
        <5>. SUFFICES ASSUME f \in Sets("unavailable") PROVE FALSE
          OBVIOUS
        <5>1. ~TodoSets(f)'
          BY DEF Due
        <5>2. CASE nt'.todo = t
          <6>1. 2 \in 1..Len(nt'.todo) /\ nt'.todo[2] = "unavailable"
            BY <3>4, <5>2
          <6>. QED BY <5>1, <6>1 DEF TodoSets
        <5>3. CASE nt'.todo = Tail(t) /\ nt'.at = 0
          <6>1. 1 \in 1..Len(nt'.todo) /\ nt'.todo[1] = "unavailable"
            BY <3>4, <5>3
          <6>2. nt'.at <= Place(nt'.todo[1], f)
            BY <5>3, PlaceNat
          <6>. QED BY <5>1, <6>1, <6>2 DEF TodoSets
        <5>. QED BY <1>7, <5>2, <5>3
      <4>2. f = "text"
        BY <3>1, <3>4, <4>1 DEF Sets
      <4>3. Shows(cb) = "idle" /\ Base = "unavailable"
        <5>1. Base = Shows("unavailable")
          BY <1>18, <3>4
        <5>. QED BY <3>4, <5>1 DEF Shows
      <4>. QED BY <3>1, <3>2, <4>2, <4>3, TargetFields
    <3>. QED BY <1>3, <3>3, <3>4
  <2>. QED BY <2>1, <2>2
<1>21. ASSUME Shown', hn = "unavailable", notes = <<>> \/ notes = <<<<"idle", "unavailable">>>>
       PROVE  w[1] = "gHNStarted" => ~view'.gHNStarted
  <2>1. Base \in {"unavailable", "idle"}
    <3>1. From(<<"idle", "unavailable">>) = "idle"
      BY DEF From, Peers
    <3>2. <<<<"idle", "unavailable">>>> # <<>> /\ <<<<"idle", "unavailable">>>>[1] = <<"idle", "unavailable">>
      OBVIOUS
    <3>. QED BY <1>21, <3>1, <3>2 DEF Base
  <2>2. Shows(cb) \in {"unavailable", "idle"}
    <3>1. CASE Len(t) = 1
      BY <1>18, <2>1, <3>1
    <3>2. CASE cb = "stoped"
      BY <3>2 DEF Shows
    <3>. QED BY <1>3, <3>1, <3>2
  <2>3. "gHNStarted" \in Fields /\ view'.gHNStarted = view'["gHNStarted"]
    BY DEF Fields
  <2>4. ~Target(Shows(cb)).gHNStarted
    BY <2>2, TargetFields
  <2>. QED BY <1>12, <2>3, <2>4
<1>22. Last'
  <2>1. "gHNStarted" \in Fields
    BY DEF Fields
  <2>2. w[1] # "gHNStarted" => view'.gHNStarted = view.gHNStarted
    BY <1>12, <2>1
  <2>3. ASSUME Shown', hn = "unavailable", notes = <<>>, Len(nt'.todo) = 1
        PROVE  ~view'.gHNStarted
    <3>1. CASE w[1] = "gHNStarted"
      BY <1>21, <2>3, <3>1
    <3>2. CASE w[1] # "gHNStarted" /\ nt'.todo = t
      BY <1>15, <2>2, <2>3, <3>2 DEF IInv, Last, t
    <3>3. CASE w[1] # "gHNStarted" /\ nt.at = Len(ws) /\ cb = "stoped"
      <4>1. nt.at = 4 /\ ws = ui_on_hn_stoped
        BY <3>3, WritesOf, WritesLen DEF ws
      <4>2. ui_on_hn_stoped[4][1] = "gHNStarted"
        BY DEF ui_on_hn_stoped
      <4>. QED BY <3>3, <4>1, <4>2
    <3>4. CASE nt'.todo = <<>>
      <4>1. Len(<<>>) # 1
        OBVIOUS
      <4>. QED BY <2>3, <3>4, <4>1
    <3>. QED BY <1>3, <1>7, <3>1, <3>2, <3>3, <3>4
  <2>4. ASSUME Shown', hn = "unavailable", notes = <<<<"idle", "unavailable">>>>,
               ~TodoSets("gHNStarted")'
        PROVE  ~view'.gHNStarted
    <3>1. CASE w[1] = "gHNStarted"
      BY <1>21, <2>4, <3>1
    <3>2. CASE w[1] # "gHNStarted"
      <4>1. ~TodoSets("gHNStarted")
        BY <1>16, <2>1, <2>4, <3>2
      <4>. QED BY <1>15, <2>2, <2>4, <3>2, <4>1 DEF IInv, Last
    <3>. QED BY <3>1, <3>2
  <2>. QED BY <1>1, <2>3, <2>4 DEF Last
<1>23. Stopping'
  <2>. SUFFICES ASSUME Shown', ui = "stopping", hn = "unavailable" PROVE Due("ssid")' /\ Due("passwd")'
    BY <1>1 DEF Stopping
  <2>1. w[1] = "gHNStarted"
    BY <1>4 DEF Pumping
  <2>2. Due("ssid") /\ Due("passwd")
    BY <1>15 DEF IInv, Stopping
  <2>3. "ssid" \in Fields /\ "passwd" \in Fields
    BY DEF Fields
  <2>. QED BY <1>17, <2>1, <2>2, <2>3
<1>24. Types'
  <2>1. nt'.at > 0 => nt'.todo # <<>> /\ nt'.at <= Len(Writes(nt'.todo[1]))
    <3>1. CASE nt'.at = 0
      BY <3>1
    <3>2. CASE nt.at # Len(ws) /\ nt'.todo = t /\ nt'.at = nt.at + 1
      BY <1>2, <1>5, <1>6, <3>2 DEF ws
    <3>. QED BY <1>7, <3>1, <3>2
  <2>. QED BY <1>1, <1>8, <1>13, <2>1 DEF IInv, Types
<1>25. Phases'
  BY <1>1, <1>2 DEF IInv, Phases, Running
<1>26. SharingTypes' /\ Sharing'
  BY <1>1, SharingKept
<1>27. ConnCopyCurrent' /\ Chain'
  BY <1>1 DEF IInv, ConnCopyCurrent, Chain
<1>. QED BY <1>19, <1>20, <1>22, <1>23, <1>24, <1>25, <1>26, <1>27 DEF IInv

\* The callback crashes: nothing is promised of a process that is gone.
LEMMA CallbackCrashInv == IInv /\ CallbackCrash => IInv'
<1>. SUFFICES ASSUME IInv, CallbackCrash PROVE IInv'
  OBVIOUS
<1>1. ui = "closing" /\ ui' = "crashed" /\ nt.at = 1
  BY DEF CallbackCrash
<1>2. /\ UNCHANGED <<gInitialized, cbs, held, hn, notes, nt, ssid, conn, missed>>
      /\ UNCHANGED <<shared, pNCPrivate, pNCPublic, lost>>
      /\ UNCHANGED <<view, sWlanSSID, sWlanPasswd, gNCShared>>
  BY DEF CallbackCrash, coreVars, wlanVars, icsVars
<1>3. Agreement'
  BY <1>1, <1>2, AgreementKept DEF Shown
<1>4. SharingTypes' /\ Sharing'
  BY <1>1, <1>2, SharingKept
<1>5. Types'
  BY <1>1, <1>2 DEF IInv, Types, UiStates
<1>6. Phases'
  BY <1>1, <1>2 DEF IInv, Phases, Running
<1>7. ConnCopyCurrent'
  BY <1>2 DEF IInv, ConnCopyCurrent
<1>. QED BY <1>3, <1>4, <1>5, <1>6, <1>7 DEF IInv, Agreement

-----------------------------------------------------------------------------
(* What a handler shows after a query of the state *)

\* A handler shows a state with the function a callback consists of.
LEMMA HandlerShows ==
    ASSUME view \in Views, NEW cb \in Callbacks, view' = After(view, Writes(cb))
    PROVE  /\ view' \in Views
           /\ \A f \in Fields : view'[f] = IF f \in Sets(cb) THEN Target(Shows(cb))[f] ELSE view[f]
<1>1. \A f \in Fields : After(view, Writes(cb))[f] = IF f \in Sets(cb) THEN Target(Shows(cb))[f] ELSE view[f]
  BY AfterAll
<1>2. Target(Shows(cb)) \in Views
  BY ShowsState, TargetView
<1>3. After(view, Writes(cb)) \in Views
  <2>1. \A f \in Fields : After(view, Writes(cb))[f] \in {view[f], Target(Shows(cb))[f]}
    BY <1>1
  <2>. QED BY <1>2, <2>1, AfterIsView
<1>. QED BY <1>1, <1>3

\* ui_on_initdialog shows the state it has read.
LEMMA InitQueryInv == IInv /\ InitQuery => IInv'
<1>. SUFFICES ASSUME IInv, InitQuery PROVE IInv'
  OBVIOUS
<1>1. /\ UNCHANGED <<gInitialized, cbs, held, hn, notes, nt, ssid, conn>>
      /\ UNCHANGED <<shared, pNCPrivate, pNCPublic, lost>>
      /\ UNCHANGED <<sWlanSSID, sWlanPasswd, gNCShared>>
  BY DEF InitQuery, icsVars
<1>2. /\ ui = "query" /\ nt.todo = <<>> /\ nt.at = 0 /\ cbs = {} /\ view \in Views /\ hn \in HnStates
      /\ view = [ssid |-> TRUE, passwd |-> TRUE, button |-> TRUE, text |-> "start", gHNStarted |-> FALSE]
  BY DEF InitQuery, IInv, Phases, Types
<1>3. PICK ok \in BOOLEAN :
         /\ view' = After(view, CASE cor_wlan_get_state(ok) = "active" -> ui_on_hn_started
                                  [] cor_wlan_get_state(ok) = "unavailable" -> ui_on_hn_unavailable
                                  [] cor_wlan_get_state(ok) = "idle" -> ui_on_hn_stoped)
         /\ ui' = IF cor_wlan_get_state(ok) = "unavailable" THEN "initbox" ELSE "register"
         /\ missed' = (missed \/ ~ok)
  BY DEF InitQuery
<1>. DEFINE s == cor_wlan_get_state(ok)
            cb == IF s = "active" THEN "started" ELSE IF s = "unavailable" THEN "unavailable" ELSE "stoped"
<1>4. s \in HnStates /\ (ok => s = hn)
  BY <1>2 DEF cor_wlan_get_state, HnStates
<1>. HIDE DEF s
<1>5. ui' \in {"initbox", "register"}
  BY <1>3
<1>6. cb \in Callbacks /\ Shows(cb) = s
  BY <1>4 DEF Callbacks, Shows, HnStates
<1>7. view' = After(view, Writes(cb))
  <2>1. CASE s = "active"
    BY <1>3, <2>1, WritesOf DEF s
  <2>2. CASE s = "unavailable"
    BY <1>3, <2>2, WritesOf DEF s
  <2>3. CASE s = "idle"
    BY <1>3, <2>3, WritesOf DEF s
  <2>. QED BY <1>4, <2>1, <2>2, <2>3 DEF HnStates
<1>8. /\ view' \in Views
      /\ \A f \in Fields : view'[f] = IF f \in Sets(cb) THEN Target(Shows(cb))[f] ELSE view[f]
  BY <1>2, <1>6, <1>7, HandlerShows
<1>9. \A f \in Fields : view'[f] = Target(s)[f]
  <2>. SUFFICES ASSUME NEW f \in Fields, f \notin Sets(cb) PROVE view[f] = Target(s)[f]
    BY <1>6, <1>8
  <2>1. view["button"] = TRUE /\ view["text"] = "start"
    BY <1>2
  <2>2. CASE s = "unavailable"
    <3>1. f = "text"
      BY <2>2 DEF Sets, Fields
    <3>. QED BY <2>1, <2>2, <3>1, TargetFields
  <2>3. CASE s \in {"active", "idle"}
    <3>1. f = "button"
      BY <2>3 DEF Sets, Fields
    <3>. QED BY <2>1, <2>3, <3>1, TargetFields
  <2>. QED BY <1>4, <2>2, <2>3 DEF HnStates
<1>10. Shown' => s = hn
  BY <1>3, <1>4 DEF Shown
<1>11. Settled'
  BY <1>1, <1>9, <1>10 DEF Settled
<1>12. Last'
  <2>. SUFFICES ASSUME Shown', hn = "unavailable" PROVE ~view'.gHNStarted
    BY <1>1 DEF Last
  <2>1. view'["gHNStarted"] = Target("unavailable")["gHNStarted"]
    BY <1>9, <1>10 DEF Fields
  <2>. QED BY <2>1, TargetFields
<1>13. Stopping'
  BY <1>5 DEF Stopping
<1>14. Chain' /\ TodoBase' /\ ConnCopyCurrent'
  BY <1>1 DEF IInv, Chain, TodoBase, Base, ConnCopyCurrent
<1>15. Types'
  <2>1. missed' \in BOOLEAN
    BY <1>3 DEF IInv, Types
  <2>. QED BY <1>1, <1>5, <1>8, <2>1 DEF IInv, Types, UiStates
<1>16. Phases'
  <2>1. cbs' = Registered(0)
    <3>1. 1..0 = {}
      OBVIOUS
    <3>. QED BY <1>1, <1>2, <3>1 DEF Registered
  <2>2. \E k \in 0..4 : cbs' = Registered(k)
    BY <2>1
  <2>. QED BY <1>1, <1>2, <1>5, <2>2 DEF IInv, Phases, Running
<1>17. SharingTypes' /\ Sharing'
  BY <1>1, <1>2, <1>5, SharingKept
<1>. QED BY <1>11, <1>12, <1>13, <1>14, <1>15, <1>16, <1>17 DEF IInv

\* The end of a handler that has called into the service.
LEMMA HandlerEnds ==
    ASSUME IInv, UNCHANGED <<gInitialized, cbs, held, hn, notes, nt, ssid, conn, icsVars,
                             sWlanSSID, sWlanPasswd, gNCShared>>,
           ui \in {"starting", "stopping"}, ui' \in {"idle", "box"}, view' \in Views, missed' \in BOOLEAN
    PROVE  /\ Types' /\ SharingTypes' /\ Phases' /\ Sharing' /\ ConnCopyCurrent'
           /\ Chain' /\ TodoBase' /\ Stopping'
           /\ \A f : Due(f)' = Due(f) /\ TodoSets(f)' = TodoSets(f)
<1>1. UNCHANGED <<shared, pNCPrivate, pNCPublic, lost>>
  BY DEF icsVars
<1>2. Types'
  BY DEF IInv, Types, UiStates
<1>3. Phases'
  BY DEF IInv, Phases, Running
<1>4. SharingTypes' /\ Sharing'
  BY <1>1, SharingKept
<1>5. ConnCopyCurrent' /\ Chain' /\ TodoBase'
  BY DEF IInv, ConnCopyCurrent, Chain, TodoBase, Base
<1>6. Stopping'
  BY DEF Stopping
<1>7. \A f : Due(f)' = Due(f) /\ TodoSets(f)' = TodoSets(f)
  BY DEF Due, TodoSets, NotesSet
<1>. QED BY <1>2, <1>3, <1>4, <1>5, <1>6, <1>7

\* The handler of the start button shows a started network, if it is.
LEMMA FinishStartInv == IInv /\ FinishStart => IInv'
<1>. SUFFICES ASSUME IInv, FinishStart PROVE IInv'
  OBVIOUS
<1>1. /\ UNCHANGED <<gInitialized, cbs, held, hn, notes, nt, ssid, conn, icsVars>>
      /\ UNCHANGED <<sWlanSSID, sWlanPasswd, gNCShared>>
      /\ ui = "starting" /\ view \in Views
  BY DEF FinishStart, IInv, Types
<1>2. PICK ok \in BOOLEAN :
         /\ missed' = (missed \/ ~ok)
         /\ IF cor_wlan_start(TRUE, ok)
            THEN view' = After(view, ui_on_hn_started) /\ ui' = "idle"
            ELSE view' = view /\ ui' = "box"
  BY DEF FinishStart
<1>3. missed' \in BOOLEAN /\ ui' \in {"idle", "box"} /\ (Shown' => Shown)
  BY <1>1, <1>2 DEF Shown, IInv, Types
<1>4. CASE cor_wlan_start(TRUE, ok)
  <2>1. hn = "active" /\ view' = After(view, Writes("started"))
    BY <1>2, <1>4, WritesOf DEF cor_wlan_start, cor_wlan_is_started, cor_wlan_get_state
  <2>2. "started" \in Callbacks /\ Shows("started") = "active"
    BY DEF Callbacks, Shows
  <2>3. /\ view' \in Views
        /\ \A f \in Fields : view'[f] = IF f \in Sets("started") THEN Target("active")[f] ELSE view[f]
    BY <1>1, <2>1, <2>2, HandlerShows
  <2>4. /\ Types' /\ SharingTypes' /\ Phases' /\ Sharing' /\ ConnCopyCurrent'
        /\ Chain' /\ TodoBase' /\ Stopping'
        /\ \A f : Due(f)' = Due(f)
    BY <1>1, <1>3, <2>3, HandlerEnds
  <2>5. Settled'
    BY <1>1, <1>3, <2>1, <2>3, <2>4 DEF IInv, Settled
  <2>6. Last'
    BY <1>1, <2>1 DEF Last
  <2>. QED BY <2>4, <2>5, <2>6 DEF IInv
<1>5. CASE ~cor_wlan_start(TRUE, ok)
  <2>1. view' = view
    BY <1>2, <1>5
  <2>2. /\ Types' /\ SharingTypes' /\ Phases' /\ Sharing' /\ ConnCopyCurrent'
        /\ Chain' /\ TodoBase' /\ Stopping'
        /\ \A f : Due(f)' = Due(f) /\ TodoSets(f)' = TodoSets(f)
    BY <1>1, <1>3, <2>1, HandlerEnds
  <2>3. Settled'
    BY <1>1, <1>3, <2>1, <2>2 DEF IInv, Settled
  <2>4. Last'
    BY <1>1, <1>3, <2>1, <2>2 DEF IInv, Last
  <2>. QED BY <2>2, <2>3, <2>4 DEF IInv
<1>. QED BY <1>4, <1>5

\* The handler of the stop button shows a stopped network unless it still runs; one that
\* has become unavailable meanwhile will be shown so by the callbacks that are left.
LEMMA FinishStopInv == IInv /\ FinishStop => IInv'
<1>. SUFFICES ASSUME IInv, FinishStop PROVE IInv'
  OBVIOUS
<1>1. /\ UNCHANGED <<gInitialized, cbs, held, hn, notes, nt, ssid, conn, icsVars>>
      /\ UNCHANGED <<sWlanSSID, sWlanPasswd, gNCShared>>
      /\ ui = "stopping" /\ ui' = "idle" /\ view \in Views /\ hn \in HnStates
  BY DEF FinishStop, IInv, Types
<1>2. PICK ok \in BOOLEAN :
         /\ missed' = (missed \/ ~ok)
         /\ view' = IF cor_wlan_stop(TRUE, ok) THEN After(view, ui_on_hn_stoped) ELSE view
  BY DEF FinishStop
<1>3. missed' \in BOOLEAN /\ ui' \in {"idle", "box"} /\ (Shown' => Shown /\ ok)
  BY <1>1, <1>2 DEF Shown, IInv, Types
<1>4. CASE cor_wlan_stop(TRUE, ok)
  <2>1. (ok => hn # "active") /\ view' = After(view, Writes("stoped"))
    BY <1>2, <1>4, WritesOf DEF cor_wlan_stop, cor_wlan_is_started, cor_wlan_get_state
  <2>2. "stoped" \in Callbacks /\ Shows("stoped") = "idle"
    BY DEF Callbacks, Shows
  <2>3. /\ view' \in Views
        /\ \A f \in Fields : view'[f] = IF f \in Sets("stoped") THEN Target("idle")[f] ELSE view[f]
    BY <1>1, <2>1, <2>2, HandlerShows
  <2>4. /\ Types' /\ SharingTypes' /\ Phases' /\ Sharing' /\ ConnCopyCurrent'
        /\ Chain' /\ TodoBase' /\ Stopping'
        /\ \A f : Due(f)' = Due(f)
    BY <1>1, <1>3, <2>3, HandlerEnds
  <2>5. Settled'
    <3>. SUFFICES ASSUME Shown', NEW f \in Fields, ~Due(f) PROVE view'[f] = Target(hn)[f]
      BY <1>1, <2>4 DEF Settled
    <3>1. CASE f \notin Sets("stoped")
      BY <1>3, <2>3, <3>1 DEF IInv, Settled
    <3>2. CASE f \in Sets("stoped") /\ hn = "idle"
      BY <2>3, <3>2
    <3>3. CASE f \in Sets("stoped") /\ hn = "unavailable"
      <4>1. Due("ssid") /\ Due("passwd")
        BY <1>1, <1>3, <3>3 DEF IInv, Stopping
      <4>2. f \in {"text", "gHNStarted"}
        BY <3>3, <4>1 DEF Sets
      <4>. QED BY <2>3, <3>3, <4>2, TargetFields
    <3>. QED BY <1>1, <1>3, <2>1, <3>1, <3>2, <3>3 DEF HnStates
  <2>6. Last'
    <3>1. "gHNStarted" \in Fields /\ "gHNStarted" \in Sets("stoped")
      BY DEF Fields, Sets
    <3>2. ~view'.gHNStarted
      BY <2>3, <3>1, TargetFields
    <3>. QED BY <3>2 DEF Last
  <2>. QED BY <2>4, <2>5, <2>6 DEF IInv
<1>5. CASE ~cor_wlan_stop(TRUE, ok)
  <2>1. view' = view
    BY <1>2, <1>5
  <2>2. /\ Types' /\ SharingTypes' /\ Phases' /\ Sharing' /\ ConnCopyCurrent'
        /\ Chain' /\ TodoBase' /\ Stopping'
        /\ \A f : Due(f)' = Due(f) /\ TodoSets(f)' = TodoSets(f)
    BY <1>1, <1>3, <2>1, HandlerEnds
  <2>3. Settled'
    BY <1>1, <1>3, <2>1, <2>2 DEF IInv, Settled
  <2>4. Last'
    BY <1>1, <1>3, <2>1, <2>2 DEF IInv, Last
  <2>. QED BY <2>2, <2>3, <2>4 DEF IInv
<1>. QED BY <1>4, <1>5

-----------------------------------------------------------------------------
(* The clicks of the user *)

\* A handler of a click, up to its call into the service.
LEMMA HandlerBegins ==
    ASSUME IInv, UNCHANGED <<gInitialized, cbs, held, nt, missed, icsVars, view, gNCShared>>,
           ui = "idle", ui' \in {"idle", "box", "starting", "stopping"},
           NEW s, s = hn \/ <<hn, s>> \in Moves, HnBecomes(s),
           Shown /\ ui' = "stopping" /\ hn = "unavailable" => Due("ssid") /\ Due("passwd"),
           ssid' \in 0..32, conn' \in 0..32, ConnCopyCurrent',
           sWlanSSID' \in 0..MAX_SSID_LEN, sWlanPasswd' \in 0..MAX_KEY_LEN
    PROVE  IInv'
<1>1. UNCHANGED <<shared, pNCPrivate, pNCPublic, lost>>
  BY DEF icsVars
<1>2. Running /\ (Shown' => Shown)
  BY DEF Running, Shown
<1>3. /\ hn' \in HnStates /\ notes' \in Seq(Notes) /\ Agreement'
      /\ "wlan" \notin held => notes' = <<>>
  BY <1>2, HnStep
<1>4. Types'
  BY <1>3 DEF IInv, Types, UiStates
<1>5. Phases'
  BY <1>3 DEF IInv, Phases, Running
<1>6. SharingTypes' /\ Sharing'
  BY <1>1, SharingKept
<1>. QED BY <1>3, <1>4, <1>5, <1>6 DEF IInv, Agreement

\* An update of the SSID leaves the copy as the service has it.
LEMMA SsidUpdated ==
    ASSUME IInv, gInitialized' = gInitialized, NEW t, NEW done \in BOOLEAN,
           cor_wlan_set_ssid(t, done) \/ UNCHANGED <<ssid, conn>>
    PROVE  ssid' \in 0..32 /\ conn' \in 0..32 /\ ConnCopyCurrent'
<1>1. ssid \in 0..32 /\ conn \in 0..32 /\ ConnCopyCurrent
  BY DEF IInv, Types
<1>2. CASE UNCHANGED <<ssid, conn>>
  BY <1>1, <1>2 DEF ConnCopyCurrent
<1>3. CASE cor_wlan_set_ssid(t, done) /\ done
  <2>1. t \in 1..31 /\ conn' = t /\ ssid' = t
    BY <1>3 DEF cor_wlan_set_ssid, Convertible
  <2>. QED BY <2>1 DEF ConnCopyCurrent
<1>4. CASE cor_wlan_set_ssid(t, done) /\ ~done
  BY <1>1, <1>4 DEF cor_wlan_set_ssid, ConnCopyCurrent
<1>. QED BY <1>2, <1>3, <1>4

\* The button starts the network.
LEMMA ClickStartInv == IInv /\ ClickStart => IInv'
<1>. SUFFICES ASSUME IInv, ClickStart PROVE IInv'
  OBVIOUS
<1>1. UNCHANGED <<gInitialized, cbs, held, nt, missed, icsVars, view, gNCShared>> /\ ui = "idle"
  BY DEF ClickStart, Click
<1>2. hn \in HnStates /\ sWlanSSID \in 0..MAX_SSID_LEN /\ sWlanPasswd \in 0..MAX_KEY_LEN
  BY DEF IInv, Types
<1>3. ASSUME UNCHANGED <<ssid, conn, hn, notes, sWlanSSID, sWlanPasswd>>, ui' = "box"
      PROVE  IInv'
  <2>1. HnBecomes(hn)
    BY <1>3 DEF HnBecomes
  <2>2. ssid' \in 0..32 /\ conn' \in 0..32 /\ ConnCopyCurrent'
    BY <1>1, <1>3, SsidUpdated
  <2>. QED BY <1>1, <1>2, <1>3, <2>1, <2>2, HandlerBegins
<1>4. ASSUME NEW t, NEW done \in BOOLEAN, cor_wlan_set_ssid(t, done) \/ UNCHANGED <<ssid, conn>>,
             UNCHANGED <<hn, notes, sWlanPasswd>>, sWlanSSID' \in 0..MAX_SSID_LEN, ui' = "box"
      PROVE  IInv'
  <2>1. HnBecomes(hn)
    BY <1>4 DEF HnBecomes
  <2>2. ssid' \in 0..32 /\ conn' \in 0..32 /\ ConnCopyCurrent'
    BY <1>1, <1>4, SsidUpdated
  <2>. QED BY <1>1, <1>2, <1>4, <2>1, <2>2, HandlerBegins
<1>5. ASSUME NEW t, cor_wlan_set_ssid(t, TRUE) \/ UNCHANGED <<ssid, conn>>, NEW done \in BOOLEAN,
             StartUsing(done), sWlanSSID' \in 0..MAX_SSID_LEN, sWlanPasswd' \in 0..MAX_KEY_LEN,
             ui' \in {"starting", "box"}
      PROVE  IInv'
  <2>1. HnBecomes(IF done THEN "active" ELSE hn)
    BY <1>5 DEF StartUsing
  <2>2. (IF done THEN "active" ELSE hn) = hn \/ <<hn, IF done THEN "active" ELSE hn>> \in Moves
    BY <1>2, <1>5 DEF StartUsing, HnStates, Moves
  <2>3. ssid' \in 0..32 /\ conn' \in 0..32 /\ ConnCopyCurrent'
    BY <1>1, <1>5, SsidUpdated
  <2>. QED BY <1>1, <1>5, <2>1, <2>2, <2>3, HandlerBegins
<1>6. PICK s \in TypedSsids \cup {sWlanSSID}, p \in TypedKeys \cup {sWlanPasswd}, done \in BOOLEAN :
         \/ ui' = "box" /\ UNCHANGED <<ssid, conn, hn, notes, sWlanSSID, sWlanPasswd>>
         \/ /\ cor_wlan_set_ssid(s, FALSE) /\ ui' = "box"
            /\ UNCHANGED <<hn, notes, sWlanSSID, sWlanPasswd>>
         \/ /\ s \in 1..MAX_SSID_LEN /\ Update(s, sWlanSSID, TRUE) /\ sWlanSSID' = s /\ ui' = "box"
            /\ UNCHANGED <<hn, notes, sWlanPasswd>>
         \/ /\ s \in 1..MAX_SSID_LEN /\ p \in MIN_KEY_LEN..MAX_KEY_LEN
            /\ \/ Update(s, sWlanSSID, TRUE)
               \/ cor_wlan_set_ssid(p, TRUE)
            /\ sWlanSSID' = s /\ sWlanPasswd' = p /\ StartUsing(done)
            /\ ui' \in {"starting", "box"}
  <2>1. PICK s \in TypedSsids \cup {sWlanSSID}, p \in TypedKeys \cup {sWlanPasswd}, done \in BOOLEAN :
          \/ /\ s = 0 \/ s > MAX_SSID_LEN
             /\ done
             /\ ui' = "box"
             /\ UNCHANGED <<ssid, conn, hn, notes, sWlanSSID, sWlanPasswd>>
          \/ /\ s \in 1..MAX_SSID_LEN
             /\ ~done /\ s # sWlanSSID
             /\ cor_wlan_set_ssid(s, FALSE)
             /\ ui' = "box"
             /\ UNCHANGED <<hn, notes, sWlanSSID, sWlanPasswd>>
          \/ /\ s \in 1..MAX_SSID_LEN
             /\ p < MIN_KEY_LEN \/ p > MAX_KEY_LEN
             /\ done /\ Update(s, sWlanSSID, TRUE)
             /\ sWlanSSID' = s
             /\ ui' = "box"
             /\ UNCHANGED <<hn, notes, sWlanPasswd>>
          \/ /\ s \in 1..MAX_SSID_LEN
             /\ p \in MIN_KEY_LEN..MAX_KEY_LEN /\ p # sWlanPasswd
             /\ ~done /\ Update(s, sWlanSSID, TRUE)
             /\ sWlanSSID' = s
             /\ ui' = "box"
             /\ UNCHANGED <<hn, notes, sWlanPasswd>>
          \/ /\ s \in 1..MAX_SSID_LEN
             /\ p \in MIN_KEY_LEN..MAX_KEY_LEN
             /\ IF p = sWlanPasswd THEN Update(s, sWlanSSID, TRUE)
                ELSE /\ s # sWlanSSID => Convertible(s)
                     /\ cor_wlan_set_ssid(p, TRUE)
             /\ sWlanSSID' = s /\ sWlanPasswd' = p
             /\ StartUsing(done)
             /\ ui' = IF done THEN "starting" ELSE "box"
    BY DEF ClickStart
  <2>. WITNESS s \in TypedSsids \cup {sWlanSSID}, p \in TypedKeys \cup {sWlanPasswd}, done \in BOOLEAN
  <2>. QED BY <2>1
<1>7. /\ s \in 1..MAX_SSID_LEN => s \in 0..MAX_SSID_LEN
      /\ p \in MIN_KEY_LEN..MAX_KEY_LEN => p \in 0..MAX_KEY_LEN
  BY DEF MAX_SSID_LEN, MIN_KEY_LEN, MAX_KEY_LEN
<1>8. Update(s, sWlanSSID, TRUE) => cor_wlan_set_ssid(s, TRUE) \/ UNCHANGED <<ssid, conn>>
  BY DEF Update
<1>9. CASE ui' = "box" /\ UNCHANGED <<ssid, conn, hn, notes, sWlanSSID, sWlanPasswd>>
  BY <1>3, <1>9
<1>10. CASE /\ cor_wlan_set_ssid(s, FALSE) /\ ui' = "box"
            /\ UNCHANGED <<hn, notes, sWlanSSID, sWlanPasswd>>
  BY <1>2, <1>4, <1>10
<1>11. CASE /\ s \in 1..MAX_SSID_LEN /\ Update(s, sWlanSSID, TRUE) /\ sWlanSSID' = s /\ ui' = "box"
            /\ UNCHANGED <<hn, notes, sWlanPasswd>>
  BY <1>4, <1>7, <1>8, <1>11
<1>12. CASE /\ s \in 1..MAX_SSID_LEN /\ p \in MIN_KEY_LEN..MAX_KEY_LEN
            /\ \/ Update(s, sWlanSSID, TRUE)
               \/ cor_wlan_set_ssid(p, TRUE)
            /\ sWlanSSID' = s /\ sWlanPasswd' = p /\ StartUsing(done)
            /\ ui' \in {"starting", "box"}
  BY <1>5, <1>7, <1>8, <1>12
<1>. QED BY <1>6, <1>9, <1>10, <1>11, <1>12

\* A dialog that takes the network for running, when it is unavailable, is going to be told.
LEMMA StopDue ==
    ASSUME IInv, Shown, view.gHNStarted, hn = "unavailable"
    PROVE  Due("ssid") /\ Due("passwd")
<1>1. CASE notes # <<>>
  <2>. DEFINE m == Len(notes)
  <2>1. m \in 1..m /\ notes[m] \in Notes /\ To(notes[m]) = "unavailable"
    BY <1>1 DEF IInv, Types, Chain
  <2>2. notes[m] \in Moves
    BY <2>1, NoteTells DEF NoteFacts
  <2>3. NotesSet("ssid") /\ NotesSet("passwd")
    BY <2>1, <2>2 DEF NotesSet, Affects
  <2>. QED BY <2>3 DEF Due
<1>2. CASE notes = <<>>
  <2>1. "gHNStarted" \in Fields /\ view.gHNStarted = view["gHNStarted"]
    BY DEF Fields
  <2>2. Due("gHNStarted")
    BY <2>1, TargetFields DEF IInv, Settled
  <2>3. ~NotesSet("gHNStarted")
    BY <1>2 DEF NotesSet
  <2>4. nt.todo # <<>> /\ Len(nt.todo) # 1 /\ nt.todo \in Todos
    BY <1>2, <2>2, <2>3 DEF Due, TodoSets, IInv, Last, Types
  <2>5. Len(nt.todo) = 2 /\ nt.todo[2] = "unavailable"
    BY <2>4, TodoTail
  <2>6. 2 \in 1..Len(nt.todo) /\ {"ssid", "passwd"} \subseteq Sets(nt.todo[2])
    BY <2>5 DEF Sets
  <2>. QED BY <2>6 DEF Due, TodoSets
<1>. QED BY <1>1, <1>2

\* The button stops the network.
LEMMA ClickStopInv == IInv /\ ClickStop => IInv'
<1>. SUFFICES ASSUME IInv, ClickStop PROVE IInv'
  OBVIOUS
<1>1. UNCHANGED <<gInitialized, cbs, held, nt, missed, icsVars, view, gNCShared>>
      /\ ui = "idle" /\ ui' \in {"idle", "stopping"} /\ view.gHNStarted
  BY DEF ClickStop, Click
<1>2. UNCHANGED <<ssid, conn, sWlanSSID, sWlanPasswd>>
  BY DEF ClickStop
<1>3. /\ ssid' \in 0..32 /\ conn' \in 0..32 /\ ConnCopyCurrent'
      /\ sWlanSSID' \in 0..MAX_SSID_LEN /\ sWlanPasswd' \in 0..MAX_KEY_LEN
  BY <1>1, <1>2 DEF IInv, Types, ConnCopyCurrent
<1>4. Shown /\ ui' = "stopping" /\ hn = "unavailable" => Due("ssid") /\ Due("passwd")
  BY <1>1, StopDue
<1>5. \/ HnBecomes(hn)
      \/ HnBecomes("idle") /\ <<hn, "idle">> \in Moves
  BY DEF ClickStop, StopUsing, Moves
<1>. QED BY <1>1, <1>3, <1>4, <1>5, HandlerBegins

-----------------------------------------------------------------------------
(* Sharing *)

\* Handlers that work on the sharing or show a box.
LEMMA HandlerRuns ==
    ASSUME IInv, UNCHANGED <<gInitialized, cbs, held, hn, notes, nt, ssid, conn, missed, view,
                             sWlanSSID, sWlanPasswd>>,
           ui = "idle", ui' \in {"idle", "box"}, SharingTypes', Sharing'
    PROVE  IInv'
<1>1. Agreement'
  BY AgreementKept DEF Shown
<1>2. Types'
  BY DEF IInv, Types, UiStates
<1>3. Phases'
  BY DEF IInv, Phases, Running
<1>4. ConnCopyCurrent'
  BY DEF IInv, ConnCopyCurrent
<1>. QED BY <1>1, <1>2, <1>3, <1>4 DEF IInv, Agreement

\* Of the connections the pointers account for, disabling leaves the lost ones.
LEMMA DisabledConns ==
    ASSUME IInv, gInitialized, ui \notin {"closing", "crashed"}, NEW F \in SUBSET AllConns
    PROVE  /\ Disabled(shared, Pointed, F) \in [AllConns -> {"no", "private", "public"}]
           /\ LostBut(F) \subseteq AllConns
           /\ \A c \in AllConns : Disabled(shared, Pointed, F)[c] # "no" <=> c \in LostBut(F)
<1>1. /\ shared \in [AllConns -> {"no", "private", "public"}] /\ lost \subseteq AllConns
      /\ {c \in AllConns : shared[c] # "no"} = Pointed \cup lost
  BY DEF IInv, SharingTypes, Sharing, SharedConns
<1>2. Pointed \subseteq AllConns
  BY <1>1
<1>3. Disabled(shared, Pointed, F) \in [AllConns -> {"no", "private", "public"}]
  BY <1>1 DEF Disabled
<1>4. \A c \in AllConns : Disabled(shared, Pointed, F)[c] = IF c \in Pointed \ F THEN "no" ELSE shared[c]
  BY DEF Disabled
<1>. QED BY <1>1, <1>2, <1>3, <1>4 DEF LostBut

\* Disabling the connections of the pointers leaves those that cannot be disabled.
LEMMA DisableInv ==
    ASSUME IInv, gInitialized, ui \notin {"closing", "crashed"}, ui' # "start",
           NEW F \in SUBSET AllConns, cor_ics_disable(F),
           gNCShared' = cor_ics_is_enabled(pNCPrivate', pNCPublic')
    PROVE  SharingTypes' /\ Sharing'
<1>1. /\ shared' = Disabled(shared, Pointed, F) /\ lost' = LostBut(F)
      /\ pNCPrivate' = None /\ pNCPublic' = None
  BY DEF cor_ics_disable
<1>2. /\ shared' \in [AllConns -> {"no", "private", "public"}] /\ lost' \subseteq AllConns
      /\ \A c \in AllConns : shared'[c] # "no" <=> c \in lost'
  BY <1>1, DisabledConns
<1>3. Pointed' = {}
  BY <1>1 DEF Pointed
<1>4. SharedConns' = Pointed' \cup lost'
  BY <1>2, <1>3 DEF SharedConns
<1>5. gNCShared' \in BOOLEAN
  BY DEF cor_ics_is_enabled
<1>6. SharingTypes'
  BY <1>1, <1>2, <1>5 DEF SharingTypes
<1>. QED BY <1>1, <1>4, <1>6 DEF Sharing

\* A sharing that succeeds is what the pointers say; one that fails is taken back.
LEMMA EnableInv ==
    ASSUME IInv, gInitialized, ui \notin {"closing", "crashed"}, ui' # "start",
           NEW c \in cor_ics_enum, NEW s, NEW ok \in SUBSET {Adapter, c}, NEW F \in SUBSET AllConns,
           cor_ics_enable(c, s, ok, F),
           gNCShared' = cor_ics_is_enabled(pNCPrivate', pNCPublic')
    PROVE  SharingTypes' /\ Sharing'
<1>1. /\ Disabled(shared, Pointed, F) \in [AllConns -> {"no", "private", "public"}]
      /\ LostBut(F) \subseteq AllConns
      /\ \A x \in AllConns : Disabled(shared, Pointed, F)[x] # "no" <=> x \in LostBut(F)
  BY DisabledConns
<1>2. gNCShared' \in BOOLEAN
  BY DEF cor_ics_is_enabled
<1>3. /\ Adapter \in AllConns /\ c \in AllConns /\ c # Adapter /\ c # None /\ Adapter # None
      /\ ok \subseteq AllConns
  BY WohnAssumption DEF cor_ics_enum, AllConns
<1>4. CASE s = "unavailable"
  <2>1. /\ UNCHANGED <<shared, lost, pNCPrivate, pNCPublic>>
        /\ Pointed' = Pointed /\ SharedConns' = SharedConns
    BY <1>4 DEF cor_ics_enable, Pointed, SharedConns
  <2>2. SharingTypes'
    BY <1>2, <2>1 DEF IInv, SharingTypes
  <2>. QED BY <2>1, <2>2 DEF IInv, Sharing
<1>5. CASE s # "unavailable"
  <2>. DEFINE enabled == [x \in AllConns |-> IF x \in ok THEN IF x = Adapter THEN "private" ELSE "public"
                                             ELSE Disabled(shared, Pointed, F)[x]]
              refused == LostBut(F) \ ok
  <2>1. IF ok = {Adapter, c}
        THEN /\ shared' = enabled /\ lost' = refused /\ pNCPrivate' = Adapter /\ pNCPublic' = c
        ELSE /\ shared' = Disabled(enabled, ok, F) /\ lost' = refused \cup (ok \cap F)
             /\ pNCPrivate' = None /\ pNCPublic' = None
    BY <1>5 DEF cor_ics_enable
  <2>3. enabled \in [AllConns -> {"no", "private", "public"}] /\ refused \subseteq AllConns
    BY <1>1
  <2>4. \A x \in AllConns : x \notin ok => (enabled[x] # "no" <=> x \in refused)
    BY <1>1
  <2>5. /\ \A x \in ok : enabled[x] = IF x = Adapter THEN "private" ELSE "public"
        /\ \A x \in refused : x \notin ok
    BY <1>3
  <2>. HIDE DEF enabled, refused
  <2>6. CASE ok = {Adapter, c}
    <3>1. shared' = enabled /\ lost' = refused /\ pNCPrivate' = Adapter /\ pNCPublic' = c
      BY <2>1, <2>6
    <3>2. SharingTypes'
      BY <1>2, <1>3, <2>3, <3>1 DEF SharingTypes
    <3>3. Pointed' = {Adapter, c}
      BY <1>3, <3>1 DEF Pointed
    <3>4. shared'[Adapter] = "private" /\ shared'[c] = "public"
      BY <1>3, <2>5, <2>6, <3>1
    <3>5. \A x \in AllConns : shared'[x] # "no" <=> x \in Pointed' \cup lost'
      BY <2>4, <2>5, <2>6, <3>1, <3>3
    <3>6. SharedConns' = Pointed' \cup lost'
      BY <1>3, <2>3, <3>1, <3>3, <3>5 DEF SharedConns
    <3>. QED BY <3>1, <3>2, <3>4, <3>6 DEF Sharing
  <2>7. CASE ok # {Adapter, c}
    <3>1. /\ shared' = Disabled(enabled, ok, F) /\ lost' = refused \cup (ok \cap F)
          /\ pNCPrivate' = None /\ pNCPublic' = None
      BY <2>1, <2>7
    <3>2. shared' \in [AllConns -> {"no", "private", "public"}] /\ lost' \subseteq AllConns
      BY <1>3, <2>3, <3>1 DEF Disabled
    <3>3. SharingTypes'
      BY <1>2, <3>1, <3>2 DEF SharingTypes
    <3>4. \A x \in AllConns : shared'[x] = IF x \in ok \ F THEN "no" ELSE enabled[x]
      BY <3>1 DEF Disabled
    <3>5. \A x \in AllConns : shared'[x] # "no" <=> x \in lost'
      BY <2>4, <2>5, <3>1, <3>4
    <3>6. Pointed' = {}
      BY <3>1 DEF Pointed
    <3>7. SharedConns' = Pointed' \cup lost'
      BY <3>2, <3>5, <3>6 DEF SharedConns
    <3>. QED BY <3>1, <3>3, <3>7 DEF Sharing
  <2>. QED BY <2>6, <2>7
<1>. QED BY <1>4, <1>5

\* The button of the sharing.
LEMMA IcsClickInv == IInv /\ ui_on_btn_ics_click => IInv'
<1>. SUFFICES ASSUME IInv, ui_on_btn_ics_click PROVE IInv'
  OBVIOUS
<1>1. /\ UNCHANGED <<gInitialized, cbs, held, hn, notes, nt, ssid, conn, missed, view>>
      /\ UNCHANGED <<sWlanSSID, sWlanPasswd>> /\ ui = "idle" /\ ui' \in {"idle", "box"}
  BY DEF ui_on_btn_ics_click, Click, wlanVars
<1>2. gInitialized
  BY <1>1 DEF IInv, Phases
<1>3. ui \notin {"closing", "crashed"} /\ ui' # "start"
  BY <1>1
<1>4. CASE UNCHANGED <<icsVars, gNCShared>>
  <2>1. UNCHANGED <<shared, pNCPrivate, pNCPublic, lost, gNCShared>>
    BY <1>4 DEF icsVars
  <2>2. SharingTypes' /\ Sharing'
    BY <1>1, <1>2, <1>3, <2>1, SharingKept
  <2>. QED BY <1>1, <2>2, HandlerRuns
<1>5. ASSUME NEW c \in cor_ics_enum, NEW okQuery \in BOOLEAN, NEW F \in SUBSET AllConns,
             NEW ok \in SUBSET {Adapter, c}, cor_ics_enable(c, cor_wlan_get_state(okQuery), ok, F),
             gNCShared' = cor_ics_is_enabled(pNCPrivate', pNCPublic')
      PROVE  IInv'
  <2>1. SharingTypes' /\ Sharing'
    BY <1>2, <1>3, <1>5, EnableInv
  <2>. QED BY <1>1, <2>1, HandlerRuns
<1>6. ASSUME NEW F \in SUBSET AllConns, cor_ics_disable(F),
             gNCShared' = cor_ics_is_enabled(pNCPrivate', pNCPublic')
      PROVE  IInv'
  <2>1. SharingTypes' /\ Sharing'
    BY <1>2, <1>3, <1>6, DisableInv
  <2>. QED BY <1>1, <2>1, HandlerRuns
<1>. QED BY <1>4, <1>5, <1>6 DEF ui_on_btn_ics_click

\* A line of the log is shown in a box.
LEMMA LogClickInv == IInv /\ ui_on_lst_log_dblclick => IInv'
<1>. SUFFICES ASSUME IInv, ui_on_lst_log_dblclick PROVE IInv'
  OBVIOUS
<1>1. /\ UNCHANGED <<gInitialized, cbs, held, hn, notes, nt, ssid, conn, missed, view>>
      /\ UNCHANGED <<shared, pNCPrivate, pNCPublic, lost, gNCShared>>
      /\ UNCHANGED <<sWlanSSID, sWlanPasswd>> /\ ui = "idle" /\ ui' = "box"
  BY DEF ui_on_lst_log_dblclick, Click, coreVars, wlanVars, icsVars
<1>2. gInitialized
  BY <1>1 DEF IInv, Phases
<1>3. SharingTypes' /\ Sharing'
  BY <1>1, <1>2, SharingKept
<1>. QED BY <1>1, <1>3, HandlerRuns

-----------------------------------------------------------------------------
(* The beginning and the end of the dialog *)

\* What cor_wlan_initialize holds.
LEMMA HeldItems ==
    /\ WlanHeld = {"cs", "wlan", "enabled", "status", "conn", "sec"}
    /\ \A w \in cor_wlan_failures : w \subseteq WlanHeld
<1>1. /\ WlanItems[1] = "cs" /\ WlanItems[2] = "wlan" /\ WlanItems[3] = "enabled"
      /\ WlanItems[4] = "status" /\ WlanItems[5] = "conn" /\ WlanItems[6] = "sec"
      /\ Len(WlanItems) = 6
  BY DEF WlanItems
<1>2. \A i \in 1..6 : i \in {1, 2, 3, 4, 5, 6}
  OBVIOUS
<1>3. WlanHeld = {WlanItems[i] : i \in {1, 2, 3, 4, 5, 6}}
  <2>1. 1..6 = {1, 2, 3, 4, 5, 6}
    BY <1>2
  <2>. QED BY <1>1, <2>1 DEF WlanHeld
<1>4. WlanHeld = {"cs", "wlan", "enabled", "status", "conn", "sec"}
  BY <1>1, <1>3
<1>5. ASSUME NEW k \in 1..Len(WlanItems) PROVE {WlanItems[i] : i \in 1..k} \subseteq WlanHeld
  <2>1. \A i \in 1..k : i \in 1..Len(WlanItems)
    BY <1>1
  <2>. QED BY <2>1 DEF WlanHeld
<1>. QED BY <1>4, <1>5 DEF cor_wlan_failures

\* The pointers cor_ics_initialize finds, and the shared connections it does not account for.
Found == /\ SharedConns = ({pNCPrivate', pNCPublic'} \ {None}) \cup lost'
         /\ pNCPrivate' \notin lost' \cup {None} => shared[pNCPrivate'] = "private"
         /\ pNCPublic' \notin lost' \cup {None} => shared[pNCPublic'] = "public"

\* Whatever cor_ics_initialize comes to see, its pointers account for the rest.
LEMMA InitializeFinds ==
    ASSUME IInv, ui = "start", NEW before \in BOOLEAN, cor_ics_initialize(before)
    PROVE  /\ pNCPrivate' \in AllConns \cup {None} /\ pNCPublic' \in AllConns \cup {None}
           /\ lost' \subseteq AllConns
           /\ Found
<1>1. /\ \A c, d \in AllConns : shared[c] = shared[d] /\ shared[c] # "no" => c = d
      /\ \A c \in AllConns : shared[c] \in {"no", "private", "public"}
  BY DEF IInv, Sharing, SharingTypes
<1>2. None \notin AllConns
  BY WohnAssumption DEF AllConns
<1>3. SharedConns \subseteq AllConns /\ \A c \in AllConns : c \in SharedConns <=> shared[c] # "no"
  BY DEF SharedConns
<1>4. PICK seen \in SUBSET SharedConns : \E type \in [seen -> {"private", "public"}] :
        /\ pNCPrivate' \in LastOf({c \in seen : type[c] = "private"})
        /\ pNCPublic' \in LastOf({c \in seen : type[c] = "public"})
        /\ LET right == {c \in seen : type[c] = shared[c]}
           IN lost' = SharedConns \ (IF right = seen THEN seen
                                     ELSE right \cap {pNCPrivate', pNCPublic'})
  BY DEF cor_ics_initialize
<1>5. PICK type \in [seen -> {"private", "public"}] :
        /\ pNCPrivate' \in LastOf({c \in seen : type[c] = "private"})
        /\ pNCPublic' \in LastOf({c \in seen : type[c] = "public"})
        /\ LET right == {c \in seen : type[c] = shared[c]}
           IN lost' = SharedConns \ (IF right = seen THEN seen
                                     ELSE right \cap {pNCPrivate', pNCPublic'})
  BY <1>4
<1>. DEFINE right == {c \in seen : type[c] = shared[c]}
<1>6. lost' = SharedConns \ (IF right = seen THEN seen ELSE right \cap {pNCPrivate', pNCPublic'})
  BY <1>5
<1>7. /\ pNCPrivate' # None => pNCPrivate' \in seen /\ type[pNCPrivate'] = "private"
      /\ pNCPublic' # None => pNCPublic' \in seen /\ type[pNCPublic'] = "public"
  BY <1>5 DEF LastOf
<1>8. /\ \A c \in seen : type[c] = "private" => pNCPrivate' # None
      /\ \A c \in seen : type[c] = "public" => pNCPublic' # None
  BY <1>2, <1>3, <1>5 DEF LastOf
<1>9. /\ \A c \in right : c \in seen /\ type[c] = shared[c]
      /\ \A c \in seen : type[c] = shared[c] => c \in right
      /\ \A c \in seen : type[c] \in {"private", "public"}
  OBVIOUS
<1>. HIDE DEF right
<1>10. SharedConns = ({pNCPrivate', pNCPublic'} \ {None}) \cup lost'
  <2>1. \A c \in {pNCPrivate', pNCPublic'} \ {None} : c \in SharedConns
    BY <1>7
  <2>2. ASSUME NEW c \in SharedConns, c \notin lost'
        PROVE  c \in {pNCPrivate', pNCPublic'} \ {None}
    <3>1. c # None
      BY <1>2, <1>3
    <3>2. CASE right = seen
      <4>1. c \in seen /\ type[c] = shared[c]
        BY <1>6, <1>9, <2>2, <3>2
      <4>2. CASE type[c] = "private"
        <5>1. /\ pNCPrivate' \in AllConns /\ shared[pNCPrivate'] = "private"
              /\ shared[c] = "private" /\ c \in AllConns
          BY <1>3, <1>7, <1>8, <1>9, <3>2, <4>1, <4>2
        <5>. QED BY <1>1, <3>1, <5>1
      <4>3. CASE type[c] = "public"
        <5>1. /\ pNCPublic' \in AllConns /\ shared[pNCPublic'] = "public"
              /\ shared[c] = "public" /\ c \in AllConns
          BY <1>3, <1>7, <1>8, <1>9, <3>2, <4>1, <4>3
        <5>. QED BY <1>1, <3>1, <5>1
      <4>. QED BY <1>9, <4>1, <4>2, <4>3
    <3>3. CASE right # seen
      BY <1>6, <2>2, <3>1, <3>3
    <3>. QED BY <3>2, <3>3
  <2>3. lost' \subseteq SharedConns
    BY <1>6
  <2>. QED BY <2>1, <2>2, <2>3
<1>11. /\ \A c \in SharedConns : c \notin lost' => c \in right
  BY <1>6
<1>12. /\ pNCPrivate' \notin lost' \cup {None} => shared[pNCPrivate'] = "private"
       /\ pNCPublic' \notin lost' \cup {None} => shared[pNCPublic'] = "public"
  BY <1>7, <1>9, <1>11
<1>13. pNCPrivate' \in AllConns \cup {None} /\ pNCPublic' \in AllConns \cup {None}
  BY <1>3, <1>7
<1>14. lost' \subseteq AllConns
  BY <1>3, <1>6
<1>. QED BY <1>10, <1>12, <1>13, <1>14 DEF Found

\* What cor_initialize leaves, whatever it answers.
LEMMA CoreStarted ==
    ASSUME IInv, ui = "start", NEW r \in 0..4, cor_initialize(r)
    PROVE  /\ UNCHANGED <<cbs, hn, notes, nt, ssid, missed, shared>>
           /\ held' \subseteq Held /\ conn' \in 0..32
           /\ pNCPrivate' \in AllConns \cup {None} /\ pNCPublic' \in AllConns \cup {None}
           /\ lost' \subseteq AllConns
           /\ r # 0 => gInitialized' = FALSE
           /\ r = 0 => /\ gInitialized' = TRUE /\ conn' = ssid /\ "wlan" \in held'
                       /\ Found
<1>1. UNCHANGED <<cbs, hn, notes, nt, ssid, missed, shared>>
  BY DEF cor_initialize
<1>2. /\ gInitialized = FALSE /\ ssid \in 0..32 /\ conn \in 0..32 /\ held \subseteq Held
      /\ pNCPrivate \in AllConns \cup {None} /\ pNCPublic \in AllConns \cup {None}
      /\ lost \subseteq AllConns
  BY DEF IInv, Phases, Types, SharingTypes
<1>3. ASSUME NEW before \in BOOLEAN, cor_ics_initialize(before)
      PROVE  /\ pNCPrivate' \in AllConns \cup {None} /\ pNCPublic' \in AllConns \cup {None}
             /\ lost' \subseteq AllConns /\ Found
  BY <1>3, InitializeFinds
<1>4. PICK before \in BOOLEAN, admin \in BOOLEAN, allowed \in BOOLEAN :
       \/ /\ ~admin \/ ~allowed
          /\ r = IF admin THEN 2 ELSE 1
          /\ UNCHANGED <<gInitialized, gCoInitialized, held, conn, pNCPrivate, pNCPublic, lost>>
       \/ /\ admin /\ allowed /\ r = 3
          /\ held' \in cor_ics_failures
          /\ gCoInitialized' = (before /\ "com" \in held')
          /\ UNCHANGED <<gInitialized, conn, pNCPrivate, pNCPublic, lost>>
       \/ /\ admin /\ allowed /\ r = 4
          /\ cor_ics_initialize(before)
          /\ \E w \in cor_wlan_failures : held' = w \cup {"com", "nsm"}
          /\ UNCHANGED <<gInitialized, conn>>
       \/ /\ admin /\ allowed /\ r = 0
          /\ cor_ics_initialize(before)
          /\ held' = WlanHeld \cup {"com", "nsm"} /\ conn' = ssid
          /\ gInitialized' = TRUE
  BY DEF cor_initialize, cor_is_administrator, cor_is_ics_allowed
<1>5. CASE /\ r = IF admin THEN 2 ELSE 1
           /\ UNCHANGED <<gInitialized, gCoInitialized, held, conn, pNCPrivate, pNCPublic, lost>>
  <2>1. r # 0
    BY <1>5
  <2>. QED BY <1>1, <1>2, <1>5, <2>1
<1>6. CASE /\ r = 3 /\ held' \in cor_ics_failures
           /\ UNCHANGED <<gInitialized, conn, pNCPrivate, pNCPublic, lost>>
  <2>1. held' \subseteq Held
    BY <1>6 DEF cor_ics_failures, Held
  <2>. QED BY <1>1, <1>2, <1>6, <2>1
<1>7. CASE /\ r = 4 /\ cor_ics_initialize(before)
           /\ \E w \in cor_wlan_failures : held' = w \cup {"com", "nsm"}
           /\ UNCHANGED <<gInitialized, conn>>
  <2>1. held' \subseteq Held
    BY <1>7, HeldItems DEF Held
  <2>. QED BY <1>1, <1>2, <1>3, <1>7, <2>1
<1>8. CASE /\ r = 0 /\ cor_ics_initialize(before)
           /\ held' = WlanHeld \cup {"com", "nsm"} /\ conn' = ssid /\ gInitialized' = TRUE
  <2>1. held' \subseteq Held /\ "wlan" \in held'
    BY <1>8, HeldItems DEF Held
  <2>. QED BY <1>1, <1>2, <1>3, <1>8, <2>1
<1>. QED BY <1>4, <1>5, <1>6, <1>7, <1>8

\* The dialog is set up.
LEMMA InitDialogInv == IInv /\ ui_on_initdialog => IInv'
<1>. SUFFICES ASSUME IInv, ui_on_initdialog PROVE IInv'
  OBVIOUS
<1>1. ui = "start" /\ UNCHANGED view
  BY DEF ui_on_initdialog
<1>2. PICK r \in 0..4, k \in ServiceKeys :
       /\ cor_initialize(r)
       /\ IF r = 0
          THEN /\ sWlanSSID' = cor_wlan_get_ssid(conn')
               /\ sWlanPasswd' = IF cor_wlan_get_key(k) = -1 THEN sWlanPasswd
                                 ELSE cor_wlan_get_key(k)
               /\ gNCShared' = cor_ics_is_enabled(pNCPrivate', pNCPublic')
               /\ ui' = "query"
          ELSE ui' = "failbox" /\ UNCHANGED <<sWlanSSID, sWlanPasswd, gNCShared>>
  BY DEF ui_on_initdialog
<1>3. /\ UNCHANGED <<cbs, hn, notes, nt, ssid, missed, shared>>
      /\ held' \subseteq Held /\ conn' \in 0..32
      /\ pNCPrivate' \in AllConns \cup {None} /\ pNCPublic' \in AllConns \cup {None}
      /\ lost' \subseteq AllConns
      /\ r # 0 => gInitialized' = FALSE
      /\ r = 0 => /\ gInitialized' = TRUE /\ conn' = ssid /\ "wlan" \in held'
                  /\ Found
  BY <1>1, <1>2, CoreStarted
<1>4. ui' \in {"query", "failbox"} /\ gInitialized' = (ui' = "query") /\ gInitialized' \in BOOLEAN
  BY <1>2, <1>3
<1>5. sWlanSSID' \in 0..MAX_SSID_LEN /\ sWlanPasswd' \in 0..MAX_KEY_LEN
  <2>1. sWlanSSID \in 0..MAX_SSID_LEN /\ sWlanPasswd \in 0..MAX_KEY_LEN
    BY DEF IInv, Types
  <2>2. cor_wlan_get_ssid(conn') \in 0..MAX_SSID_LEN
    BY <1>3 DEF cor_wlan_get_ssid, MAX_SSID_LEN
  <2>3. cor_wlan_get_key(k) # -1 => cor_wlan_get_key(k) \in 0..MAX_KEY_LEN
    BY DEF cor_wlan_get_key, MAX_KEY_LEN
  <2>. QED BY <1>2, <2>1, <2>2, <2>3
<1>6. Agreement'
  BY <1>1, <1>3, <1>4, AgreementKept DEF Shown
<1>7. Types'
  BY <1>1, <1>3, <1>4, <1>5 DEF IInv, Types, UiStates
<1>8. Phases'
  BY <1>1, <1>3, <1>4 DEF IInv, Phases, Running
<1>9. SharingTypes'
  <2>1. gNCShared' \in BOOLEAN
    BY <1>2 DEF cor_ics_is_enabled, IInv, SharingTypes
  <2>. QED BY <1>3, <2>1 DEF IInv, SharingTypes
<1>10. Sharing'
  <2>1. CASE r = 0
    <3>1. /\ SharedConns' = SharedConns /\ Pointed' = {pNCPrivate', pNCPublic'} \ {None}
          /\ Found
      BY <1>3, <2>1 DEF SharedConns, Pointed
    <3>2. gNCShared' = cor_ics_is_enabled(pNCPrivate', pNCPublic')
      BY <1>2, <2>1
    <3>. QED BY <1>3, <1>4, <3>1, <3>2 DEF Sharing, Found
  <2>2. CASE r # 0
    BY <1>3, <1>4, <2>2 DEF Sharing
  <2>. QED BY <2>1, <2>2
<1>11. ConnCopyCurrent'
  BY <1>3, <1>4 DEF ConnCopyCurrent
<1>. QED BY <1>6, <1>7, <1>8, <1>9, <1>10, <1>11 DEF IInv, Agreement

\* The callbacks registered so far are counted by the next one's place.
LEMMA RegisteredCount ==
    ASSUME NEW k \in 0..4
    PROVE  /\ Cardinality(Registered(k)) = k
           /\ Registered(k) \cup {Registrations[k + 1]} = Registered(k + 1)
           /\ Registered(5) = Callbacks /\ Registrations[k + 1] \in Callbacks
<1>1. /\ Registrations[1] = "available" /\ Registrations[2] = "unavailable" /\ Registrations[3] = "started"
      /\ Registrations[4] = "stoped" /\ Registrations[5] = "join"
  BY DEF Registrations
<1>2. 1..0 = {} /\ 1..1 = {1} /\ 1..2 = {1, 2} /\ 1..3 = {1, 2, 3} /\ 1..4 = {1, 2, 3, 4}
      /\ 1..5 = {1, 2, 3, 4, 5}
  OBVIOUS
<1>3. /\ Registered(0) = {} /\ Registered(1) = {"available"}
      /\ Registered(2) = {"available", "unavailable"}
      /\ Registered(3) = {"available", "unavailable", "started"}
      /\ Registered(4) = {"available", "unavailable", "started", "stoped"}
      /\ Registered(5) = {"available", "unavailable", "started", "stoped", "join"}
  BY <1>1, <1>2 DEF Registered
<1>4. IsFiniteSet(Registered(0)) /\ Cardinality(Registered(0)) = 0
  BY <1>3, FS_EmptySet
<1>5. IsFiniteSet(Registered(1)) /\ Cardinality(Registered(1)) = 1
  <2>1. Registered(1) = Registered(0) \cup {"available"} /\ "available" \notin Registered(0)
    BY <1>3
  <2>. QED BY <1>4, <2>1, FS_AddElement
<1>6. IsFiniteSet(Registered(2)) /\ Cardinality(Registered(2)) = 2
  <2>1. Registered(2) = Registered(1) \cup {"unavailable"} /\ "unavailable" \notin Registered(1)
    BY <1>3
  <2>. QED BY <1>5, <2>1, FS_AddElement
<1>7. IsFiniteSet(Registered(3)) /\ Cardinality(Registered(3)) = 3
  <2>1. Registered(3) = Registered(2) \cup {"started"} /\ "started" \notin Registered(2)
    BY <1>3
  <2>. QED BY <1>6, <2>1, FS_AddElement
<1>8. IsFiniteSet(Registered(4)) /\ Cardinality(Registered(4)) = 4
  <2>1. Registered(4) = Registered(3) \cup {"stoped"} /\ "stoped" \notin Registered(3)
    BY <1>3
  <2>. QED BY <1>7, <2>1, FS_AddElement
<1>9. k \in {0, 1, 2, 3, 4}
  OBVIOUS
<1>10. Cardinality(Registered(k)) = k
  BY <1>4, <1>5, <1>6, <1>7, <1>8, <1>9
<1>11. Registered(k) \cup {Registrations[k + 1]} = Registered(k + 1) /\ Registrations[k + 1] \in Callbacks
  <2>1. CASE k = 0
    BY <1>1, <1>3, <2>1 DEF Callbacks
  <2>2. CASE k = 1
    BY <1>1, <1>3, <2>2 DEF Callbacks
  <2>3. CASE k = 2
    BY <1>1, <1>3, <2>3 DEF Callbacks
  <2>4. CASE k = 3
    BY <1>1, <1>3, <2>4 DEF Callbacks
  <2>5. CASE k = 4
    BY <1>1, <1>3, <2>5 DEF Callbacks
  <2>. QED BY <1>9, <2>1, <2>2, <2>3, <2>4, <2>5
<1>12. Registered(5) = Callbacks
  BY <1>3 DEF Callbacks
<1>. QED BY <1>10, <1>11, <1>12

\* The callbacks are registered one by one.
LEMMA RegisterInv == IInv /\ cor_register_notify => IInv'
<1>. SUFFICES ASSUME IInv, cor_register_notify PROVE IInv'
  OBVIOUS
<1>1. /\ UNCHANGED <<gInitialized, held, hn, notes, nt, ssid, conn, missed, view>>
      /\ UNCHANGED <<shared, pNCPrivate, pNCPublic, lost, gNCShared>>
      /\ UNCHANGED <<sWlanSSID, sWlanPasswd>> /\ ui = "register"
      /\ cbs' = cbs \cup {Registrations[Cardinality(cbs) + 1]}
      /\ ui' = IF cbs' = Callbacks THEN "idle" ELSE ui
  BY DEF cor_register_notify, icsVars
<1>2. PICK k \in 0..4 : cbs = Registered(k)
  BY <1>1 DEF IInv, Phases
<1>3. cbs' = Registered(k + 1) /\ cbs' \subseteq Callbacks
  BY <1>1, <1>2, RegisteredCount DEF IInv, Types
<1>4. ui' \in {"register", "idle"}
  BY <1>1
<1>5. ui' = "register" => \E j \in 0..4 : cbs' = Registered(j)
  <2>. SUFFICES ASSUME ui' = "register" PROVE \E j \in 0..4 : cbs' = Registered(j)
    OBVIOUS
  <2>1. k # 4
    BY <1>1, <1>3, RegisteredCount
  <2>2. k + 1 \in 0..4
    BY <2>1
  <2>. QED BY <1>3, <2>2
<1>6. gInitialized
  BY <1>1 DEF IInv, Phases
<1>7. Agreement'
  BY <1>1, <1>4, AgreementKept DEF Shown
<1>8. SharingTypes' /\ Sharing'
  BY <1>1, <1>4, <1>6, SharingKept
<1>9. Types'
  BY <1>1, <1>3, <1>4 DEF IInv, Types, UiStates
<1>10. Phases'
  BY <1>1, <1>4, <1>5 DEF IInv, Phases, Running
<1>11. ConnCopyCurrent'
  BY <1>1 DEF IInv, ConnCopyCurrent
<1>. QED BY <1>7, <1>8, <1>9, <1>10, <1>11 DEF IInv, Agreement

\* A message box is closed.
LEMMA MsgboxInv == IInv /\ ui_msgbox => IInv'
<1>. SUFFICES ASSUME IInv, ui_msgbox PROVE IInv'
  OBVIOUS
<1>1. /\ ui \in {"box", "initbox", "failbox"}
      /\ ui' = CASE ui = "box" -> "idle" [] ui = "initbox" -> "register" [] ui = "failbox" -> "failed"
      /\ UNCHANGED <<view, sWlanSSID, sWlanPasswd, gNCShared>>
  BY DEF ui_msgbox
<1>2. UNCHANGED coreVars
  BY <1>1 DEF ui_msgbox, cor_deinitialize, IInv, Phases
<1>3. /\ UNCHANGED <<gInitialized, cbs, held, hn, notes, nt, ssid, conn, missed>>
      /\ UNCHANGED <<shared, pNCPrivate, pNCPublic, lost>>
  BY <1>2 DEF coreVars, wlanVars, icsVars
<1>4. \/ ui = "box" /\ ui' = "idle"
      \/ ui = "initbox" /\ ui' = "register"
      \/ ui = "failbox" /\ ui' = "failed"
  BY <1>1
<1>5. Agreement'
  BY <1>1, <1>3, <1>4, AgreementKept DEF Shown
<1>6. SharingTypes' /\ Sharing'
  BY <1>1, <1>3, <1>4, SharingKept DEF IInv, Phases
<1>7. Types'
  BY <1>1, <1>3, <1>4 DEF IInv, Types, UiStates
<1>8. Phases'
  BY <1>1, <1>3, <1>4 DEF IInv, Phases, Running
<1>9. ConnCopyCurrent'
  BY <1>3 DEF IInv, ConnCopyCurrent
<1>. QED BY <1>5, <1>6, <1>7, <1>8, <1>9 DEF IInv, Agreement

\* The dialog closes: the callbacks are forgotten and the sharing's pointers released.
LEMMA CloseInv == IInv /\ ui_on_close => IInv'
<1>. SUFFICES ASSUME IInv, ui_on_close PROVE IInv'
  OBVIOUS
<1>1. ui = "idle" /\ ui' = "closing" /\ UNCHANGED <<view, sWlanSSID, sWlanPasswd, gNCShared>>
  BY DEF ui_on_close
<1>2. gInitialized /\ "wlan" \in held /\ held \subseteq Held
  BY <1>1 DEF IInv, Phases, Types
<1>3. /\ cbs' = {}
      /\ held' = (held \ {"nsm", "enabled", "status", "conn", "sec"})
                    \ (IF gCoInitialized THEN {"com"} ELSE {})
      /\ pNCPrivate' = None /\ pNCPublic' = None
      /\ UNCHANGED <<gInitialized, hn, notes, nt, ssid, conn, missed, shared, lost>>
  BY <1>2 DEF ui_on_close, cor_deinitialize
<1>4. held' \subseteq {"com", "wlan", "cs"} /\ "wlan" \in held' /\ held' \subseteq Held
  BY <1>2, <1>3, HeldItems DEF Held
<1>5. Agreement'
  BY <1>1, <1>3, AgreementKept DEF Shown
<1>6. SharingTypes'
  BY <1>1, <1>3 DEF IInv, SharingTypes
<1>7. Sharing'
  BY <1>1 DEF Sharing
<1>8. Types'
  BY <1>1, <1>3, <1>4 DEF IInv, Types, UiStates
<1>9. Phases'
  BY <1>1, <1>2, <1>3, <1>4 DEF IInv, Phases, Running
<1>10. ConnCopyCurrent'
  BY <1>3 DEF IInv, ConnCopyCurrent
<1>. QED BY <1>5, <1>6, <1>7, <1>8, <1>9, <1>10 DEF IInv, Agreement

\* The end of closing: no callback is under way.
LEMMA FinishCloseInv == IInv /\ FinishClose => IInv'
<1>. SUFFICES ASSUME IInv, FinishClose PROVE IInv'
  OBVIOUS
<1>1. /\ ui = "closing" /\ ui' = "closed" /\ UNCHANGED <<view, sWlanSSID, sWlanPasswd, gNCShared>>
      /\ held' = held \ {"wlan", "cs"} /\ gInitialized' = FALSE /\ nt.todo = <<>>
      /\ UNCHANGED <<cbs, hn, notes, nt, ssid, conn, missed>>
      /\ UNCHANGED <<shared, pNCPrivate, pNCPublic, lost>>
  BY DEF FinishClose, cor_wlan_close, NtFree, icsVars
<1>2. nt.at = 0
  BY <1>1 DEF IInv, Types
<1>3. Agreement'
  BY <1>1, AgreementKept DEF Shown
<1>4. SharingTypes' /\ Sharing'
  BY <1>1, SharingKept
<1>5. Types'
  BY <1>1 DEF IInv, Types, UiStates
<1>6. Phases'
  BY <1>1, <1>2 DEF IInv, Phases, Running
<1>7. ConnCopyCurrent'
  BY <1>1 DEF ConnCopyCurrent
<1>. QED BY <1>3, <1>4, <1>5, <1>6, <1>7 DEF IInv, Agreement

-----------------------------------------------------------------------------
(* Every step *)

\* A step that changes nothing.
LEMMA StutterInv == IInv /\ UNCHANGED vars => IInv'
<1>. SUFFICES ASSUME IInv, UNCHANGED vars PROVE IInv'
  OBVIOUS
<1>1. /\ UNCHANGED <<gInitialized, cbs, held, hn, notes, nt, ssid, conn, missed>>
      /\ UNCHANGED <<shared, pNCPrivate, pNCPublic, lost>>
      /\ UNCHANGED <<ui, view, sWlanSSID, sWlanPasswd, gNCShared>>
  BY DEF vars, coreVars, wlanVars, icsVars, uiVars
<1>2. Agreement'
  BY <1>1, AgreementKept DEF Shown
<1>3. SharingTypes' /\ Sharing'
  BY <1>1, SharingKept
<1>4. Types' /\ Phases' /\ ConnCopyCurrent'
  BY <1>1 DEF IInv, Types, Phases, ConnCopyCurrent, Running
<1>. QED BY <1>2, <1>3, <1>4 DEF IInv, Agreement

\* The invariant is inductive.
LEMMA NextInv == IInv /\ [Next]_vars => IInv'
<1>. SUFFICES ASSUME IInv, [Next]_vars PROVE IInv'
  OBVIOUS
<1>1. CASE Running /\ ServiceChange /\ UNCHANGED uiVars
  BY <1>1, ServiceChangeInv
<1>2. CASE Notified
  BY <1>2, NotificationInv, TestCallbackInv DEF Notified
<1>3. CASE CallbackStep
  BY <1>3, CallbackStepInv
<1>4. CASE CallbackCrash
  BY <1>4, CallbackCrashInv
<1>5. CASE Handled
  BY <1>5, InitQueryInv, RegisterInv, FinishStartInv, FinishStopInv, FinishCloseInv DEF Handled
<1>6. CASE User
  BY <1>6, InitDialogInv, MsgboxInv, ClickStartInv, ClickStopInv, IcsClickInv, LogClickInv, CloseInv
     DEF User
<1>7. CASE UNCHANGED vars
  BY <1>7, StutterInv
<1>. QED BY <1>1, <1>2, <1>3, <1>4, <1>5, <1>6, <1>7 DEF Next

\* The invariant holds of every reachable state.
LEMMA Invariant == Spec => []IInv
BY InitInv, NextInv, PTL DEF Spec

-----------------------------------------------------------------------------
(* What the dialog promises *)

\* The core's and the dialog's variables have their types: the hosted network is in one of
\* its states, the notification thread in one statement of a callback at most, the lengths of
\* the texts the dialog remembers fit their buffers (gNotifyCallBack, pHNConnSettings, sWlanSSID
\* and sWlanPasswd), for any number of changes and of clicks.
THEOREM WohnTypeCorrect == Spec => []WohnTypeOK
BY Invariant, InvTypeOK, PTL

\* However the callbacks and the handlers of ui_on_btn_hn_click are interleaved with the
\* service's changes, the dialog agrees with the hosted network whenever nothing is on its way
\* and nothing was missed.
THEOREM DialogAgrees == Spec => []UiAgrees
BY Invariant, InvUiAgrees, PTL

\* cor_wlan_set_ssid leaves pHNConnSettings as the service has it, refused or not, and what the
\* program sets is what it reads back.
THEOREM SettingsAreKept == Spec => []SettingsKept
BY Invariant, InvSettingsKept, PTL

\* The pointers of cor_ics_initialize, cor_ics_enable and cor_ics_disable account for every shared
\* connection but those a failing call, or the test of NC_SUPPORT at initialisation, made the core
\* lose, whatever was shared before and whichever calls fail; and a closed dialog has given back
\* what it held.
THEOREM SharingIsReleased == Spec => []SharingReleased
BY Invariant, InvSharingReleased, PTL

=============================================================================
