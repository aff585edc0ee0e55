----------------------------- MODULE DeviceTabs -----------------------------
(***************************************************************************)
(* The tabs of TabsFragmentActivity: how device arrivals and departures,   *)
(* the user and the Android lifecycle change the tab host, the map from    *)
(* tags to tabs, the fragments, and the static list of tab specs that all  *)
(* instances of the activity share.                                        *)
(*                                                                         *)
(* Every handler runs alone on the main thread (module UiHandshake is      *)
(* about how it gets there), so each is one action.  The part of a handler *)
(* that works on one activity's tabs is an operator on a record T, written *)
(* call by call.  A FragmentTransaction committed while the activity is    *)
(* stopped or destroyed throws, which ends the process.                    *)
(***************************************************************************)
EXTENDS Naturals, Sequences, FiniteSets, SequencesExt

CONSTANTS
  Activities,    \* instances of TabsFragmentActivity, over all sessions
  Devices,
  Base,          \* stands for the device of the tab "BaseTab"
  Tag,           \* Tag[d]: the tag createTabTagFromPhidget makes for d
  Unsupported,   \* devices of a class PhidgetHardwareFactory does not know
  NoSpec,        \* null, in place of a TabSpec or the TabInfo that holds it
  NoFragment,    \* null, in place of a fragment
  Restored,      \* a device fragment that never got its bundle
  Background,    \* whether the user can leave the app for another
  Recreation,    \* whether Android can destroy and restore an activity
  MaxPlugs       \* bound on how often a device is plugged in

Owners == Devices \cup {Base}

ASSUME TabsAssumption ==
  /\ Base \notin Devices
  /\ Unsupported \subseteq Devices
  /\ DOMAIN Tag = Owners
  /\ \A d \in Devices : Tag[d] # Tag[Base]
  /\ {Background, Recreation} \subseteq BOOLEAN
  /\ MaxPlugs \in Nat
  /\ {NoFragment, Restored} \cap Owners = {} /\ NoFragment # Restored
  /\ NoSpec \notin [act : Activities, nr : Nat, dev : Owners]

VARIABLES
  life,       \* life[a]: where activity a is in its lifecycle
  tabs,       \* tabs[a]: what activity a holds, see Tabs
  specList,   \* the static m_TabSpeclist
  managed,    \* activities whose m_DeviceManager is open
  known,      \* known[a]: the devices a's manager has announced, in order
  plugged,    \* the devices plugged into the server
  plugs,      \* how often one was plugged in
  crash       \* why the process ended, or "none"

vars == <<life, tabs, specList, managed, known, plugged, plugs, crash>>

Tags == {Tag[o] : o \in Owners}

(* A TabSpec is an object: act and nr tell apart those with equal tags.  It *)
(* also stands for the TabInfo that is created with it.                     *)
Specs == [act : Activities, nr : Nat, dev : Owners]
TagOf(s) == Tag[s.dev]

Tabs == [host    : Seq(Specs),                     \* mTabHost's tabs
         cur     : Nat,                            \* the current one, or 0
         info    : [Tags -> Specs \cup {NoSpec}],  \* mapTabInfo
         last    : Specs \cup {NoSpec},            \* mLastTab
         frag    : [Tags -> Owners \cup {NoFragment, Restored}],
         shown   : SUBSET Tags,                    \* fragments not detached
         commits : BOOLEAN]    \* the handler committed a transaction

TypeOK ==
  /\ life \in [Activities -> {"new", "front", "stopped", "gone"}]
  /\ tabs \in [Activities -> Tabs]
  /\ \A a \in Activities : tabs[a].cur <= Len(tabs[a].host)
  /\ specList \in Seq(Specs)
  /\ managed \subseteq Activities
  /\ known \in [Activities -> Seq(Devices)]
  /\ plugged \subseteq Devices
  /\ plugs \in 0..MaxPlugs
  /\ crash \in {"none", "saved", "destroyed", "unmapped", "hardware"}

NoTabs ==
  [host |-> <<>>, cur |-> 0, info |-> [t \in Tags |-> NoSpec], last |-> NoSpec,
   frag |-> [t \in Tags |-> NoFragment], shown |-> {}, commits |-> FALSE]

Init ==
  /\ life = [a \in Activities |-> "new"]
  /\ tabs = [a \in Activities |-> NoTabs]
  /\ specList = <<>>
  /\ managed = {}
  /\ known = [a \in Activities |-> <<>>]
  /\ plugged = {}
  /\ plugs = 0
  /\ crash = "none"

-----------------------------------------------------------------------------
(* Mutant: onTabChanged leaves the fragment of the last tab attached.      *)
OnTabChangedKeepsLast(T, tag) ==
  LET new  == T.info[tag]
      made == IF new # NoSpec /\ T.frag[tag] = NoFragment
              THEN [T.frag EXCEPT ![tag] = new.dev] ELSE T.frag
  IN  IF T.last = new THEN T
      ELSE [T EXCEPT !.last = new, !.frag = made, !.shown = @ \cup {tag},
                     !.commits = TRUE]

(* Mutant: onTabChanged commits even when the tab stays the same.          *)
OnTabChangedAlways(T, tag) ==
  LET new  == T.info[tag]
      made == IF new # NoSpec /\ T.frag[tag] = NoFragment
              THEN [T.frag EXCEPT ![tag] = new.dev] ELSE T.frag
  IN  [T EXCEPT !.last = new, !.frag = made, !.shown = {tag}, !.commits = TRUE]

(* onTabChanged: swap the fragment of the last tab for that of the new one, *)
(* which is created the first time.  The map may have no tab for the tag.   *)
OnTabChanged(T, tag) ==
  LET new  == T.info[tag]
      out  == IF T.last = NoSpec THEN {} ELSE {TagOf(T.last)}
      in   == IF new = NoSpec THEN {} ELSE {tag}
      made == IF new # NoSpec /\ T.frag[tag] = NoFragment
              THEN [T.frag EXCEPT ![tag] = new.dev] ELSE T.frag
  IN  IF T.last = new THEN T
      ELSE [T EXCEPT !.last = new, !.frag = made,
                     !.shown = (@ \ out) \cup in, !.commits = TRUE]

(* android.widget.TabHost, which calls onTabChanged when the tab changes.  *)
SetCurrentTab(T, i) ==
  IF i \notin 1..Len(T.host) \/ i = T.cur THEN T
  ELSE OnTabChanged([T EXCEPT !.cur = i], TagOf(T.host[i]))

HostAddTab(T, s) ==
  LET added == [T EXCEPT !.host = Append(@, s)]
  IN  IF T.cur = 0 THEN SetCurrentTab(added, 1) ELSE added

(* Mutant: the current index survives the tabs it pointed to.              *)
ClearAllTabsKeepsCurrent(T) == [T EXCEPT !.host = <<>>]

ClearAllTabs(T) == [T EXCEPT !.host = <<>>, !.cur = 0]

(* Mutant: addTab forgets to put the tab into mapTabInfo.                  *)
AddTabUnmapped(T, s) ==
  LET added == HostAddTab([T EXCEPT !.commits = FALSE], s)
  IN  IF s.dev = Base THEN [added EXCEPT !.info[TagOf(s)] = s] ELSE added

(* addTab: a fragment with the tab's tag that is already shown is attached *)
(* again, which changes nothing but is a transaction.                      *)
AddTab(T, s) ==
  LET again == T.frag[TagOf(s)] # NoFragment /\ TagOf(s) \in T.shown
  IN  [HostAddTab([T EXCEPT !.commits = again], s)
         EXCEPT !.info[TagOf(s)] = s]

(* removeAllTabs                                                           *)
RemoveAllTabs(T) == ClearAllTabs(SetCurrentTab(T, 1))

(* Mutant: removeTab adds the tabs back without clearing the host.         *)
RemoveTabUncleared(T, s, remaining) ==
  LET forgotten == [T EXCEPT !.info[TagOf(s)] = NoSpec, !.commits = FALSE]
      AddBack(U, r) == LET added == HostAddTab(U, r)
                       IN  SetCurrentTab(added, Len(added.host))
  IN  FoldLeft(AddBack, SetCurrentTab(forgotten, 1), remaining)

(* removeTab: forget the tab, clear the host, then add every tab on the    *)
(* static list back and make each the current one in turn.                 *)
RemoveTab(T, s, remaining) ==
  LET forgotten == [T EXCEPT !.info[TagOf(s)] = NoSpec, !.commits = FALSE]
      AddBack(U, r) == LET added == HostAddTab(U, r)
                       IN  SetCurrentTab(added, Len(added.host))
  IN  FoldLeft(AddBack, RemoveAllTabs(forgotten), remaining)

-----------------------------------------------------------------------------
Running == crash = "none"

(* The effect of a transaction on a process in each stage of the lifecycle.*)
Committed(a, T) ==
  IF ~T.commits THEN "none"
  ELSE CASE life[a] = "stopped" -> "saved"
         [] life[a] = "gone"    -> "destroyed"
         [] OTHER               -> "none"

Change(a, T) ==
  /\ tabs' = [tabs EXCEPT ![a] = [T EXCEPT !.commits = FALSE]]
  /\ crash' = Committed(a, T)

(* Specs of one instance are numbered in the order it creates them.        *)
NewSpec(a, d) == [act |-> a, nr |-> plugs, dev |-> d]

(* Mutant: a PhidgetException before addTab loses the tab.                 *)
AttachFails(a, d) ==
  /\ Running /\ a \in managed
  /\ d \in plugged /\ ~Contains(known[a], d)
  /\ known' = [known EXCEPT ![a] = Append(@, d)]
  /\ UNCHANGED <<life, tabs, specList, managed, plugged, plugs, crash>>

(* AttachEventHandler.run, for a device the manager of a has not announced.*)
Attach(a, d) ==
  /\ Running /\ a \in managed
  /\ d \in plugged /\ ~Contains(known[a], d)
  /\ known' = [known EXCEPT ![a] = Append(@, d)]
  /\ specList' = Append(specList, NewSpec(a, d))
  /\ \E T \in {AddTab(tabs[a], NewSpec(a, d))} : Change(a, T)
  /\ UNCHANGED <<life, managed, plugged, plugs>>

(* Mutant: removeTab leaves the tab on the static list.                    *)
DetachKeepsSpec(a, d) ==
  /\ Running /\ a \in managed
  /\ d \notin plugged /\ Contains(known[a], d)
  /\ known' = [known EXCEPT ![a] = RemoveFirst(@, d)]
  /\ Change(a, RemoveTab(tabs[a], tabs[a].info[Tag[d]], specList))
  /\ UNCHANGED <<life, specList, managed, plugged, plugs>>

(* DetachEventHandler.run: tabInfo.tabSpec throws if the map has no tab.   *)
Detach(a, d) ==
  /\ Running /\ a \in managed
  /\ d \notin plugged /\ Contains(known[a], d)
  /\ known' = [known EXCEPT ![a] = RemoveFirst(@, d)]
  /\ \E s \in {tabs[a].info[Tag[d]]} :
       IF s = NoSpec
       THEN crash' = "unmapped" /\ UNCHANGED <<tabs, specList>>
       ELSE \E remaining \in {RemoveFirst(specList, s)} :
              \E T \in {RemoveTab(tabs[a], s, remaining)} :
                specList' = remaining /\ Change(a, T)
  /\ UNCHANGED <<life, managed, plugged, plugs>>

(* The user selects a tab.                                                 *)
Select(a) ==
  /\ Running /\ life[a] = "front"
  /\ \E i \in 1..Len(tabs[a].host) :
       Change(a, SetCurrentTab(tabs[a], i))
  /\ UNCHANGED <<life, specList, managed, known, plugged, plugs>>

-----------------------------------------------------------------------------
(* The lifecycle.                                                          *)

Visible(a) == life[a] \in {"front", "stopped"}

(* initialiseTabHost: the host is empty and its listener not yet set, so the *)
(* base tab is made current by a call of onTabChanged.                      *)
Initialise(a, T) == OnTabChanged(AddTab(T, NewSpec(a, Base)), Tag[Base])

(* onCreate without a saved state: ServerChooser's button, or going back to *)
(* the second instance that button has started.                             *)
Open(a) ==
  /\ Running /\ life[a] = "new" /\ \A b \in Activities : ~Visible(b)
  /\ life' = [life EXCEPT ![a] = "front"]
  /\ specList' = Append(specList, NewSpec(a, Base))
  /\ managed' = managed \cup {a}
  /\ Change(a, Initialise(a, NoTabs))
  /\ UNCHANGED <<known, plugged, plugs>>

(* onDestroy of the fragments: PhidgetHardwareFactory.close() needs the    *)
(* hardware object that open() made only for a class it knows.             *)
Heedless(a) ==
  \E t \in Tags : tabs[a].frag[t] \in Unsupported \cup {Restored}

(* finish(): the manager is left open.                                     *)
Destroyed(T) == [T EXCEPT !.frag = NoTabs.frag, !.shown = {}]

Back(a) ==
  /\ Running /\ life[a] = "front"
  /\ life' = [life EXCEPT ![a] = "gone"]
  /\ tabs' = [tabs EXCEPT ![a] = Destroyed(@)]
  /\ crash' = IF Heedless(a) THEN "hardware" ELSE "none"
  /\ UNCHANGED <<specList, managed, known, plugged, plugs>>

(* ServerDisconnectEvent.run, which calls disconnect().                    *)
ServerDisconnect(a) ==
  /\ Running /\ a \in managed
  /\ LET T == RemoveAllTabs(tabs[a])
     IN  /\ tabs' = [tabs EXCEPT ![a] = Destroyed([T EXCEPT !.commits = FALSE])]
         /\ crash' = IF Committed(a, T) = "none" /\ Visible(a) /\ Heedless(a)
                     THEN "hardware" ELSE Committed(a, T)
  /\ managed' = managed \ {a}
  /\ known' = [known EXCEPT ![a] = <<>>]
  /\ life' = [life EXCEPT ![a] = "gone"]
  /\ UNCHANGED <<specList, plugged, plugs>>

Stop(a) ==
  /\ Running /\ Background /\ life[a] = "front"
  /\ life' = [life EXCEPT ![a] = "stopped"]
  /\ UNCHANGED <<tabs, specList, managed, known, plugged, plugs, crash>>

Start(a) ==
  /\ Running /\ life[a] = "stopped"
  /\ life' = [life EXCEPT ![a] = "front"]
  /\ UNCHANGED <<tabs, specList, managed, known, plugged, plugs, crash>>

(* What the fragment manager restores: each fragment under its tag and     *)
(* shown as it was, device fragments without the bundle of setBundle().    *)
Saved(T) ==
  [NoTabs EXCEPT
    !.shown = T.shown,
    !.frag  = [t \in Tags |-> IF T.frag[t] = NoFragment THEN NoFragment
                              ELSE IF t = Tag[Base] THEN Base ELSE Restored]]

(* onCreate of b with the saved state of a.  The saved current tab is set   *)
(* by its tag, but the host holds the base tab alone.  If the process was   *)
(* killed the statics and the managers are new.                             *)
Recreate(a, b, killed) ==
  /\ Running /\ Recreation /\ life[a] = "stopped" /\ life[b] = "new"
  /\ life' = [c \in Activities |->
                IF c = b THEN "front" ELSE IF c = a THEN "gone" ELSE life[c]]
  /\ specList' = Append(IF killed THEN <<>> ELSE specList, NewSpec(b, Base))
  /\ managed' = (IF killed THEN {} ELSE managed) \cup {b}
  /\ tabs' = [tabs EXCEPT
       ![a] = Destroyed(@),
       ![b] = [Initialise(b, Saved(tabs[a])) EXCEPT !.commits = FALSE]]
  /\ crash' = IF ~killed /\ Heedless(a) THEN "hardware" ELSE "none"
  /\ UNCHANGED <<known, plugged, plugs>>

-----------------------------------------------------------------------------
(* The devices.                                                            *)

Plug(d) ==
  /\ Running /\ d \notin plugged /\ plugs < MaxPlugs
  /\ plugged' = plugged \cup {d} /\ plugs' = plugs + 1
  /\ UNCHANGED <<life, tabs, specList, managed, known, crash>>

Unplug(d) ==
  /\ Running /\ d \in plugged
  /\ plugged' = plugged \ {d}
  /\ UNCHANGED <<life, tabs, specList, managed, known, plugs, crash>>

-----------------------------------------------------------------------------
Act(a) ==
  \/ \E d \in Devices : Attach(a, d) \/ Detach(a, d)
  \/ Select(a) \/ Open(a) \/ Back(a) \/ ServerDisconnect(a)
  \/ Stop(a) \/ Start(a)
  \/ \E b \in Activities, killed \in BOOLEAN : Recreate(a, b, killed)

Next == \/ \E a \in Activities : Act(a)
        \/ \E d \in Devices : Plug(d) \/ Unplug(d)

(* The library keeps announcing what is plugged and unplugged, and each    *)
(* announcement is handled (CallbackReturns of UiHandshake).  This is      *)
(* WF_vars(Attach(a, d) \/ Detach(a, d)), an action that is enabled just   *)
(* while Pending(a, d) holds and makes it false.                           *)
Pending(a, d) ==
  /\ Running /\ a \in managed
  /\ (d \in plugged) # Contains(known[a], d)

Spec ==
  /\ Init /\ [][Next]_vars
  /\ \A a \in Activities, d \in Devices : []<>~Pending(a, d)

-----------------------------------------------------------------------------
(* Properties.                                                             *)

DistinctTags == \A c, d \in Devices : Tag[c] = Tag[d] => c = d

DevicesOf(specs) == [i \in 1..Len(specs) |-> specs[i].dev]
Own(a, specs) ==
  FoldLeft(LAMBDA own, s : IF s.act = a THEN Append(own, s) ELSE own, <<>>, specs)
OwnTabs(a) == Own(a, tabs[a].host)
CurrentTag(a) == TagOf(tabs[a].host[tabs[a].cur])

(* However devices came and went, and whatever other instances left on the *)
(* static list, an activity on the back stack has one tab of its own for   *)
(* the main view and for each device its manager has announced, in order.  *)
TabPerDevice ==
  DistinctTags /\ crash = "none" =>
    \A a \in Activities :
      Visible(a) => DevicesOf(OwnTabs(a)) = <<Base>> \o known[a]

(* One fragment is shown, that of the current tab.  Rebuilding the host    *)
(* after a removal cycles through every tab and must end in step.          *)
ShownIsCurrent ==
  crash = "none" =>
    \A a \in Activities :
      Visible(a) => tabs[a].shown = {CurrentTag(a)}

(* With distinct tags and known device classes the process ends only when  *)
(* an event reaches an activity that is stopped, or one that has finished  *)
(* and left its manager open.                                              *)
CrashesUnseen ==
  [][crash' # "none" =>
       \E a \in managed : life[a] \in {"stopped", "gone"}]_vars

(* A device that leaves while the app is in the background ends the        *)
(* process, unless the main tab is selected and no device tab remains.     *)
DeparturesInBackground ==
  [][\A a \in managed' :
       life[a] = "stopped" /\ Len(known'[a]) < Len(known[a]) =>
         (crash' = "none" <=>
            /\ CurrentTag(a) = Tag[Base]
            /\ \A i \in 1..Len(specList') : specList'[i].dev = Base)]_vars

(* A device plugged in while an activity is open gets its tab.             *)
TabAppears ==
  \A a \in Activities, d \in Devices :
    DistinctTags /\ Visible(a) /\ a \in managed /\ d \in plugged
      ~> \/ \E s \in ToSet(tabs[a].host) : s.act = a /\ s.dev = d
         \/ d \notin plugged \/ ~Visible(a) \/ crash # "none"

(* One activity implements the directory of tabs its user expects.         *)
DirectoryOpen == crash = "none" /\ \E a \in Activities : Visible(a)
Visited == tabs[CHOOSE a \in Activities : Visible(a)]

Directory == INSTANCE TabDirectory WITH
  tabs     <- IF DirectoryOpen THEN DevicesOf(Visited.host) ELSE <<>>,
  selected <- IF DirectoryOpen THEN Visited.host[Visited.cur].dev ELSE Base,
  open     <- DirectoryOpen

DirectorySpec == Directory!Spec
=============================================================================
