------------------------------ MODULE AndroidApp ------------------------------
(***************************************************************************)
(* The app: the activities (WebViewActivity.kt, DevicePickerActivity.kt),  *)
(* the service they start and stop (ServiceLife) and the pages they show   *)
(* (Dashboard).                                                            *)
(*                                                                         *)
(* Activities are destroyed some time after they have been left, possibly  *)
(* when the next one has already been created.  A start of the service     *)
(* and a page are named for their activity.                                *)
(***************************************************************************)
EXTENDS ServiceLife, Dashboard

ASSUME AppAssumption == FilePages \subseteq Pages /\ Pages \ FilePages = Starts

VARIABLES
  saved,     \* a device address has been saved
  granted,   \* the permission for Bluetooth has been granted
  picker,    \* the device picker
  activity,  \* for each WebViewActivity with an address: none, shown, left
             \* or gone
  delays,    \* its delayed calls of loadTapiti
  view       \* what its WebView is at: blank, loading, error or page

avars == <<saved, granted, picker, activity, delays, view>>
vars == <<avars, svars, pvars>>

Alive(a) == activity[a] \in {"shown", "left"}

-----------------------------------------------------------------------------
(* onCreate: Bluetooth may be off or the device no longer bonded, the page *)
(* is loaded all the same.                                                 *)
Create(a) ==
  /\ activity' = [activity EXCEPT ![a] = "shown"]
  /\ delays' = [delays EXCEPT ![a] = 1]
  /\ view' = [view EXCEPT ![a] = "blank"]
  /\ StartService(a) \/ UNCHANGED svars
  /\ UNCHANGED pvars

(* The activities are created in their order.                              *)
IsNext(a) == activity[a] = "none" /\ \A b \in 1 .. a - 1 : activity[b] # "none"

(* onCreate and showDeviceList of the picker, which may find no device.    *)
PickerOpens ==
  picker' \in IF granted THEN {"listing", "closed"} ELSE {"asking"}

(* Without an address the activity opens the picker and finishes; its      *)
(* onDestroy throws, webView being uninitialised, and the app is killed:   *)
(* the system brings the picker back, or not.                              *)
FirstLaunch ==
  /\ ~ saved /\ picker = "closed"
  /\ PickerOpens \/ picker' = "closed"
  /\ UNCHANGED <<saved, granted, activity, delays, view, svars, pvars>>

Launch(a) ==
  /\ IsNext(a) /\ saved /\ picker = "closed"
  /\ \A b \in Starts : activity[b] # "shown"
  /\ Create(a)
  /\ UNCHANGED <<saved, granted, picker>>

(* onRequestPermissionsResult                                              *)
Answers(grants) ==
  /\ picker = "asking"
  /\ granted' = grants
  /\ picker' \in IF grants THEN {"listing", "closed"} ELSE {"closed"}
  /\ UNCHANGED <<saved, activity, delays, view, svars, pvars>>

(* saveAndLaunch                                                           *)
Picks(a) ==
  /\ IsNext(a) /\ picker = "listing"
  /\ saved' = TRUE
  /\ picker' = "closed"
  /\ Create(a)
  /\ UNCHANGED granted

Quits ==
  /\ picker = "listing"
  /\ picker' = "closed"
  /\ UNCHANGED <<saved, granted, activity, delays, view, svars, pvars>>

(* The activity is left, or replaced because the configuration changed.    *)
Leaves(a) ==
  /\ activity[a] = "shown"
  /\ activity' = [activity EXCEPT ![a] = "left"]
  /\ UNCHANGED <<saved, granted, picker, delays, view, svars, pvars>>

(* Wrong: the WebView is not destroyed.                                    *)
DestroyedInPart(a) ==
  /\ activity[a] = "left"
  /\ activity' = [activity EXCEPT ![a] = "gone"]
  /\ delays' = [delays EXCEPT ![a] = 0]
  /\ view' = [view EXCEPT ![a] = "blank"]
  /\ StopService
  /\ Loses({}, Serving /\ ~ Serving')
  /\ UNCHANGED <<saved, granted, picker>>

(* onDestroy: the service is stopped, whoever has started it.  The scope   *)
(* of the activity is not cancelled, but loadTapiti does nothing to a      *)
(* WebView that has been destroyed.                                        *)
Destroyed(a) ==
  /\ activity[a] = "left"
  /\ activity' = [activity EXCEPT ![a] = "gone"]
  /\ delays' = [delays EXCEPT ![a] = 0]
  /\ view' = [view EXCEPT ![a] = "blank"]
  /\ StopService
  /\ Loses({a}, Serving /\ ~ Serving')
  /\ UNCHANGED <<saved, granted, picker>>

(* loadWithDelay and the retry: loadTapiti.                                *)
Loads(a) ==
  /\ delays[a] > 0
  /\ delays' = [delays EXCEPT ![a] = @ - 1]
  /\ view' = [view EXCEPT ![a] = "loading"]
  /\ UNCHANGED <<saved, granted, picker, activity, svars, pvars>>

LoadEnds(a) ==
  /\ view[a] = "loading" /\ Serving
  /\ view' = [view EXCEPT ![a] = "page"]
  /\ Opens(a)
  /\ UNCHANGED <<saved, granted, picker, activity, delays, svars>>

(* Wrong: the load is retried at once, and once more after the delay.      *)
OnReceivedErrorTwice(a) ==
  /\ view[a] = "loading" /\ ~ Serving /\ delays[a] = 0
  /\ view' = [view EXCEPT ![a] = "loading"]
  /\ delays' = [delays EXCEPT ![a] = @ + 1]
  /\ UNCHANGED <<saved, granted, picker, activity, svars, pvars>>

(* Wrong: the load is tried once.                                          *)
OnReceivedErrorOnce(a) ==
  /\ view[a] = "loading" /\ ~ Serving
  /\ view' = [view EXCEPT ![a] = "error"]
  /\ UNCHANGED <<saved, granted, picker, activity, delays, svars, pvars>>

OnReceivedError(a) ==
  /\ view[a] = "loading" /\ ~ Serving
  /\ view' = [view EXCEPT ![a] = "error"]
  /\ delays' = [delays EXCEPT ![a] = @ + 1]
  /\ UNCHANGED <<saved, granted, picker, activity, svars, pvars>>

-----------------------------------------------------------------------------
(* The service and what it started; what served may go.                    *)
ServiceStep(c) ==
  /\ Connect(c) \/ Beside(c)
  /\ Loses({}, Serving /\ ~ Serving')
  /\ UNCHANGED avars

PageStep(p) ==
  /\ Pursues(p, Serving)
  /\ UNCHANGED <<avars, svars>>

(* A developer opens the page from a file, while a process serves (bound). *)
FileOpens(p) == Serving /\ Opens(p) /\ UNCHANGED <<avars, svars>>

FileCloses(p) ==
  /\ p \in running
  /\ Loses({p}, FALSE)
  /\ UNCHANGED <<avars, svars>>

(* The system kills the app; what has been saved is kept.                  *)
AppDies ==
  /\ \E a \in Starts : Alive(a)
  /\ activity' = [a \in Starts |-> IF Alive(a) THEN "gone" ELSE activity[a]]
  /\ delays' = [a \in Starts |-> 0]
  /\ view' = [a \in Starts |-> "blank"]
  /\ ServiceDies
  /\ Loses(Starts, TRUE)
  /\ UNCHANGED <<saved, granted, picker>>

-----------------------------------------------------------------------------
Init ==
  /\ ServiceInit /\ DashboardInit
  /\ saved = FALSE /\ granted = FALSE /\ picker = "closed"
  /\ activity = [a \in Starts |-> "none"]
  /\ delays = [a \in Starts |-> 0]
  /\ view = [a \in Starts |-> "blank"]

User ==
  \/ FirstLaunch
  \/ \E a \in Starts : Launch(a) \/ Picks(a) \/ Leaves(a)
  \/ \E grants \in BOOLEAN : Answers(grants)
  \/ Quits
  \/ \E p \in FilePages : FileOpens(p) \/ FileCloses(p)

WebView(a) == Loads(a) \/ LoadEnds(a) \/ OnReceivedError(a)

Next ==
  \/ User \/ AppDies
  \/ \E a \in Starts : Destroyed(a) \/ WebView(a) \/ ServiceStep(a)
  \/ \E p \in Pages : PageStep(p)

(* The main thread of the app and the browsers go on; nothing is assumed   *)
(* of the user, of Bluetooth, or of the system.                            *)
Spec ==
  /\ Init /\ [][Next]_vars
  /\ \A a \in Starts : WF_vars(WebView(a))
  /\ \A p \in Pages : WF_vars(PageStep(p))

-----------------------------------------------------------------------------
TypeOK ==
  /\ ServiceTypeOK /\ DashboardTypeOK
  /\ saved \in BOOLEAN /\ granted \in BOOLEAN
  /\ picker \in {"closed", "asking", "listing"}
  /\ activity \in [Starts -> {"none", "shown", "left", "gone"}]
  /\ delays \in [Starts -> 0 .. 1]
  /\ view \in [Starts -> {"blank", "loading", "error", "page"}]
  /\ \A a \in Starts : view[a] = "page" <=> a \in running

(* An activity has one way to its page: a delayed load, a load, or the     *)
(* page.                                                                   *)
OneLoad ==
  \A a \in Starts :
     Alive(a) => delays[a] + (IF view[a] \in {"loading", "page"} THEN 1 ELSE 0) = 1

(* Once a process serves for good, an activity that stays shows the page,  *)
(* however many loads have failed before.                                  *)
PageLoads ==
  \A a \in Starts :
     <>[](Serving /\ activity[a] = "shown") => <>(view[a] = "page")

(* Once a process serves for good, a page that stays and whose origin is   *)
(* allowed comes to a connection and keeps it.                             *)
PageReconnects ==
  \A p \in FilePages :
     <>[](Serving /\ p \in running) => <>[] Connected(p)

(* The same of the pages the process has served.                           *)
ServedPageConnects ==
  \A p \in Starts :
     <>[](Serving /\ p \in running) => <> Connected(p)
=============================================================================
