----------------------------- MODULE SettingsForm -----------------------------
(***************************************************************************)
(* The console's settings page in one tab: a form over the cached query of *)
(* the settings, saved one changed key after the other, while other        *)
(* clients and snapshot imports change the table.                          *)
(***************************************************************************)
EXTENDS Settings

CONSTANTS
  Typed,     \* what is typed in the field of each key
  Sent,      \* what other clients send for each key
  Imported,  \* the settings of the snapshots that are imported
  NoData     \* the query has no data

ASSUME FormAssumption ==
  /\ Typed \in [Key -> SUBSET (Nat \cup {Blank} \cup ApiKey)]
  /\ Sent \in [Key -> SUBSET (Nat \cup {Blank} \cup ApiKey)]

VARIABLES
  cache,     \* settingsData, or NoData
  form,      \* formValues
  queue,     \* the values that a save or a reset has yet to send
  fetching,  \* GET /settings is awaited
  failed,    \* it failed last: the page shows the error only
  touched    \* history: keys typed in since the form was filled

formVars == <<cache, form, queue, fetching, failed, touched>>

(* A save goes through the settings as the query has them, a reset through *)
(* DEFAULTS.                                                               *)
DefaultsOrder == <<"log_max_size", "python_pool_size", "execution_timeout_ms",
                   "instance_retention_hours">>

Queue(order, ks, values) == [order |-> order, value |-> Restrict(values, ks)]
Nothing == Queue(KeyOrder, {}, Default)

FormInit ==
  /\ cache = NoData
  /\ form = [k \in Key |-> Blank]
  /\ queue = Nothing
  /\ fetching = TRUE /\ failed = FALSE
  /\ touched = {}

-----------------------------------------------------------------------------
(* GET /settings never gives the API key, only whether there is one.       *)
Answer ==
  [ value |-> [setting EXCEPT !["api_key"] = Blank],
    configured |-> setting["api_key"] # Blank ]

(* Math.round of the seconds, in milliseconds.                             *)
Rounded(ms) == ((ms + 500) \div 1000) * 1000

Shown(k, v) == IF k = "execution_timeout_ms" THEN Rounded(v) ELSE v

(* Seconds are multiplied, so an empty field of them is sent as 0.         *)
ToSend(k, v) == IF k = "execution_timeout_ms" THEN Number(v) ELSE v

ChangedRaw(values, data) ==  \* mutant: compared as stored
  {k \in Key : values[k] # data.value[k]}

Changed(values, data) == {k \in Key : values[k] # Shown(k, data.value[k])}

-----------------------------------------------------------------------------
(* Data that equals the data before is the same object, and the effect     *)
(* that fills the form does not run.                                       *)
FetchAnswers ==
  /\ fetching
  /\ fetching' = FALSE /\ failed' = FALSE
  /\ cache' = Answer
  /\ IF cache = Answer THEN UNCHANGED <<form, touched>>
     ELSE /\ form' = [k \in Key |-> Shown(k, Answer.value[k])]
          /\ touched' = {}
  /\ UNCHANGED <<settingsVars, queue>>

FetchFails ==
  /\ fetching
  /\ fetching' = FALSE /\ failed' = TRUE
  /\ UNCHANGED <<settingsVars, cache, form, queue, touched>>

(* The connection comes back.                                              *)
Refetch ==
  /\ ~fetching
  /\ fetching' = TRUE
  /\ UNCHANGED <<settingsVars, cache, form, queue, failed, touched>>

Reload ==
  /\ cache' = NoData /\ form' = [k \in Key |-> Blank] /\ queue' = Nothing
  /\ fetching' = TRUE /\ failed' = FALSE /\ touched' = {}
  /\ UNCHANGED settingsVars

Visible == cache # NoData /\ ~failed

(* The fields stay open while a save goes on.                              *)
TypeIn(k, v) ==
  /\ Visible
  /\ form' = [form EXCEPT ![k] = v]
  /\ touched' = touched \cup {k}
  /\ UNCHANGED <<settingsVars, cache, queue, fetching, failed>>

Left == DOMAIN queue.value
Idle == Left = {}

(* handleSave: the values are those of the form now, whatever becomes of   *)
(* it while they are sent.                                                 *)
SaveChanges ==
  /\ Visible /\ Idle
  /\ Changed(form, cache) # {}
  /\ queue' = Queue(KeyOrder, Changed(form, cache), [k \in Key |-> ToSend(k, form[k])])
  /\ UNCHANGED <<settingsVars, cache, form, fetching, failed, touched>>

(* handleResetToDefaults, which spares the API key.                        *)
ResetToDefaults ==
  /\ Visible /\ Idle
  /\ queue' = Queue(DefaultsOrder, Key \ {"api_key"}, Default)
  /\ UNCHANGED <<settingsVars, cache, form, fetching, failed, touched>>

NextKey == queue.order[Min({n \in DOMAIN queue.order : queue.order[n] \in Left})]

(* One PUT: a success goes on with the next and has the query fetched      *)
(* again; a refusal, or an answer that is lost, leaves the rest unsent.    *)
SendNext ==
  /\ ~Idle
  /\ \/ /\ Put(NextKey, queue.value[NextKey])
        /\ queue' = IF Left = {NextKey} THEN Nothing
                    ELSE Queue(queue.order, Left \ {NextKey}, queue.value)
        /\ fetching' = TRUE
     \/ /\ Put(NextKey, queue.value[NextKey]) \/ UNCHANGED settingsVars
        /\ queue' = Nothing
        /\ UNCHANGED fetching
  /\ UNCHANGED <<cache, form, failed, touched>>

OtherClient ==
  /\ \/ \E k \in Key : \E v \in Sent[k] : Put(k, v)
     \/ \E values \in Imported : ImportSettings(values)
  /\ UNCHANGED formVars

-----------------------------------------------------------------------------
FormNext ==
  \/ FetchAnswers \/ FetchFails \/ Refetch \/ Reload
  \/ \E k \in Key : \E v \in Typed[k] : TypeIn(k, v)
  \/ SaveChanges \/ ResetToDefaults \/ SendNext
  \/ OtherClient

-----------------------------------------------------------------------------
(* A save sends only what was typed into the form that the user sees: not  *)
(* what the form shows otherwise than it is stored (rounded seconds, the   *)
(* API key), nor what others have changed since.                           *)
SavesOnlyTyped ==
  [][SaveChanges => \A k \in Left' :
       k \in touched /\ queue'.value[k] = ToSend(k, form[k])]_formVars
=============================================================================
