------------------------------- MODULE Settings -------------------------------
(***************************************************************************)
(* The settings of the container, on the server: the table, what a value   *)
(* must be, and what follows a change at once: the size of the Python pool *)
(* and of the execution log.  Values are numbers, times in milliseconds,   *)
(* and Blank, the empty string.                                            *)
(***************************************************************************)
EXTENDS Integers, Sequences, SequencesExt, FiniteSets

CONSTANTS
  Key,        \* settings, among those of KeyOrder
  Blank,
  ApiKey,     \* the keys that are not blank
  Default     \* default_value of each

(* getAll orders by key.                                                   *)
KeyOrder == <<"api_key", "execution_timeout_ms", "instance_retention_hours",
              "log_max_size", "python_pool_size">>

(* Number of JavaScript.                                                   *)
Number(v) == IF v = Blank THEN 0 ELSE v

Valid(k, v) ==
  \/ k = "api_key"
  \/ k \in {"python_pool_size", "log_max_size", "instance_retention_hours"} /\ Number(v) >= 1
  \/ k = "execution_timeout_ms" /\ (Number(v) = 0 \/ Number(v) >= 1000)

ASSUME SettingsAssumption ==
  /\ Key \subseteq {KeyOrder[n] : n \in DOMAIN KeyOrder}
  /\ {"log_max_size", "python_pool_size", "api_key"} \subseteq Key
  /\ Blank \notin Int /\ ApiKey \cap Int = {}
  /\ Default \in [Key -> Nat \cup {Blank}]
  /\ \A k \in Key : Valid(k, Default[k])

VARIABLES
  setting,   \* the table
  poolSize,  \* the size the pool was last told
  log        \* the entries of the execution log: id and final status

settingsVars == <<setting, poolSize, log>>

SettingsInit ==
  /\ setting = Default
  /\ poolSize = Default["python_pool_size"]
  /\ log = {}

-----------------------------------------------------------------------------
(* The log repository.  Ids are given in ascending order and not again.    *)

(* The n entries with the greatest ids.                                    *)
Trimmed(entries, n) ==
  {e \in entries : Cardinality({f \in entries : f.id > e.id}) < n}

Insert(entries, e) == Trimmed(entries \cup {e}, setting["log_max_size"])

-----------------------------------------------------------------------------
(* PUT /settings/:key of a value that is valid.                            *)
Put(k, v) ==
  /\ Valid(k, v)
  /\ setting' = [setting EXCEPT ![k] = v]
  /\ poolSize' = IF k = "python_pool_size" THEN Number(v) ELSE poolSize
  /\ log' = IF k = "log_max_size" THEN Trimmed(log, Number(v)) ELSE log

(* A snapshot import sets the valid values of its file; the pool and the   *)
(* log are not told.                                                       *)
ImportSettings(values) ==
  /\ setting' = [k \in Key |-> IF k \in DOMAIN values /\ Valid(k, values[k])
                               THEN values[k] ELSE setting[k]]
  /\ UNCHANGED <<poolSize, log>>
=============================================================================
