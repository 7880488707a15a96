------------------------------ MODULE SecretBroker ------------------------------
(***************************************************************************)
(* The secret broker (fabric-secrets, routes/secrets.rs, and its callers). *)
(* A value is sealed under the master key of a file that the first request *)
(* creates; a claim opens the envelopes a task names and hands their       *)
(* values to a runner, whose output is redacted with whatever envelopes    *)
(* the table then holds.  Secrets are rotated and deleted in between.      *)
(*                                                                         *)
(* A value is a number, never given twice; what it is made of, and where   *)
(* in a text it stands, is left out.  Sealing an envelope takes its name   *)
(* into account: an envelope opens under its own key and name only.        *)
(***************************************************************************)
EXTENDS Integers, FiniteSets

CONSTANTS
  SecretName,
  Asker,       \* bound: requests at once
  MaxValue,     \* bound: values ever given
  MaxKey        \* bound: keys ever made

VARIABLES
  keyFile,      \* the key file: its key (0: there is none), and is it all written
  keys,         \* how many keys were made
  secrets,      \* the table: value (0: no row), version and key of the envelope
  values,       \* how many values were given
  held,         \* values that runners got with their tasks
  stored,       \* values that stand in stored output
  retired,      \* history: values rotated away or deleted
  lostKeys,     \* history: keys replaced, or removed with their file
  asker        \* the requests

brokerVars == <<keyFile, keys, secrets, values, held, stored, retired, lostKeys, asker>>
tableVars == <<secrets, retired>>
fileVars == <<keyFile, keys, lostKeys>>

NoFile == [key |-> 0, whole |-> FALSE]
NoSecret == [value |-> 0, version |-> 0, key |-> 0]
NewCall(at, kind, name, value) ==
  [at |-> at, kind |-> kind, name |-> name, value |-> value, existed |-> FALSE,
   envelopes |-> [n \in SecretName |-> NoSecret], key |-> 0]
NoCall == NewCall("off", "put", {}, 0)

\* A row of before the envelopes holds its value as it is: key 0 opens nothing.
BrokerInit ==
  /\ keyFile = NoFile /\ keys = 0
  /\ \E legacy \in {0, 1} :
       secrets \in {[s \in SecretName |-> IF s \in old THEN [NoSecret EXCEPT !.value = 1, !.version = 1]
                                          ELSE NoSecret] :
                      old \in {o \in SUBSET SecretName : Cardinality(o) = legacy}}
  /\ values = 1 /\ held = {} /\ stored = {} /\ retired = {} /\ lostKeys = {}
  /\ asker = [c \in Asker |-> NoCall]

-----------------------------------------------------------------------------
CallAt(c, at) == asker[c].at = at
Pass(c, at) == asker' = [asker EXCEPT ![c].at = at]
Hangup(c) == asker' = [asker EXCEPT ![c] = NoCall]
Present(n) == secrets[n].value # 0

Call(c, record) ==
  /\ CallAt(c, "off")
  /\ asker' = [asker EXCEPT ![c] = record]

\* POST /secrets
AskPut(c, n) ==
  /\ values < MaxValue /\ values' = values + 1
  /\ Call(c, NewCall("list", "put", {n}, values + 1))
  /\ UNCHANGED <<fileVars, tableVars, held, stored>>

\* A claim of a task that needs the secret.
AskClaim(c, n) ==
  /\ Call(c, NewCall("fetch", "claim", {n}, 0))
  /\ UNCHANGED <<fileVars, tableVars, values, held, stored>>

\* A line, a note, a result or an audit event with the value in it.
AskPublish(c, v) ==
  /\ v \in held
  /\ Call(c, NewCall("fetch", "publish", {}, v))
  /\ UNCHANGED <<fileVars, tableVars, values, held, stored>>

List(c) ==
  /\ CallAt(c, "list")
  /\ \/ \E n \in asker[c].name :
          asker' = [asker EXCEPT ![c].at = "load", ![c].existed = Present(n)]
     \/ Hangup(c)
  /\ UNCHANGED <<fileVars, tableVars, values, held, stored>>

\* secret_envelopes and all_secret_envelopes: a name that is missing refuses the
\* claim, and so does a value that was never sealed, before any key is loaded.
Sealed(e) == e.value # 0 => e.key # 0
Needed(c) == IF asker[c].kind = "claim" THEN asker[c].name ELSE SecretName

Fetch(c) ==
  /\ CallAt(c, "fetch")
  /\ \/ /\ asker[c].kind = "claim" => \A n \in asker[c].name : Present(n)
        /\ \A n \in Needed(c) : Sealed(secrets[n])
        /\ asker' = [asker EXCEPT ![c].envelopes = secrets, ![c].at =
             IF \E n \in Needed(c) : Present(n) THEN "load" ELSE "use"]
     \/ Hangup(c)
  /\ UNCHANGED <<fileVars, tableVars, values, held, stored>>

-----------------------------------------------------------------------------
(* FileKeyProvider.load_key                                                *)

Load(c) ==
  /\ CallAt(c, "load")
  /\ Pass(c, IF keyFile = NoFile THEN "create" ELSE "read")
  /\ UNCHANGED <<fileVars, tableVars, values, held, stored>>

\* create_new: of two that found no file, one gets an error.
CreateKey(c) ==
  /\ CallAt(c, "create")
  /\ IF keyFile = NoFile
     THEN /\ keys < MaxKey /\ keys' = keys + 1
          /\ keyFile' = [key |-> keys + 1, whole |-> FALSE] /\ Pass(c, "write")
     ELSE Hangup(c) /\ UNCHANGED <<keyFile, keys>>
  /\ UNCHANGED <<lostKeys, tableVars, values, held, stored>>

\* The write may stop short.  On Windows a file whose access list cannot be set
\* is removed again, whoever has read it.
Write(c) ==
  /\ CallAt(c, "write")
  /\ \/ keyFile' = [keyFile EXCEPT !.whole = TRUE] /\ Pass(c, "read") /\ UNCHANGED lostKeys
     \/ keyFile' \in {keyFile, [keyFile EXCEPT !.whole = TRUE]} /\ Hangup(c) /\ UNCHANGED lostKeys
     \/ keyFile.whole = FALSE /\ keyFile' = [keyFile EXCEPT !.whole = TRUE] /\ Pass(c, "acl") /\ UNCHANGED lostKeys
  /\ UNCHANGED <<keys, tableVars, values, held, stored>>

RemoveKey(c) ==
  /\ CallAt(c, "acl") /\ Hangup(c)
  /\ keyFile' = NoFile /\ lostKeys' = lostKeys \cup {keyFile.key}
  /\ UNCHANGED <<keys, tableVars, values, held, stored>>

\* validate_key: exactly 32 bytes.
ValidKey_Any(file) == TRUE
ValidKey(file) == file.whole

Read(c) ==
  /\ CallAt(c, "read")
  /\ IF keyFile # NoFile /\ ValidKey(keyFile)
     THEN asker' = [asker EXCEPT ![c].at = "use",
                       ![c].key = IF keyFile.whole THEN keyFile.key ELSE -keyFile.key]
     ELSE Hangup(c)
  /\ UNCHANGED <<fileVars, tableVars, values, held, stored>>

\* An operator provisions another key.
ReplaceKey ==
  /\ keyFile # NoFile /\ keys < MaxKey
  /\ \A c \in Asker : ~CallAt(c, "write") /\ ~CallAt(c, "acl")
  /\ keys' = keys + 1 /\ keyFile' = [key |-> keys + 1, whole |-> TRUE]
  /\ lostKeys' = lostKeys \cup {keyFile.key}
  /\ UNCHANGED <<tableVars, values, held, stored, asker>>

-----------------------------------------------------------------------------
\* rotate_secret when the list had the name, else put_secret, which takes over a
\* row that has come since; the statement may fail with its effect.
StoreRow(c, n) ==
  LET me == asker[c] IN
  /\ me.existed => Present(n)
  /\ secrets' = [secrets EXCEPT ![n] =
       [value |-> me.value, key |-> me.key,
        version |-> IF me.existed THEN @.version + 1 ELSE IF Present(n) THEN @.version ELSE 1]]
  /\ retired' = retired \cup ({secrets[n].value} \ {0})

Put(c) ==
  /\ CallAt(c, "use") /\ asker[c].kind = "put" /\ Hangup(c)
  /\ \/ \E n \in asker[c].name : StoreRow(c, n)
     \/ UNCHANGED tableVars
  /\ UNCHANGED <<fileVars, values, held, stored>>

\* Opened before the claim's compare-and-swap, which another may win.
Claim(c) ==
  /\ CallAt(c, "use") /\ asker[c].kind = "claim" /\ Hangup(c)
  /\ \/ \E n \in asker[c].name :
          LET e == asker[c].envelopes[n] IN e.key = asker[c].key /\ held' = held \cup {e.value}
     \/ UNCHANGED held
  /\ UNCHANGED <<fileVars, tableVars, values, stored>>

Opened(c) == {n \in SecretName : asker[c].envelopes[n].value # 0 /\ asker[c].envelopes[n].key = asker[c].key}
AllOpen_Some(c) == TRUE
AllOpen(c) == Opened(c) = {n \in SecretName : asker[c].envelopes[n].value # 0}

\* redact_text and redact_value: an envelope that does not open fails it all.
Publish(c) ==
  /\ CallAt(c, "use") /\ asker[c].kind = "publish" /\ Hangup(c)
  /\ \/ AllOpen(c) /\ stored' = stored \cup ({asker[c].value} \ {asker[c].envelopes[n].value : n \in Opened(c)})
     \/ UNCHANGED stored
  /\ UNCHANGED <<fileVars, tableVars, values, held>>

\* DELETE /secrets/{name}: no key is needed for that.
Delete(n) ==
  /\ Present(n)
  /\ secrets' = [secrets EXCEPT ![n] = NoSecret]
  /\ retired' = retired \cup {secrets[n].value}
  /\ UNCHANGED <<fileVars, values, held, stored, asker>>

\* The hub stops: a key file half-written stays so.
BrokerStops ==
  /\ asker' = [c \in Asker |-> NoCall]
  /\ UNCHANGED <<fileVars, tableVars, values, held, stored>>

BrokerNext ==
  \/ \E c \in Asker : \/ \E n \in SecretName : AskPut(c, n) \/ AskClaim(c, n)
                      \/ \E v \in held : AskPublish(c, v)
                      \/ List(c) \/ Fetch(c) \/ Load(c) \/ CreateKey(c) \/ Write(c) \/ RemoveKey(c)
                      \/ Read(c) \/ Put(c) \/ Claim(c) \/ Publish(c)
  \/ \E n \in SecretName : Delete(n)
  \/ ReplaceKey \/ BrokerStops

BrokerSpec == BrokerInit /\ [][BrokerNext]_brokerVars

-----------------------------------------------------------------------------
\* Stored output shows no value that the table still had: redaction with all the
\* envelopes of one read, failing closed, lets only values through that were
\* rotated away or deleted.
OnlyRetiredShown == stored \subseteq retired

\* Whoever created the key file, raced or stopped half-way: what was sealed opens
\* under the file's key, unless that key was replaced or its file removed.
SealedOpens ==
  \A n \in SecretName : secrets[n].key # 0 =>
    \/ keyFile = [key |-> secrets[n].key, whole |-> TRUE]
    \/ secrets[n].key \in lostKeys

\* README: "redaction keeps the value out of stored output and audit records".
ValueKeptOut == stored = {}
=============================================================================
