----------------------------- MODULE BackupForms ----------------------------
(***************************************************************************)
(* The forms of a backup destination and of the backup schedule: what they  *)
(* are filled with, what is sent (features/backups/backupHelpers.ts) and    *)
(* what the server makes of it (backups/models.py, backups/schedule.py).    *)
(* A text is blank or not, its wording is left out; of a prefix and a time  *)
(* the conversion is kept. The secret is written only: the server tells     *)
(* whether it has one. Fields that no rule mentions are left out.           *)
(***************************************************************************)
EXTENDS Integers

Kinds == {"local", "s3"}
Texts == {"", "x"}
PrefixTexts == {"", "x", "/x"}
Unsent == "absent"             \* a field left out of the request

\* a destination as the server has it: fields of the other kind are blank
StoredDestinations ==
    {d \in [kind : Kinds, path : Texts, bucket : Texts, prefix : {"", "x"},
            access_key_id : Texts, secret : {"", "old"}] :
        IF d.kind = "local"
        THEN d.path # "" /\ d.bucket = "" /\ d.prefix = "" /\ d.access_key_id = "" /\ d.secret = ""
        ELSE d.bucket # "" /\ d.path = "" /\ (d.access_key_id = "" <=> d.secret = "")}

-----------------------------------------------------------------------------
(* A destination *)

destinationToForm(d) ==
    [kind |-> d.kind, path |-> d.path, bucket |-> d.bucket, prefix |-> d.prefix,
     access_key_id |-> d.access_key_id, secret |-> "", remove |-> FALSE]

\* the leading slashes go
unrooted(prefix) == IF prefix = "/x" THEN "x" ELSE prefix

buildDestinationPayload(form, existing) ==
    IF form.kind = "local"
    THEN [kind |-> "local", path |-> form.path, bucket |-> "", prefix |-> "",
          access_key_id |-> "", secret |-> IF existing.secret # "" THEN "" ELSE Unsent]
    ELSE [kind |-> "s3", path |-> "", bucket |-> form.bucket, prefix |-> unrooted(form.prefix),
          access_key_id |-> form.access_key_id,
          secret |-> CASE form.secret # "" -> form.secret
                       [] form.remove -> ""
                       [] OTHER -> Unsent]

\* the serializer applies what is there to a copy, and checks the copy
candidate(kept, payload) ==
    [payload EXCEPT !.secret = IF @ = Unsent THEN kept.secret ELSE @]

\* what it refuses, without credentials in the environment
clean(d) ==
    IF d.kind = "local"
    THEN (IF d.path = "" THEN {"path"} ELSE {})
         \cup {f \in {"bucket", "prefix", "access_key_id", "secret"} : d[f] # ""}
    ELSE (IF d.bucket = "" THEN {"bucket"} ELSE {})
         \cup (IF d.path # "" THEN {"path"} ELSE {})
         \cup (IF d.prefix = "/x" THEN {"prefix"} ELSE {})
         \cup (IF (d.access_key_id = "") # (d.secret = "") THEN {"access_key_id"} ELSE {})

\* anything the user can make of the form of a destination, its kind included
edits(d) ==
    {[destinationToForm(d) EXCEPT !.kind = kind, !.path = path, !.bucket = bucket,
         !.prefix = prefix, !.access_key_id = key, !.secret = secret, !.remove = remove] :
        kind \in Kinds, path \in Texts, bucket \in Texts, prefix \in PrefixTexts,
        key \in Texts, secret \in {"", "new"}, remove \in BOOLEAN}

fitting(form, after) ==
    clean(after) \subseteq IF form.kind = "local" THEN {"path"} ELSE {"bucket", "access_key_id"}

meant(form, kept) ==
    CASE form.kind = "local" -> ""
      [] form.secret # "" -> "new"
      [] form.remove -> ""
      [] OTHER -> kept.secret

\* the edits that are refused for what they do not show, or change the secret unasked
mishandled ==
    UNION {{form \in edits(kept) :
               LET after == candidate(kept, buildDestinationPayload(form, kept))
               IN ~fitting(form, after) \/ (clean(after) = {} /\ after.secret # meant(form, kept))} :
           kept \in StoredDestinations}

(* The form of a destination asks for nothing it does not show: whatever is  *)
(* left in the fields of the other kind when the kind is switched, the       *)
(* server refuses only a missing path or bucket or half a pair of            *)
(* credentials; and what it accepts keeps the stored secret unless one was   *)
(* typed, its removal asked for, or the kind switched away.                  *)
DestinationFormKeepsSecret == mishandled = {}

-----------------------------------------------------------------------------
(* The schedule. A time is what its two numbers are, padded to two digits    *)
(* here as by the input the user types it into.                             *)

Schedules == [enabled : BOOLEAN, frequency : {"daily", "weekly"},
              hour : {0, 9, 23}, minute : {0, 59}, day_of_week : {0, 3, 6}]

\* what the server returns: a daily schedule has no day
StoredSchedules == {s \in Schedules : s.frequency = "daily" => s.day_of_week = 0}

pad(h, m) == [hour |-> h, minute |-> m]

scheduleToForm(s) ==
    [enabled |-> s.enabled, frequency |-> s.frequency, time |-> pad(s.hour, s.minute),
     day_of_week |-> s.day_of_week]

ScheduleForms ==
    [enabled : BOOLEAN, frequency : {"daily", "weekly"}, day_of_week : {0, 3, 6},
     time : [hour : {0, 9, 23, 24}, minute : {0, 59, 60}]]

\* {} while the time is none
buildSchedulePayload(form) ==
    IF form.time.hour > 23 \/ form.time.minute > 59 THEN {}
    ELSE {[enabled |-> form.enabled, frequency |-> form.frequency,
           hour |-> form.time.hour, minute |-> form.time.minute,
           day_of_week |-> IF form.frequency = "weekly" THEN form.day_of_week ELSE 0]}

scheduleChanged(form, saved) ==
    LET now == scheduleToForm(saved)
    IN \/ form.enabled # now.enabled \/ form.frequency # now.frequency \/ form.time # now.time
       \/ form.frequency = "weekly" /\ form.day_of_week # now.day_of_week

\* as a cron entry and back
set_schedule(payload) ==
    [payload EXCEPT !.day_of_week = IF payload.frequency = "weekly" THEN @ ELSE 0]

scheduleSettles ==
    /\ \A s \in StoredSchedules : ~scheduleChanged(scheduleToForm(s), s)
    /\ \A form \in ScheduleForms : \A payload \in buildSchedulePayload(form) :
           /\ payload \in StoredSchedules
           /\ ~scheduleChanged(form, set_schedule(payload))

(* Saving a schedule settles it: what the server returns is unchanged in    *)
(* the form, what is sent is a schedule the server keeps, and the form then *)
(* has nothing more to save, the day hidden by a daily schedule included.   *)
ScheduleSettles == scheduleSettles
=============================================================================
