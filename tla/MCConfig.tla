------------------------------ MODULE MCConfig ------------------------------
(* Config for model checking: every environment of up to three entries.    *)
EXTENDS Config

EntriesOf(key, groups, values) ==
  [key : {key}, group : groups, value : values]

Entries ==
  EntriesOf("IGNORE", {"GROUP", "HOSTS", "PASSWD"}, {"true", "false"})
  \cup EntriesOf("IGNORE", {"hosts", "ZZZNOTAGROUP"}, {"true"})
  \cup EntriesOf("IGNORE", {"INITGROUPS"}, {"true", "yes", "not_unicode"})
  \cup EntriesOf("WORKER_COUNT", {""}, {"1", "0", "ten"})
  \cup EntriesOf("HANDOFF_TIMEOUT", {""}, {"13", "0", "13s"})
  \cup EntriesOf("PATH", {""}, {"/bin", "not_unicode"})

Environments == UNION {[1 .. n -> Entries] : n \in 0 .. 3}

Numbers == [s \in {"0", "1", "13"} |->
              CASE s = "0" -> 0 [] s = "1" -> 1 [] s = "13" -> 13]
=============================================================================
