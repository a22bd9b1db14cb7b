---- MODULE MCHcDevicePath ----
(* Every memory of at most MaxWords words the walk over a device path can be *)
(* pointed at: nodes of the lengths the code tells apart, and raw data.      *)
EXTENDS HcDevicePath

MaxWords == 4
Words == { Word("data", "none", 0), Word("acpi", "root", 1), Word("acpi", "root", 2), Word("acpi", "root", 4),
           Word("end", "instance", 1), Word("end", "entire", 1), Word("end", "other", 2) }
AllMemories == UNION { [1 .. n -> Words] : n \in 0 .. MaxWords }
====
