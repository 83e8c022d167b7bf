---------------------------- MODULE ConfigStore ----------------------------
(***************************************************************************)
(* Configurator::load and ::save with the password store below them        *)
(* (Impl/Configurator.cpp, Impl/SecretStore.cpp, the OpenSSL variant).     *)
(* Several processes run: each works on the config file of one directory,  *)
(* all of them share the user's master key file.  Every system call that   *)
(* another process can see is a step of its own, and a process may die     *)
(* between any two of them.                                                *)
(*                                                                         *)
(* A configuration is the values of its input fields, in the order of      *)
(* transform_stored_passwords; which of them are passwords is said by      *)
(* interface.json, and an update of the resource may change it.            *)
(***************************************************************************)
EXTENDS Naturals

CONSTANTS Procs,               \* processes, and the keys they would generate
          Dirs,                \* user directories, each with its config file
          DirOf,               \* the directory a process works in
          SlotCount,           \* input fields of a configuration
          Secrets,             \* what a user may enter in a field
          InterfaceMayChange,  \* whether resource updates move password flags
          Unreadable           \* a config file that is not there or does not parse

ASSUME ConfigStoreAssumption ==
    /\ SlotCount \in Nat
    /\ DirOf \in [Procs -> Dirs]
    /\ InterfaceMayChange \in BOOLEAN
    /\ Procs \cap {"absent", "partial"} = {}

Slots == 1 .. SlotCount

\* The strings a field can hold: text (none stands for the empty string), or
\* "aesgcm:" followed by a payload under a key for the field's context.
None == [kind |-> "none"]
Text(v) == [kind |-> "text", value |-> v]
Cipher(k, slot, v) == [kind |-> "cipher", key |-> k, context |-> slot, value |-> v]

Texts   == {None} \cup {Text(v) : v \in Secrets}
Ciphers == {Cipher(k, s, v) : k \in Procs, s \in Slots, v \in Secrets}
Strings == Texts \cup Ciphers
Configs == [Slots -> Strings]
Blank   == [s \in Slots |-> None]

ASSUME UnreadableAssumption == Unreadable \notin Configs

VARIABLES
    key,       \* master.key: "absent", "partial" (created, not written), a key
    file,      \* maa_pi_config.json of each directory
    password,  \* the fields interface.json marks as password, per directory
    pc,        \* where each process is
    at,        \* the field transform_stored_passwords is at
    flags,     \* data_: the password fields as the process read them
    config,    \* config_: the values the process holds
    copy       \* stored_config: the copy that save encrypts

vars == <<key, file, password, pc, at, flags, config, copy>>

TypeOK ==
    /\ key \in {"absent", "partial"} \cup Procs
    /\ file \in [Dirs -> Configs \cup {Unreadable}]
    /\ password \in [Dirs -> SUBSET Slots]
    /\ pc \in [Procs -> {"off", "decrypt", "refused", "menu",
                      "encrypt", "createKey", "writeKey", "write", "saveFailed"}]
    /\ at \in [Procs -> 1 .. SlotCount + 1]
    /\ flags \in [Procs -> SUBSET Slots]
    /\ config \in [Procs -> Configs]
    /\ copy \in [Procs -> Configs]

Init ==
    /\ key = "absent"
    /\ file = [d \in Dirs |-> Unreadable]
    /\ password \in [Dirs -> SUBSET Slots]
    /\ pc = [p \in Procs |-> "off"]
    /\ at = [p \in Procs |-> 1]
    /\ flags = [p \in Procs |-> {}]
    /\ config = [p \in Procs |-> Blank]
    /\ copy = [p \in Procs |-> Blank]

Goto(p, label) == pc' = [pc EXCEPT ![p] = label]
Seek(p, slot)  == at' = [at EXCEPT ![p] = slot]

-----------------------------------------------------------------------------
(* load                                                                     *)

\* Slip: the empty result of the parser is taken for a configuration.
Load_ParseFailureIgnored(p) ==
    /\ pc[p] = "off"
    /\ flags' = [flags EXCEPT ![p] = password[DirOf[p]]]
    /\ config' = [config EXCEPT ![p] = file[DirOf[p]]]
    /\ Goto(p, "menu")
    /\ UNCHANGED <<key, file, password, at, copy>>

\* Reads interface.json and the config file; without one that parses this is
\* the first use.
Load(p) ==
    LET stored == file[DirOf[p]] IN
    /\ pc[p] = "off"
    /\ flags' = [flags EXCEPT ![p] = password[DirOf[p]]]
    /\ config' = [config EXCEPT ![p] = IF stored = Unreadable THEN Blank ELSE stored]
    /\ Goto(p, IF stored = Unreadable THEN "menu" ELSE "decrypt")
    /\ UNCHANGED <<key, file, password, at, copy>>

\* Fields that are no passwords and empty ones pass through both transforms.
Untouched(p, value) == at[p] \notin flags[p] \/ value = None

SkipDecrypt(p) ==
    /\ pc[p] = "decrypt"
    /\ at[p] \in Slots
    /\ Untouched(p, config[p][at[p]])
    /\ Seek(p, at[p] + 1)
    /\ UNCHANGED <<key, file, password, pc, flags, config, copy>>

\* The tag of AES-GCM holds only for the key and the context of encryption.
Opens(value, slot) ==
    /\ value.kind = "cipher"
    /\ value.key = key
    /\ value.context = slot

\* The key is read anew for every field.
Decrypt(p) ==
    LET value == config[p][at[p]] IN
    /\ pc[p] = "decrypt"
    /\ at[p] \in Slots
    /\ ~Untouched(p, value)
    /\ IF Opens(value, at[p])
       THEN /\ config' = [config EXCEPT ![p][at[p]] = Text(value.value)]
            /\ Seek(p, at[p] + 1)
            /\ UNCHANGED pc
       ELSE Goto(p, "refused") /\ UNCHANGED <<config, at>>
    /\ UNCHANGED <<key, file, password, flags, copy>>

\* Slip: the loop stops before the last field.
Loaded_OneShort(p) ==
    /\ pc[p] = "decrypt"
    /\ at[p] + 1 \notin Slots
    /\ Goto(p, "menu")
    /\ Seek(p, 1)
    /\ UNCHANGED <<key, file, password, flags, config, copy>>

Loaded(p) ==
    /\ pc[p] = "decrypt"
    /\ at[p] \notin Slots
    /\ Goto(p, "menu")
    /\ Seek(p, 1)
    /\ UNCHANGED <<key, file, password, flags, config, copy>>

-----------------------------------------------------------------------------
(* The user, and save                                                       *)

\* Any of the menus and prompts: a field gets another value.
Edit(p) ==
    /\ pc[p] = "menu"
    /\ \E s \in Slots, t \in Texts : config' = [config EXCEPT ![p][s] = t]
    /\ UNCHANGED <<key, file, password, pc, at, flags, copy>>

BeginSave(p) ==
    /\ pc[p] = "menu"
    /\ copy' = [copy EXCEPT ![p] = config[p]]
    /\ Goto(p, "encrypt")
    /\ UNCHANGED <<key, file, password, at, flags, config>>

SkipEncrypt(p) ==
    /\ pc[p] = "encrypt"
    /\ at[p] \in Slots
    /\ Untouched(p, copy[p][at[p]])
    /\ Seek(p, at[p] + 1)
    /\ UNCHANGED <<key, file, password, pc, flags, config, copy>>

Encrypted(p, k) == [copy EXCEPT ![p][at[p]] = Cipher(k, at[p], @.value)]

\* Slip: without a usable key the value is kept as it is.
Encrypt_KeyFailureIgnored(p) ==
    /\ pc[p] = "encrypt"
    /\ at[p] \in Slots
    /\ ~Untouched(p, copy[p][at[p]])
    /\ \/ /\ key \in Procs
          /\ copy' = Encrypted(p, key)
          /\ Seek(p, at[p] + 1)
          /\ UNCHANGED pc
       \/ key = "partial" /\ Seek(p, at[p] + 1) /\ UNCHANGED <<copy, pc>>
       \/ key = "absent" /\ Goto(p, "createKey") /\ UNCHANGED <<copy, at>>
    /\ UNCHANGED <<key, file, password, flags, config>>

\* Slip: the context names the field before.
Encrypt_OtherContext(p) ==
    /\ pc[p] = "encrypt"
    /\ at[p] \in Slots
    /\ ~Untouched(p, copy[p][at[p]])
    /\ \/ /\ key \in Procs
          /\ copy' = [copy EXCEPT ![p][at[p]] = Cipher(key, 1, @.value)]
          /\ Seek(p, at[p] + 1)
          /\ UNCHANGED pc
       \/ key = "partial" /\ Goto(p, "saveFailed") /\ UNCHANGED <<copy, at>>
       \/ key = "absent" /\ Goto(p, "createKey") /\ UNCHANGED <<copy, at>>
    /\ UNCHANGED <<key, file, password, flags, config>>

\* read_or_create_key(true), first half.  A key file of the wrong size, which a
\* file just created by another process is, makes save fail.
Encrypt(p) ==
    /\ pc[p] = "encrypt"
    /\ at[p] \in Slots
    /\ ~Untouched(p, copy[p][at[p]])
    /\ \/ /\ key \in Procs
          /\ copy' = Encrypted(p, key)
          /\ Seek(p, at[p] + 1)
          /\ UNCHANGED pc
       \/ key = "partial" /\ Goto(p, "saveFailed") /\ UNCHANGED <<copy, at>>
       \/ key = "absent" /\ Goto(p, "createKey") /\ UNCHANGED <<copy, at>>
    /\ UNCHANGED <<key, file, password, flags, config>>

\* Slip: open without O_EXCL.
CreateKey_NotExclusive(p) ==
    /\ pc[p] = "createKey"
    /\ key' = IF key = "absent" THEN "partial" ELSE key
    /\ Goto(p, "writeKey")
    /\ UNCHANGED <<file, password, at, flags, config, copy>>

\* open with O_CREAT | O_EXCL: another process may have been first.
CreateKey(p) ==
    /\ pc[p] = "createKey"
    /\ IF key = "absent"
       THEN key' = "partial" /\ Goto(p, "writeKey")
       ELSE Goto(p, "saveFailed") /\ UNCHANGED key
    /\ UNCHANGED <<file, password, at, flags, config, copy>>

\* Slip: what write returns is not compared with the size of the key.
WriteKey_ShortIgnored(p) ==
    /\ pc[p] = "writeKey"
    /\ key' \in {"partial", p}
    /\ copy' = Encrypted(p, p)
    /\ Seek(p, at[p] + 1)
    /\ Goto(p, "encrypt")
    /\ UNCHANGED <<file, password, flags, config>>

\* The key goes to disk and encrypts the field it was wanted for.
WriteKey(p) ==
    /\ pc[p] = "writeKey"
    /\ key' = p
    /\ copy' = Encrypted(p, p)
    /\ Seek(p, at[p] + 1)
    /\ Goto(p, "encrypt")
    /\ UNCHANGED <<file, password, flags, config>>

\* ofstream truncates when it opens.
TruncateConfig(p) ==
    /\ pc[p] = "encrypt"
    /\ at[p] \notin Slots
    /\ file' = [file EXCEPT ![DirOf[p]] = Unreadable]
    /\ Goto(p, "write")
    /\ Seek(p, 1)
    /\ UNCHANGED <<key, password, flags, config, copy>>

\* save does not look at the stream again: a full disk, or the tail of a longer
\* text another process wrote meanwhile, leaves a file that does not parse.
WriteConfig(p) ==
    /\ pc[p] = "write"
    /\ \E c \in {copy[p], Unreadable} : file' = [file EXCEPT ![DirOf[p]] = c]
    /\ copy' = [copy EXCEPT ![p] = Blank]
    /\ Goto(p, "menu")
    /\ UNCHANGED <<key, password, at, flags, config>>

\* save returns false, as the key cannot be had, a system call fails or the file
\* cannot be opened.  Within Interactor::run the menu goes on with what is in
\* memory, and may save again; anywhere else the process ends (Stop).
SaveFails(p) ==
    /\ pc[p] \in {"encrypt", "createKey", "writeKey", "saveFailed"}
    /\ copy' = [copy EXCEPT ![p] = Blank]
    /\ Goto(p, "menu")
    /\ Seek(p, 1)
    /\ UNCHANGED <<key, file, password, flags, config>>

\* The user leaves, a save fails where that ends the program, or the process
\* dies: whatever step it was at, the next one does not happen.
Stop(p) ==
    /\ pc[p] # "off"
    /\ Goto(p, "off")
    /\ Seek(p, 1)
    /\ flags' = [flags EXCEPT ![p] = {}]
    /\ config' = [config EXCEPT ![p] = Blank]
    /\ copy' = [copy EXCEPT ![p] = Blank]
    /\ UNCHANGED <<key, file, password>>

\* The resource is updated, and with it interface.json.
UpdateInterface(d) ==
    /\ InterfaceMayChange
    /\ \E fields \in SUBSET Slots : password' = [password EXCEPT ![d] = fields]
    /\ UNCHANGED <<key, file, pc, at, flags, config, copy>>

Process(p) ==
    \/ Load(p) \/ SkipDecrypt(p) \/ Decrypt(p) \/ Loaded(p)
    \/ Edit(p) \/ BeginSave(p) \/ SkipEncrypt(p) \/ Encrypt(p)
    \/ CreateKey(p) \/ WriteKey(p) \/ TruncateConfig(p) \/ WriteConfig(p)
    \/ SaveFails(p) \/ Stop(p)

Next == (\E p \in Procs : Process(p)) \/ (\E d \in Dirs : UpdateInterface(d))

Spec == Init /\ [][Next]_vars

-----------------------------------------------------------------------------
(* Properties.                                                              *)

\* A master key, once it can be read, is never replaced: every password saved
\* by any process in any directory depends on it (SecretStore.cpp:326-338).  A
\* torn one is completed by the process that created it, while it is at its
\* write, or never: a save that comes back to it later fails again.
KeyIsForever ==
    [][/\ key \in Procs => key' = key
       /\ key = "partial" => key' \in {"partial"} \cup {p \in Procs : pc[p] = "writeKey"}]_vars

\* Whatever processes race and die, each ciphertext that lies on disk opens with
\* the key that lies on disk, in the field it is in (SecretStore.cpp:300-443).
Decryptable ==
    \A d \in Dirs : file[d] # Unreadable =>
        \A s \in Slots : file[d][s].kind = "cipher" => Opens(file[d][s], s)

\* No save writes in the clear what its interface.json calls a password, not
\* even when the key cannot be had (Configurator.cpp:232-238).
NoBarePassword ==
    [][\A p \in Procs : WriteConfig(p) /\ file'[DirOf[p]] # Unreadable =>
          \A s \in flags[p] : file'[DirOf[p]][s].kind # "text"]_vars

\* As long as interface.json does not change, what was saved can be loaded: no
\* start is refused for a value the program has written itself.
NeverRefused == \A p \in Procs : pc[p] # "refused"

\* What the menus show and the tasks are run with are never ciphertexts: load
\* opens every one of them before it returns true (Configurator.cpp:199-207).
MenuIsClear ==
    \A p \in Procs : pc[p] = "menu" => \A s \in Slots : config[p][s] \in Texts

\* SecretStore.h:12-13: "Values without a known encrypted prefix are treated as
\* legacy plaintext while loading": such a value is no reason to refuse.
LegacyIsAccepted ==
    \A p \in Procs : pc[p] = "refused" => config[p][at[p]].kind # "text"

(***************************************************************************)
(* The store in the clear: a file stands for what the key on disk makes of *)
(* it, a process under way to its menu for what it will hold there.        *)
(***************************************************************************)
Lost == [kind |-> "lost"]   \* a ciphertext that does not open

Clear(value, slot) ==
    IF value.kind = "cipher" THEN IF Opens(value, slot) THEN Text(value.value) ELSE Lost
    ELSE value

ClearConfig(c) == [s \in Slots |-> Clear(c[s], s)]

Stored  == [d \in Dirs |-> IF file[d] = Unreadable THEN Unreadable ELSE ClearConfig(file[d])]
Running == {p \in Procs : pc[p] # "off"}
Holds   == [p \in Procs |-> ClearConfig(config[p])]

Plain == INSTANCE PlainStore WITH
    Configs <- [Slots -> Texts],
    Nothing <- Unreadable,
    stored  <- Stored,
    running <- Running,
    holds   <- Holds

\* Keys, ciphertexts and their races are invisible to who only loads and saves.
IsPlainStore == Plain!Spec
=============================================================================
