------------------------- MODULE ConfigStoreProofs -------------------------
(***************************************************************************)
(* What holds of ConfigStore for any number of processes, directories and  *)
(* fields.  Three facts carry everything.  Whoever is between creating and *)
(* writing the key is alone, and there is no ciphertext yet; every         *)
(* ciphertext there is, on disk or in memory, opens in its field; and the  *)
(* two walks over the fields leave behind them what they should.           *)
(***************************************************************************)
EXTENDS ConfigStore, TLAPS

Saving == {"encrypt", "createKey", "writeKey", "write"}

OpensAll(c) == \A s \in Slots : c[s].kind = "cipher" => Opens(c[s], s)

\* One process at most has created the key file and not yet written it.
KeyInv ==
    /\ \A p \in Procs : pc[p] = "writeKey" => key = "partial"
    /\ \A p, q \in Procs : pc[p] = "writeKey" /\ pc[q] = "writeKey" => p = q

\* No ciphertext, wherever it is, was made with another key than the one on
\* disk, or for another field.
CipherInv ==
    /\ Decryptable
    /\ \A p \in Procs : OpensAll(config[p]) /\ OpensAll(copy[p])

\* Where the walks over the fields start, and where one waits for the key.
Walk(p) ==
    /\ pc[p] \in {"off", "menu", "write"} => at[p] = 1
    /\ pc[p] \in {"createKey", "writeKey"} =>
          at[p] \in Slots /\ ~Untouched(p, copy[p][at[p]])

\* The passwords behind the walk of load are open; those behind the walk of
\* save are sealed, those before it open.
Passwords(p) ==
    \A s \in flags[p] :
        /\ pc[p] = "decrypt" /\ s < at[p] => config[p][s] \in Texts
        /\ pc[p] \in {"menu", "saveFailed"} \cup Saving => config[p][s] \in Texts
        /\ pc[p] \in {"encrypt", "createKey", "writeKey"} =>
              IF s < at[p] THEN copy[p][s].kind # "text" ELSE copy[p][s] \in Texts
        /\ pc[p] = "write" => copy[p][s].kind # "text"

\* What a string stands for, if it opens.
Opened(x) == IF x.kind = "cipher" THEN Text(x.value) ELSE x

\* The copy says at every moment of save what the process holds.
CopyAgrees(p) ==
    pc[p] \in Saving => \A s \in Slots : Opened(copy[p][s]) = Opened(config[p][s])

IInv ==
    /\ TypeOK
    /\ KeyInv
    /\ CipherInv
    /\ \A p \in Procs : Walk(p) /\ Passwords(p) /\ CopyAgrees(p)

\* Passwords are sealed or empty, other fields are never sealed.
SealedAsFlagged(c, fields) ==
    \A s \in Slots : IF s \in fields THEN c[s].kind # "text" ELSE c[s].kind # "cipher"

\* While interface.json stays as it is, a process and the file of its directory
\* agree on which fields are passwords, and every password it loads is sealed.
Stable(p) ==
    /\ flags[p] = IF pc[p] = "off" THEN {} ELSE password[DirOf[p]]
    /\ \A s \in Slots \ flags[p] : config[p][s].kind # "cipher" /\ copy[p][s].kind # "cipher"
    /\ pc[p] = "decrypt" => \A s \in flags[p] : s >= at[p] => config[p][s].kind # "text"
    /\ pc[p] # "refused"

StableInv ==
    /\ \A d \in Dirs : file[d] # Unreadable => SealedAsFlagged(file[d], password[d])
    /\ \A p \in Procs : Stable(p)

-----------------------------------------------------------------------------
(* The strings.                                                             *)

\* A text is empty or a secret, and no ciphertext.
LEMMA TextFacts ==
    ASSUME NEW x \in Texts
    PROVE  /\ x.kind # "cipher"
           /\ x \in Strings
           /\ x # None => x.kind = "text" /\ x.value \in Secrets /\ x = Text(x.value)
           /\ x = None => x.kind # "text"
BY DEF Texts, Strings, None, Text

\* What decrypt_for_field returns for a payload is a text.
LEMMA TextIsText ==
    ASSUME NEW v \in Secrets
    PROVE  /\ Text(v) \in Texts /\ Text(v).kind = "text" /\ Text(v).value = v
BY DEF Texts, Text

\* What a string that starts with the prefix is made of.
LEMMA CipherFacts ==
    ASSUME NEW x \in Strings, x.kind = "cipher"
    PROVE  x \in Ciphers /\ x.key \in Procs /\ x.value \in Secrets /\ x # None
BY DEF Texts, Strings, None, Text, Ciphers, Cipher

\* What encrypt_for_field returns.
LEMMA CipherIsCipher ==
    ASSUME NEW k \in Procs, NEW s \in Slots, NEW v \in Secrets
    PROVE  /\ Cipher(k, s, v) \in Strings
           /\ Cipher(k, s, v).kind = "cipher" /\ Cipher(k, s, v).key = k
           /\ Cipher(k, s, v).context = s /\ Cipher(k, s, v).value = v
BY DEF Strings, Ciphers, Cipher

\* A string with neither prefix nor text in it is the empty one.
LEMMA StringFacts ==
    ASSUME NEW x \in Strings
    PROVE  x.kind # "cipher" => x \in Texts
BY DEF Texts, Strings, Ciphers, Cipher

\* A configuration that was never set up has no names and no password.
LEMMA BlankIsConfig == Blank \in Configs /\ \A s \in Slots : Blank[s] = None
BY DEF Blank, Configs, Strings, Texts

-----------------------------------------------------------------------------
(* Steps.                                                                   *)

\* What a process that encrypts works on, and what the copy is afterwards
\* (Configurator.cpp:199-231).
LEMMA Sealing ==
    ASSUME TypeOK, NEW p \in Procs, Passwords(p), NEW k \in Procs,
           pc[p] \in {"encrypt", "writeKey"},
           at[p] \in Slots, ~Untouched(p, copy[p][at[p]])
    PROVE  /\ copy[p][at[p]].value \in Secrets
           /\ copy[p][at[p]] = Text(copy[p][at[p]].value)
           /\ Encrypted(p, k) \in [Procs -> Configs]
           /\ Encrypted(p, k)[p][at[p]] = Cipher(k, at[p], copy[p][at[p]].value)
           /\ \A s \in Slots : s # at[p] => Encrypted(p, k)[p][s] = copy[p][s]
           /\ \A q \in Procs : q # p => Encrypted(p, k)[q] = copy[q]
<1> DEFINE v == copy[p][at[p]].value
<1>1. copy[p][at[p]] \in Texts /\ copy[p][at[p]] # None
  BY DEF Passwords, Untouched, TypeOK, Slots, Saving
<1>2. v \in Secrets /\ copy[p][at[p]] = Text(v)
  BY <1>1, TextFacts
<1>3. Cipher(k, at[p], v) \in Strings
  BY <1>2, CipherIsCipher
<1>4. Encrypted(p, k) = [copy EXCEPT ![p] = [copy[p] EXCEPT ![at[p]] = Cipher(k, at[p], v)]]
  BY DEF Encrypted, TypeOK, Configs
<1>5. copy \in [Procs -> Configs] /\ copy[p] \in [Slots -> Strings]
  BY DEF TypeOK, Configs
<1> HIDE DEF v
<1>6. [copy[p] EXCEPT ![at[p]] = Cipher(k, at[p], v)] \in Configs
  BY <1>3, <1>5 DEF Configs
<1> QED
  BY <1>2, <1>4, <1>5, <1>6 DEF v

\* What a process that decrypts holds afterwards.
LEMMA Opening ==
    ASSUME TypeOK, NEW p \in Procs, Decrypt(p), Opens(config[p][at[p]], at[p])
    PROVE  /\ config[p][at[p]].value \in Secrets
           /\ config' \in [Procs -> Configs]
           /\ config'[p][at[p]] = Text(config[p][at[p]].value)
           /\ \A s \in Slots : s # at[p] => config'[p][s] = config[p][s]
           /\ \A q \in Procs : q # p => config'[q] = config[q]
<1> DEFINE v == config[p][at[p]].value
<1>1. config \in [Procs -> Configs] /\ config[p] \in [Slots -> Strings] /\ at[p] \in Slots
  BY DEF TypeOK, Configs, Decrypt
<1>2. v \in Secrets /\ Text(v) \in Strings
  BY <1>1, CipherFacts, TextIsText, TextFacts DEF Opens
<1>3. config' = [config EXCEPT ![p] = [config[p] EXCEPT ![at[p]] = Text(v)]]
  BY <1>1 DEF Decrypt
<1> HIDE DEF v
<1>4. [config[p] EXCEPT ![at[p]] = Text(v)] \in Configs
  BY <1>1, <1>2 DEF Configs
<1> QED
  BY <1>1, <1>2, <1>3, <1>4 DEF v

\* What a process holds after the user has changed a field.
LEMMA Editing ==
    ASSUME TypeOK, NEW p \in Procs, Edit(p)
    PROVE  /\ config' \in [Procs -> Configs]
           /\ \A s \in Slots : config'[p][s] \in Texts \/ config'[p][s] = config[p][s]
           /\ \A q \in Procs : q # p => config'[q] = config[q]
<1>1. PICK s \in Slots, t \in Texts : config' = [config EXCEPT ![p][s] = t]
  BY DEF Edit
<1>2. config \in [Procs -> Configs] /\ config[p] \in [Slots -> Strings]
  BY DEF TypeOK, Configs
<1>3. config' = [config EXCEPT ![p] = [config[p] EXCEPT ![s] = t]]
  BY <1>1, <1>2
<1>4. [config[p] EXCEPT ![s] = t] \in Configs
  BY <1>2, TextFacts DEF Configs
<1> QED
  BY <1>2, <1>3, <1>4

\* Steps of the processes and of the resource keep the state well typed.
LEMMA TypeSteps == IInv /\ [Next]_vars => TypeOK'
<1> SUFFICES ASSUME IInv, [Next]_vars PROVE TypeOK'
  OBVIOUS
<1> USE ConfigStoreAssumption DEF IInv, Goto, Seek
<1>1. ASSUME NEW p \in Procs, Load(p) PROVE TypeOK'
  <2>1. DirOf[p] \in Dirs
    OBVIOUS
  <2> QED
    BY <1>1, <2>1, BlankIsConfig DEF Load, TypeOK
<1>2. ASSUME NEW p \in Procs, SkipDecrypt(p) \/ SkipEncrypt(p) PROVE TypeOK'
  BY <1>2 DEF SkipDecrypt, SkipEncrypt, TypeOK, Slots
<1>3. ASSUME NEW p \in Procs, Decrypt(p) PROVE TypeOK'
  <2>1. CASE Opens(config[p][at[p]], at[p])
    <3>1. config' \in [Procs -> Configs]
      BY <1>3, <2>1, Opening
    <3>2. at' = [at EXCEPT ![p] = at[p] + 1] /\ at[p] \in Slots
      BY <1>3, <2>1 DEF Decrypt
    <3> QED
      BY <1>3, <2>1, <3>1, <3>2 DEF Decrypt, TypeOK, Slots
  <2>2. CASE ~Opens(config[p][at[p]], at[p])
    BY <1>3, <2>2 DEF Decrypt, TypeOK
  <2> QED
    BY <2>1, <2>2
<1>4. ASSUME NEW p \in Procs, Loaded(p) PROVE TypeOK'
  BY <1>4 DEF Loaded, TypeOK
<1>5. ASSUME NEW p \in Procs, Edit(p) PROVE TypeOK'
  <2>1. config' \in [Procs -> Configs]
    BY <1>5, Editing
  <2> QED
    BY <1>5, <2>1 DEF Edit, TypeOK
<1>6. ASSUME NEW p \in Procs, BeginSave(p) PROVE TypeOK'
  BY <1>6 DEF BeginSave, TypeOK
<1>7. ASSUME NEW p \in Procs, Encrypt(p) PROVE TypeOK'
  <2>1. CASE key \in Procs /\ copy' = Encrypted(p, key)
    <3>1. copy' \in [Procs -> Configs]
      BY <1>7, <2>1, Sealing DEF Encrypt
    <3> QED
      BY <1>7, <2>1, <3>1 DEF Encrypt, TypeOK, Slots
  <2>2. CASE UNCHANGED copy
    BY <1>7, <2>2 DEF Encrypt, TypeOK, Slots
  <2> QED
    BY <1>7, <2>1, <2>2 DEF Encrypt
<1>8. ASSUME NEW p \in Procs, CreateKey(p) PROVE TypeOK'
  BY <1>8 DEF CreateKey, TypeOK
<1>9. ASSUME NEW p \in Procs, WriteKey(p) PROVE TypeOK'
  <2>1. at[p] \in Slots /\ ~Untouched(p, copy[p][at[p]])
    BY <1>9 DEF WriteKey, Walk
  <2>2. copy' \in [Procs -> Configs]
    BY <1>9, <2>1, Sealing DEF WriteKey
  <2>3. at' \in [Procs -> 1 .. SlotCount + 1]
    BY <1>9, <2>1 DEF WriteKey, TypeOK, Slots
  <2> QED
    BY <1>9, <2>2, <2>3 DEF WriteKey, TypeOK
<1>10. ASSUME NEW p \in Procs, TruncateConfig(p) PROVE TypeOK'
  <2>1. DirOf[p] \in Dirs
    OBVIOUS
  <2> QED
    BY <1>10, <2>1 DEF TruncateConfig, TypeOK
<1>11. ASSUME NEW p \in Procs, WriteConfig(p) PROVE TypeOK'
  <2>1. DirOf[p] \in Dirs
    OBVIOUS
  <2> QED
    BY <1>11, <2>1, BlankIsConfig DEF WriteConfig, TypeOK
<1>12. ASSUME NEW p \in Procs, Stop(p) PROVE TypeOK'
  BY <1>12, BlankIsConfig DEF Stop, TypeOK
<1>13. ASSUME NEW d \in Dirs, UpdateInterface(d) PROVE TypeOK'
  BY <1>13 DEF UpdateInterface, TypeOK
<1>14. ASSUME NEW p \in Procs, SaveFails(p) PROVE TypeOK'
  BY <1>14, BlankIsConfig DEF SaveFails, TypeOK
<1>15. CASE UNCHANGED vars
  BY <1>15 DEF vars, TypeOK
<1> QED
  BY <1>1, <1>2, <1>3, <1>4, <1>5, <1>6, <1>7, <1>8, <1>9, <1>10, <1>11, <1>12, <1>13, <1>14, <1>15
  DEF Next, Process

\* A key changes only as long as it is not one, and a torn one only where it is
\* being written (SecretStore.cpp:326-391).
LEMMA KeyMoves ==
    TypeOK /\ KeyInv /\ [Next]_vars =>
        \/ key' = key
        \/ key = "absent"
        \/ key = "partial" /\ \E p \in Procs : pc[p] = "writeKey" /\ key' = p
<1> DEFINE moves == \/ key' = key
                    \/ key = "absent"
                    \/ key = "partial" /\ \E p \in Procs : pc[p] = "writeKey" /\ key' = p
<1> SUFFICES ASSUME TypeOK, KeyInv, [Next]_vars PROVE moves
  OBVIOUS
<1>1. ASSUME NEW p \in Procs, CreateKey(p) PROVE moves
  BY <1>1 DEF CreateKey
<1>2. ASSUME NEW p \in Procs, WriteKey(p) PROVE moves
  BY <1>2 DEF WriteKey, KeyInv
<1>3. CASE key' = key
  BY <1>3
<1> HIDE DEF moves
<1> QED
  BY <1>1, <1>2, <1>3 DEF Next, Process, vars, Load, SkipDecrypt, Decrypt, Loaded, Edit, BeginSave,
     SkipEncrypt, Encrypt, TruncateConfig, WriteConfig, SaveFails, Stop, UpdateInterface

\* Creating the key file is exclusive, and writing it ends the exclusion.
LEMMA KeySteps == TypeOK /\ KeyInv /\ [Next]_vars => KeyInv'
<1> SUFFICES ASSUME TypeOK, KeyInv, [Next]_vars PROVE KeyInv'
  OBVIOUS
<1> USE DEF Goto
<1>1. ASSUME NEW p \in Procs, CreateKey(p) PROVE KeyInv'
  <2>1. CASE key = "absent"
    <3>1. \A q \in Procs : pc[q] # "writeKey"
      BY <2>1 DEF KeyInv
    <3>2. key' = "partial" /\ pc' = [pc EXCEPT ![p] = "writeKey"]
      BY <1>1, <2>1 DEF CreateKey
    <3> QED
      BY <3>1, <3>2 DEF KeyInv, TypeOK
  <2>2. CASE key # "absent"
    BY <1>1, <2>2 DEF CreateKey, KeyInv, TypeOK
  <2> QED
    BY <2>1, <2>2
<1>2. ASSUME NEW p \in Procs, WriteKey(p) PROVE KeyInv'
  <2>1. \A q \in Procs : pc[q] = "writeKey" => q = p
    BY <1>2 DEF WriteKey, KeyInv
  <2>2. \A q \in Procs : pc'[q] # "writeKey"
    BY <1>2, <2>1 DEF WriteKey, TypeOK
  <2> QED
    BY <2>2 DEF KeyInv
<1>3. ASSUME NEW p \in Procs,
             \/ Load(p) \/ SkipDecrypt(p) \/ Decrypt(p) \/ Loaded(p) \/ Edit(p) \/ BeginSave(p)
             \/ SkipEncrypt(p) \/ Encrypt(p) \/ TruncateConfig(p) \/ WriteConfig(p) \/ SaveFails(p) \/ Stop(p)
      PROVE  KeyInv'
  <2>1. key' = key /\ \A q \in Procs : pc'[q] = "writeKey" => pc[q] = "writeKey"
    BY <1>3 DEF TypeOK, Load, SkipDecrypt, Decrypt, Loaded, Edit, BeginSave,
       SkipEncrypt, Encrypt, TruncateConfig, WriteConfig, SaveFails, Stop
  <2> QED
    BY <2>1 DEF KeyInv
<1>4. ASSUME NEW d \in Dirs, UpdateInterface(d) PROVE KeyInv'
  BY <1>4 DEF UpdateInterface, KeyInv
<1>5. CASE UNCHANGED vars
  BY <1>5 DEF vars, KeyInv
<1> QED
  BY <1>1, <1>2, <1>3, <1>4, <1>5 DEF Next, Process

\* A process touches nobody else's memory.
LEMMA Others ==
    ASSUME TypeOK, NEW p \in Procs, Process(p), NEW q \in Procs, q # p
    PROVE  /\ pc'[q] = pc[q] /\ at'[q] = at[q] /\ flags'[q] = flags[q]
           /\ config'[q] = config[q] /\ copy'[q] = copy[q]
BY DEF TypeOK, Goto, Seek, Encrypted, Process, Load, SkipDecrypt, Decrypt, Loaded, Edit, BeginSave,
   SkipEncrypt, Encrypt, CreateKey, WriteKey, TruncateConfig, WriteConfig, SaveFails, Stop

\* Where the values a process holds come from.
LEMMA ConfigMoves ==
    ASSUME IInv, NEW p \in Procs, Process(p), NEW s \in Slots
    PROVE  \/ config'[p][s] \in Texts
           \/ config'[p][s] = config[p][s]
           \/ Load(p) /\ file[DirOf[p]] # Unreadable /\ config'[p][s] = file[DirOf[p]][s]
<1> USE DEF IInv
<1>1. CASE Load(p)
  BY <1>1, BlankIsConfig DEF Load, TypeOK, Texts
<1>2. CASE Decrypt(p)
  <2>1. CASE Opens(config[p][at[p]], at[p])
    BY <1>2, <2>1, Opening, TextIsText
  <2> QED
    BY <1>2, <2>1 DEF Decrypt
<1>3. CASE Edit(p)
  BY <1>3, Editing
<1>4. CASE Stop(p)
  BY <1>4, BlankIsConfig DEF Stop, TypeOK, Texts
<1> QED
  BY <1>1, <1>2, <1>3, <1>4 DEF Process, SkipDecrypt, Loaded, BeginSave, SkipEncrypt, Encrypt,
     CreateKey, WriteKey, TruncateConfig, WriteConfig, SaveFails

\* Where the values of the copy come from.
LEMMA CopyMoves ==
    ASSUME IInv, NEW p \in Procs, Process(p), NEW s \in Slots
    PROVE  \/ copy'[p][s] \in Texts
           \/ copy'[p][s] = copy[p][s]
           \/ BeginSave(p) /\ copy'[p][s] = config[p][s]
           \/ /\ s \in flags[p] /\ key' \in Procs
              /\ \E v \in Secrets : copy'[p][s] = Cipher(key', s, v)
<1> USE DEF IInv
<1>1. CASE BeginSave(p)
  BY <1>1 DEF BeginSave, TypeOK
<1>2. CASE Encrypt(p)
  <2>1. CASE key \in Procs /\ copy' = Encrypted(p, key)
    <3>1. at[p] \in Slots /\ ~Untouched(p, copy[p][at[p]]) /\ pc[p] = "encrypt" /\ key' = key
      BY <1>2 DEF Encrypt
    <3> QED
      BY <2>1, <3>1, Sealing DEF Untouched
  <2> QED
    BY <1>2, <2>1 DEF Encrypt
<1>3. CASE WriteKey(p)
  <2>1. at[p] \in Slots /\ ~Untouched(p, copy[p][at[p]]) /\ pc[p] = "writeKey"
    BY <1>3 DEF WriteKey, Walk
  <2>2. key' = p /\ copy' = Encrypted(p, p)
    BY <1>3 DEF WriteKey
  <2> QED
    BY <2>1, <2>2, Sealing DEF Untouched
<1>4. CASE WriteConfig(p) \/ SaveFails(p) \/ Stop(p)
  BY <1>4, BlankIsConfig DEF WriteConfig, SaveFails, Stop, TypeOK, Texts
<1> QED
  BY <1>1, <1>2, <1>3, <1>4 DEF Process, Load, SkipDecrypt, Decrypt, Loaded, Edit, SkipEncrypt,
     CreateKey, TruncateConfig

\* What comes to lie on disk.
LEMMA FileMoves ==
    ASSUME TypeOK, [Next]_vars, NEW d \in Dirs
    PROVE  \/ file'[d] \in {file[d], Unreadable}
           \/ \E p \in Procs : WriteConfig(p) /\ DirOf[p] = d /\ file'[d] = copy[p]
<1>1. ASSUME NEW p \in Procs, TruncateConfig(p) PROVE file'[d] \in {file[d], Unreadable}
  BY <1>1, ConfigStoreAssumption DEF TruncateConfig, TypeOK
<1>2. ASSUME NEW p \in Procs, WriteConfig(p)
      PROVE  \/ file'[d] \in {file[d], Unreadable}
             \/ DirOf[p] = d /\ file'[d] = copy[p]
  BY <1>2, ConfigStoreAssumption DEF WriteConfig, TypeOK
<1> QED
  BY <1>1, <1>2 DEF Next, Process, vars, Load, SkipDecrypt, Decrypt, Loaded, Edit, BeginSave,
     SkipEncrypt, Encrypt, CreateKey, WriteKey, SaveFails, Stop, UpdateInterface

\* A ciphertext that opens will still open: the key it needs is on disk.
LEMMA StillOpens ==
    ASSUME IInv, [Next]_vars, NEW x \in Strings, NEW s \in Slots,
           x.kind = "cipher" => x.key = key /\ x.context = s
    PROVE  x.kind = "cipher" => x.key = key' /\ x.context = s
BY CipherFacts, KeyMoves, ConfigStoreAssumption DEF IInv

\* Wherever ciphertexts travel, and whichever key is created, they open.
LEMMA CipherSteps == IInv /\ TypeOK' /\ [Next]_vars => CipherInv'
<1> SUFFICES ASSUME IInv, TypeOK', [Next]_vars PROVE CipherInv'
  OBVIOUS
<1> USE DEF IInv
<1> DEFINE Good(x, s) == x.kind = "cipher" => x.key = key' /\ x.context = s
<1>1. ASSUME NEW p \in Procs, NEW s \in Slots PROVE Good(config[p][s], s)
  BY StillOpens DEF CipherInv, OpensAll, Opens, TypeOK, Configs
<1>2. ASSUME NEW p \in Procs, NEW s \in Slots PROVE Good(copy[p][s], s)
  BY StillOpens DEF CipherInv, OpensAll, Opens, TypeOK, Configs
<1>3. ASSUME NEW d \in Dirs, NEW s \in Slots, file[d] # Unreadable PROVE Good(file[d][s], s)
  BY <1>3, StillOpens DEF CipherInv, Decryptable, Opens, TypeOK, Configs
<1>4. ASSUME NEW p \in Procs, NEW s \in Slots PROVE Good(config'[p][s], s)
  <2>1. CASE Process(p)
    BY <1>1, <1>3, <2>1, ConfigMoves, TextFacts, ConfigStoreAssumption
  <2>2. CASE ~Process(p)
    <3>1. config'[p] = config[p]
      BY <2>2, Others DEF Next, vars, UpdateInterface
    <3> QED
      BY <1>1, <3>1
  <2> QED
    BY <2>1, <2>2
<1>5. ASSUME NEW p \in Procs, NEW s \in Slots PROVE Good(copy'[p][s], s)
  <2>1. CASE Process(p)
    BY <1>1, <1>2, <2>1, CopyMoves, TextFacts, CipherIsCipher
  <2>2. CASE ~Process(p)
    <3>1. copy'[p] = copy[p]
      BY <2>2, Others DEF Next, vars, UpdateInterface
    <3> QED
      BY <1>2, <3>1
  <2> QED
    BY <2>1, <2>2
<1>6. ASSUME NEW d \in Dirs, NEW s \in Slots, file'[d] # Unreadable PROVE Good(file'[d][s], s)
  BY <1>2, <1>3, <1>6, FileMoves
<1> QED
  BY <1>4, <1>5, <1>6 DEF CipherInv, Decryptable, OpensAll, Opens, TypeOK

\* A process's own steps leave the walks where they should be.
LEMMA WalkSteps ==
    ASSUME IInv, NEW p \in Procs, Process(p) PROVE Walk(p)'
<1> USE DEF IInv, Goto, Seek
<1>1. CASE Encrypt(p)
  BY <1>1 DEF Encrypt, Walk, TypeOK, Untouched
<1>2. CASE CreateKey(p)
  BY <1>2 DEF CreateKey, Walk, TypeOK, Untouched
<1>3. CASE Load(p) \/ Edit(p) \/ BeginSave(p) \/ WriteConfig(p)
  BY <1>3 DEF Load, Edit, BeginSave, WriteConfig, Walk, TypeOK
<1>4. CASE SkipDecrypt(p) \/ Decrypt(p) \/ SkipEncrypt(p)
  BY <1>4 DEF SkipDecrypt, Decrypt, SkipEncrypt, Walk, TypeOK
<1>5. CASE Loaded(p) \/ WriteKey(p) \/ TruncateConfig(p) \/ SaveFails(p) \/ Stop(p)
  BY <1>5 DEF Loaded, WriteKey, TruncateConfig, SaveFails, Stop, Walk, TypeOK
<1> QED
  BY <1>1, <1>2, <1>3, <1>4, <1>5 DEF Process

\* The passwords behind a walk stay as the walk has left them.
LEMMA PasswordSteps ==
    ASSUME IInv, NEW p \in Procs, Process(p) PROVE Passwords(p)'
<1> USE DEF IInv, Goto, Seek, Saving
<1>0. flags[p] \subseteq Slots /\ at[p] \in 1 .. SlotCount + 1 /\ SlotCount \in Nat
  BY ConfigStoreAssumption DEF TypeOK
<1>1. CASE Load(p)
  <2>1. CASE file[DirOf[p]] = Unreadable
    BY <1>1, <2>1, BlankIsConfig, ConfigStoreAssumption DEF Load, Passwords, TypeOK, Texts
  <2>2. CASE file[DirOf[p]] # Unreadable
    <3>1. pc'[p] = "decrypt" /\ at'[p] = 1 /\ flags'[p] \subseteq Slots
      BY <1>1, <2>2, ConfigStoreAssumption DEF Load, TypeOK, Walk
    <3> QED
      BY <3>1, <1>0 DEF Passwords, Slots
  <2> QED
    BY <2>1, <2>2
<1>2. CASE SkipDecrypt(p)
  <2>1. /\ pc'[p] = "decrypt" /\ at'[p] = at[p] + 1 /\ flags'[p] = flags[p]
        /\ pc[p] = "decrypt" /\ config'[p] = config[p] /\ Untouched(p, config[p][at[p]])
    BY <1>2 DEF SkipDecrypt, TypeOK
  <2>2. ASSUME NEW s \in flags[p], s < at[p] + 1 PROVE config[p][s] \in Texts
    <3>1. CASE s = at[p]
      BY <2>1, <3>1 DEF Untouched, Texts
    <3>2. CASE s < at[p]
      BY <2>1, <3>2 DEF Passwords
    <3> QED
      BY <1>0, <2>2, <3>1, <3>2 DEF Slots
  <2> QED
    BY <2>1, <2>2 DEF Passwords
<1>3. CASE Decrypt(p)
  <2>1. CASE Opens(config[p][at[p]], at[p])
    <3>1. /\ pc'[p] = "decrypt" /\ at'[p] = at[p] + 1 /\ flags'[p] = flags[p]
          /\ pc[p] = "decrypt" /\ config'[p][at[p]] \in Texts
          /\ \A s \in Slots : s # at[p] => config'[p][s] = config[p][s]
      BY <1>3, <2>1, Opening, TextIsText DEF Decrypt, TypeOK
    <3>2. ASSUME NEW s \in flags[p], s < at[p] + 1 PROVE config'[p][s] \in Texts
      <4>1. CASE s = at[p]
        BY <3>1, <4>1
      <4>2. CASE s < at[p]
        BY <1>0, <3>1, <4>2 DEF Passwords
      <4> QED
        BY <1>0, <3>2, <4>1, <4>2 DEF Slots
    <3> QED
      BY <3>1, <3>2 DEF Passwords
  <2>2. CASE ~Opens(config[p][at[p]], at[p])
    BY <1>3, <2>2 DEF Decrypt, Passwords, TypeOK
  <2> QED
    BY <2>1, <2>2
<1>4. CASE Loaded(p)
  <2>1. \A s \in flags[p] : s < at[p]
    BY <1>0, <1>4 DEF Loaded, Slots
  <2> QED
    BY <1>4, <2>1 DEF Loaded, Passwords, TypeOK
<1>5. CASE Edit(p)
  BY <1>0, <1>5, Editing DEF Edit, Passwords
<1>6. CASE BeginSave(p)
  <2>1. /\ pc'[p] = "encrypt" /\ at'[p] = 1 /\ flags'[p] = flags[p]
        /\ config'[p] = config[p] /\ copy'[p] = config[p]
        /\ \A s \in flags[p] : config[p][s] \in Texts
    BY <1>6 DEF BeginSave, TypeOK, Walk, Passwords
  <2> QED
    BY <1>0, <2>1 DEF Passwords, Slots
<1>7. ASSUME at[p] \in Slots, pc[p] \in {"encrypt", "writeKey"},
             pc'[p] = "encrypt", at'[p] = at[p] + 1, flags'[p] = flags[p], config'[p] = config[p],
             at[p] \in flags[p] => copy'[p][at[p]].kind # "text",
             \A s \in Slots : s # at[p] => copy'[p][s] = copy[p][s]
      PROVE  Passwords(p)'
  <2>1. ASSUME NEW s \in flags[p]
        PROVE  IF s < at[p] + 1 THEN copy'[p][s].kind # "text" ELSE copy'[p][s] \in Texts
    <3>1. CASE s = at[p]
      BY <1>0, <1>7, <3>1
    <3>2. CASE s < at[p]
      <4>1. copy[p][s].kind # "text" /\ copy'[p][s] = copy[p][s]
        BY <1>0, <1>7, <3>2 DEF Passwords
      <4> QED
        BY <1>0, <3>2, <4>1 DEF Slots
    <3>3. CASE s > at[p]
      BY <1>0, <1>7, <3>3 DEF Passwords, Slots
    <3> QED
      BY <1>0, <3>1, <3>2, <3>3 DEF Slots
  <2> QED
    BY <1>7, <2>1 DEF Passwords
<1>8. CASE SkipEncrypt(p)
  <2>1. at[p] \in flags[p] => copy[p][at[p]].kind # "text"
    BY <1>8 DEF SkipEncrypt, Untouched, None
  <2> QED
    BY <1>7, <1>8, <2>1 DEF SkipEncrypt, TypeOK
<1>9. CASE Encrypt(p)
  <2>1. CASE key \in Procs /\ copy' = Encrypted(p, key) /\ pc' = pc
    BY <1>7, <1>9, <2>1, Sealing, CipherIsCipher DEF Encrypt, TypeOK
  <2>2. CASE UNCHANGED <<copy, at>>
    BY <1>9, <2>2 DEF Encrypt, Passwords, TypeOK
  <2> QED
    BY <1>9, <2>1, <2>2, ConfigStoreAssumption DEF Encrypt
<1>10. CASE CreateKey(p)
  BY <1>10 DEF CreateKey, Passwords, TypeOK
<1>11. CASE WriteKey(p)
  <2>1. at[p] \in Slots /\ ~Untouched(p, copy[p][at[p]])
    BY <1>11 DEF WriteKey, Walk
  <2> QED
    BY <1>7, <1>11, <2>1, Sealing, CipherIsCipher DEF WriteKey, TypeOK
<1>12. CASE TruncateConfig(p)
  <2>1. \A s \in flags[p] : s < at[p]
    BY <1>0, <1>12 DEF TruncateConfig, Slots
  <2> QED
    BY <1>12, <2>1 DEF TruncateConfig, Passwords, TypeOK
<1>13. CASE WriteConfig(p)
  BY <1>13 DEF WriteConfig, Passwords, TypeOK
<1>14. CASE Stop(p)
  BY <1>14 DEF Stop, Passwords, TypeOK
<1>15. CASE SaveFails(p)
  BY <1>15 DEF SaveFails, Passwords, TypeOK
<1> QED
  BY <1>1, <1>2, <1>3, <1>4, <1>5, <1>6, <1>8, <1>9, <1>10, <1>11, <1>12, <1>13, <1>14, <1>15 DEF Process

\* Encrypting a field of the copy does not change what the copy says.
LEMMA CopySteps ==
    ASSUME IInv, NEW p \in Procs, Process(p) PROVE CopyAgrees(p)'
<1> USE DEF IInv, Goto, Seek, Saving
<1>1. CASE BeginSave(p)
  BY <1>1 DEF BeginSave, CopyAgrees, TypeOK
<1>2. ASSUME NEW k \in Procs, copy' = Encrypted(p, k), pc[p] \in {"encrypt", "writeKey"},
             at[p] \in Slots, ~Untouched(p, copy[p][at[p]]), config' = config
      PROVE  CopyAgrees(p)'
  <2>1. Opened(copy'[p][at[p]]) = Opened(copy[p][at[p]])
    BY <1>2, Sealing, CipherIsCipher, TextIsText DEF Opened
  <2>2. \A s \in Slots : Opened(copy'[p][s]) = Opened(copy[p][s])
    BY <1>2, <2>1, Sealing
  <2> QED
    BY <1>2, <2>2 DEF CopyAgrees
<1>3. CASE Encrypt(p)
  <2>1. CASE copy' = Encrypted(p, key) /\ key \in Procs
    BY <1>2, <1>3, <2>1 DEF Encrypt
  <2>2. CASE UNCHANGED copy
    BY <1>3, <2>2 DEF Encrypt, CopyAgrees
  <2> QED
    BY <1>3, <2>1, <2>2 DEF Encrypt
<1>4. CASE WriteKey(p)
  BY <1>2, <1>4 DEF WriteKey, Walk
<1>5. CASE SkipEncrypt(p) \/ CreateKey(p) \/ TruncateConfig(p)
  BY <1>5 DEF SkipEncrypt, CreateKey, TruncateConfig, CopyAgrees, TypeOK
<1>6. CASE \/ Load(p) \/ SkipDecrypt(p) \/ Decrypt(p) \/ Loaded(p) \/ Edit(p)
           \/ WriteConfig(p) \/ SaveFails(p) \/ Stop(p)
  <2>1. pc'[p] \notin Saving
    BY <1>6 DEF Load, SkipDecrypt, Decrypt, Loaded, Edit, WriteConfig, SaveFails, Stop, TypeOK
  <2> QED
    BY <2>1 DEF CopyAgrees
<1> QED
  BY <1>1, <1>3, <1>4, <1>5, <1>6 DEF Process

\* The state before the first start.
LEMMA Initially == Init => IInv
<1> SUFFICES ASSUME Init PROVE IInv
  OBVIOUS
<1>1. TypeOK
  BY BlankIsConfig, ConfigStoreAssumption DEF Init, TypeOK
<1>2. KeyInv /\ \A p \in Procs : Walk(p) /\ Passwords(p) /\ CopyAgrees(p)
  BY DEF Init, KeyInv, Walk, Passwords, CopyAgrees, Saving
<1>3. CipherInv
  BY BlankIsConfig DEF Init, CipherInv, Decryptable, OpensAll, None
<1> QED
  BY <1>1, <1>2, <1>3 DEF IInv

\* A resource update changes nothing that the invariant speaks of.
LEMMA Invariant_Step == IInv /\ [Next]_vars => IInv'
<1> SUFFICES ASSUME IInv, [Next]_vars PROVE IInv'
  OBVIOUS
<1>1. TypeOK' /\ KeyInv' /\ CipherInv'
  BY TypeSteps, KeySteps, CipherSteps DEF IInv
<1>2. ASSUME NEW p \in Procs PROVE (Walk(p) /\ Passwords(p) /\ CopyAgrees(p))'
  <2>1. CASE Process(p)
    BY <2>1, WalkSteps, PasswordSteps, CopySteps
  <2>2. CASE ~Process(p)
    <3>1. /\ pc'[p] = pc[p] /\ at'[p] = at[p] /\ flags'[p] = flags[p]
          /\ config'[p] = config[p] /\ copy'[p] = copy[p]
      BY <2>2, Others DEF IInv, Next, vars, UpdateInterface
    <3> QED
      BY <3>1 DEF IInv, Walk, Passwords, CopyAgrees, Untouched
  <2> QED
    BY <2>1, <2>2
<1> QED
  BY <1>1, <1>2 DEF IInv

\* The invariant holds of every process, directory and field, whatever is
\* updated meanwhile (Configurator.cpp:158-244, SecretStore.cpp:300-443).
THEOREM Invariance == Spec => []IInv
<1> QED
  BY Initially, Invariant_Step, PTL DEF Spec

\* Every variable keeps the values the code can give it: a password that is
\* decrypted or encrypted is always a text or a payload, never both.
THEOREM TypeCorrect == Spec => []TypeOK
<1>1. IInv => TypeOK
  BY DEF IInv
<1> QED
  BY <1>1, Invariance, PTL

\* Whatever processes race and die, each ciphertext on disk opens with the key
\* on disk, in the field it is in (SecretStore.cpp:300-443).
THEOREM DecryptableAlways == Spec => []Decryptable
<1>1. IInv => Decryptable
  BY DEF IInv, CipherInv
<1> QED
  BY <1>1, Invariance, PTL

\* A master key that can be read is never replaced, and a torn one is completed
\* by the process that is writing it or never (SecretStore.cpp:326-391).
THEOREM KeyStays == Spec => KeyIsForever
<1>1. IInv /\ [Next]_vars =>
        [/\ key \in Procs => key' = key
         /\ key = "partial" => key' \in {"partial"} \cup {p \in Procs : pc[p] = "writeKey"}]_vars
  BY KeyMoves, ConfigStoreAssumption DEF IInv
<1> QED
  BY <1>1, Invariance, PTL DEF Spec, KeyIsForever

\* No save writes a password in the clear (Configurator.cpp:232-238).
THEOREM PasswordsSealed == Spec => NoBarePassword
<1>1. ASSUME IInv, [Next]_vars, NEW p \in Procs, WriteConfig(p), file'[DirOf[p]] # Unreadable,
             NEW s \in flags[p]
      PROVE  file'[DirOf[p]][s].kind # "text"
  <2>1. file'[DirOf[p]] = copy[p]
    BY <1>1, ConfigStoreAssumption DEF WriteConfig, IInv, TypeOK
  <2> QED
    BY <1>1, <2>1 DEF WriteConfig, IInv, Passwords
<1>2. IInv /\ [Next]_vars =>
        [\A p \in Procs : WriteConfig(p) /\ file'[DirOf[p]] # Unreadable =>
            \A s \in flags[p] : file'[DirOf[p]][s].kind # "text"]_vars
  BY <1>1
<1> QED
  BY <1>2, Invariance, PTL DEF Spec, NoBarePassword

-----------------------------------------------------------------------------
(* Without updates of the resource.                                         *)

\* What lies on disk is sealed exactly where interface.json says so, and every
\* process reads it so.
LEMMA StableSteps ==
    ASSUME ~InterfaceMayChange, IInv, StableInv, [Next]_vars PROVE StableInv'
<1> USE DEF IInv, Goto, Seek
<1>1. password' = password
  BY DEF Next, Process, vars, UpdateInterface, Load, SkipDecrypt, Decrypt, Loaded, Edit,
     BeginSave, SkipEncrypt, Encrypt, CreateKey, WriteKey, TruncateConfig, WriteConfig, SaveFails, Stop
<1>2. ASSUME NEW d \in Dirs, file'[d] # Unreadable PROVE SealedAsFlagged(file'[d], password[d])
  <2>1. ASSUME NEW p \in Procs, WriteConfig(p), DirOf[p] = d
        PROVE  SealedAsFlagged(copy[p], password[d])
    BY <2>1 DEF WriteConfig, StableInv, Stable, Passwords, SealedAsFlagged
  <2> QED
    BY <1>2, <2>1, FileMoves DEF StableInv
<1>3. ASSUME NEW p \in Procs, Process(p) PROVE Stable(p)'
  <2>1. flags'[p] = IF pc'[p] = "off" THEN {} ELSE password[DirOf[p]]
    BY <1>3 DEF StableInv, Stable, TypeOK, Process, Load, SkipDecrypt, Decrypt, Loaded, Edit,
       BeginSave, SkipEncrypt, Encrypt, CreateKey, WriteKey, TruncateConfig, WriteConfig, SaveFails, Stop
  <2>2. Load(p) \/ Stop(p) \/ flags'[p] = flags[p]
    BY <1>3 DEF Process, SkipDecrypt, Decrypt, Loaded, Edit,
       BeginSave, SkipEncrypt, Encrypt, CreateKey, WriteKey, TruncateConfig, WriteConfig, SaveFails
  <2>3. ASSUME NEW s \in Slots, s \notin flags'[p]
        PROVE  config'[p][s].kind # "cipher" /\ copy'[p][s].kind # "cipher"
    <3>1. CASE Load(p)
      <4>1. flags[p] = {} /\ flags'[p] = password[DirOf[p]] /\ copy' = copy
        BY <3>1 DEF Load, StableInv, Stable, TypeOK
      <4>2. \/ config'[p][s] = None
            \/ file[DirOf[p]] # Unreadable /\ config'[p][s] = file[DirOf[p]][s]
        BY <3>1, BlankIsConfig DEF Load, TypeOK
      <4> QED
        BY <2>3, <4>1, <4>2, ConfigStoreAssumption DEF StableInv, Stable, SealedAsFlagged, None
    <3>2. CASE Stop(p)
      BY <3>2, BlankIsConfig DEF Stop, TypeOK, None
    <3>3. CASE flags'[p] = flags[p] /\ ~Load(p)
      BY <1>3, <2>3, <3>3, ConfigMoves, CopyMoves, TextFacts DEF StableInv, Stable
    <3> QED
      BY <2>2, <3>1, <3>2, <3>3
  <2>4. ASSUME pc'[p] = "decrypt", NEW s \in flags'[p], s >= at'[p]
        PROVE  config'[p][s].kind # "text"
    <3>1. CASE Load(p)
      BY <2>4, <3>1, ConfigStoreAssumption DEF Load, StableInv, SealedAsFlagged, TypeOK
    <3>2. CASE SkipDecrypt(p)
      BY <2>4, <3>2 DEF SkipDecrypt, StableInv, Stable, TypeOK, Slots
    <3>3. CASE Decrypt(p)
      <4>1. /\ pc[p] = "decrypt" /\ at[p] \in Slots /\ s \in flags[p] /\ s \in Slots
            /\ Opens(config[p][at[p]], at[p]) /\ at'[p] = at[p] + 1
        BY <2>4, <3>3 DEF Decrypt, TypeOK
      <4>2. s # at[p] /\ s >= at[p]
        BY <2>4, <4>1 DEF Slots
      <4> QED
        BY <3>3, <4>1, <4>2, Opening DEF StableInv, Stable
    <3> QED
      BY <1>3, <2>4, <3>1, <3>2, <3>3 DEF Process, Loaded, Edit, BeginSave, SkipEncrypt, Encrypt,
         CreateKey, WriteKey, TruncateConfig, WriteConfig, SaveFails, Stop, TypeOK
  <2>5. pc'[p] # "refused"
    <3>1. CASE Decrypt(p)
      <4>1. /\ pc[p] = "decrypt" /\ at[p] \in Slots /\ at[p] \in flags[p]
            /\ config[p][at[p]] # None /\ config[p][at[p]] \in Strings
        BY <3>1 DEF Decrypt, Untouched, TypeOK, Configs
      <4>2. config[p][at[p]].kind # "text"
        BY <4>1 DEF StableInv, Stable, Slots
      <4>3. config[p][at[p]].kind = "cipher"
        BY <4>1, <4>2, StringFacts, TextFacts
      <4> QED
        BY <3>1, <4>1, <4>3 DEF Decrypt, CipherInv, OpensAll
    <3> QED
      BY <1>3, <3>1 DEF StableInv, Stable, TypeOK, Process, Load, SkipDecrypt, Loaded, Edit,
         BeginSave, SkipEncrypt, Encrypt, CreateKey, WriteKey, TruncateConfig, WriteConfig, SaveFails, Stop
  <2> QED
    BY <1>1, <2>1, <2>3, <2>4, <2>5 DEF Stable
<1>4. ASSUME NEW p \in Procs, ~Process(p) PROVE Stable(p)'
  <2>1. /\ pc'[p] = pc[p] /\ at'[p] = at[p] /\ flags'[p] = flags[p]
        /\ config'[p] = config[p] /\ copy'[p] = copy[p]
    BY <1>4, Others DEF Next, vars, UpdateInterface
  <2> QED
    BY <1>1, <2>1 DEF StableInv, Stable
<1> QED
  BY <1>1, <1>2, <1>3, <1>4 DEF StableInv

\* The program starts in the invariant of an unchanged interface.json.
LEMMA StableInitially == Init => StableInv
BY BlankIsConfig DEF Init, StableInv, Stable, None

\* As long as interface.json stays as it is, the fields of every file are
\* sealed where it says so, and every process knows which.
THEOREM StableInvariance == ASSUME ~InterfaceMayChange PROVE Spec => []StableInv
<1>1. IInv /\ StableInv /\ [Next]_vars => StableInv'
  BY StableSteps
<1> QED
  BY <1>1, StableInitially, Invariance, PTL DEF Spec

\* As long as interface.json stays as it is, no start is refused for a value
\* the program has written itself (Configurator.cpp:199-207).
THEOREM StartsAreNotRefused == ASSUME ~InterfaceMayChange PROVE Spec => []NeverRefused
<1>1. StableInv => NeverRefused
  BY DEF StableInv, Stable, NeverRefused
<1> QED
  BY <1>1, StableInvariance, PTL

\* As long as interface.json stays as it is, the menus and the tasks never see
\* a ciphertext.
THEOREM MenusAreClear == ASSUME ~InterfaceMayChange PROVE Spec => []MenuIsClear
<1>1. ASSUME IInv, StableInv, NEW p \in Procs, pc[p] = "menu", NEW s \in Slots
      PROVE  config[p][s] \in Texts
  <2>1. CASE s \in flags[p]
    BY <1>1, <2>1 DEF IInv, Passwords
  <2>2. CASE s \notin flags[p]
    <3>1. config[p][s] \in Strings /\ config[p][s].kind # "cipher"
      BY <1>1, <2>2 DEF IInv, TypeOK, Configs, StableInv, Stable
    <3> QED
      BY <3>1, StringFacts
  <2> QED
    BY <2>1, <2>2
<1>2. IInv /\ StableInv => MenuIsClear
  BY <1>1 DEF MenuIsClear
<1> QED
  BY <1>2, Invariance, StableInvariance, PTL

-----------------------------------------------------------------------------
(* A store in the clear.                                                    *)

\* What the files and the processes hold, without a word of keys.
OpenedConfig(c) == [s \in Slots |-> Opened(c[s])]
InTheClear(f)   == [d \in Dirs |-> IF f[d] = Unreadable THEN Unreadable ELSE OpenedConfig(f[d])]

\* Everything opens, so what a string stands for is what is in it.
LEMMA ClearIsOpened ==
    ASSUME NEW x \in Strings, NEW s \in Slots, x.kind = "cipher" => Opens(x, s)
    PROVE  Clear(x, s) = Opened(x) /\ Opened(x) \in Texts
BY CipherFacts, StringFacts, TextIsText DEF Clear, Opened

\* Everything on disk and in memory opens: that is what is stored, and held.
LEMMA Mapped ==
    IInv => Stored = InTheClear(file) /\ Holds = [p \in Procs |-> OpenedConfig(config[p])]
<1> SUFFICES ASSUME IInv
    PROVE  Stored = InTheClear(file) /\ Holds = [p \in Procs |-> OpenedConfig(config[p])]
  OBVIOUS
<1> USE DEF IInv, TypeOK, CipherInv, ClearConfig, OpenedConfig
<1>1. ASSUME NEW p \in Procs PROVE ClearConfig(config[p]) = OpenedConfig(config[p])
  BY ClearIsOpened DEF OpensAll, Configs
<1>2. ASSUME NEW d \in Dirs, file[d] # Unreadable PROVE ClearConfig(file[d]) = OpenedConfig(file[d])
  BY <1>2, ClearIsOpened DEF Decryptable, Configs
<1> HIDE DEF ClearConfig, OpenedConfig
<1> QED
  BY <1>1, <1>2 DEF Stored, Holds, InTheClear

\* The next mapped state, key or no key in between.
LEMMA MappedNext ==
    (IInv => Stored = InTheClear(file) /\ Holds = [p \in Procs |-> OpenedConfig(config[p])])'
BY Mapped, PTL

\* No file nor process is changed, and none starts or ends: nothing happens.
LEMMA Stutter ==
    ASSUME IInv, IInv', file' = file, Running' = Running,
           \A q \in Procs : OpenedConfig(config'[q]) = OpenedConfig(config[q])
    PROVE  UNCHANGED Plain!vars
BY Mapped, MappedNext DEF Plain!vars

\* A start reads what is stored.
LEMMA LoadIsOpen ==
    ASSUME IInv, IInv', NEW p \in Procs, Load(p) PROVE Plain!Open(p)
<1>1. DirOf[p] \in Dirs /\ Unreadable \notin Configs
  BY ConfigStoreAssumption, UnreadableAssumption
<1>2. p \notin Running /\ Running' = Running \cup {p}
  BY DEF Running, Load, Goto, IInv, TypeOK
<1>3. Stored' = Stored
  BY Mapped, MappedNext DEF Load
<1>4. Holds' = [Holds EXCEPT ![p] = OpenedConfig(config'[p])]
  BY Mapped, MappedNext DEF Load, IInv, TypeOK
<1>5. OpenedConfig(config'[p]) = IF Stored[DirOf[p]] = Unreadable THEN Blank ELSE Stored[DirOf[p]]
  <2>1. CASE file[DirOf[p]] = Unreadable
    <3>1. OpenedConfig(Blank) = Blank
      BY DEF OpenedConfig, Opened, Blank, None
    <3> QED
      BY <1>1, <2>1, <3>1, Mapped DEF Load, IInv, TypeOK, InTheClear
  <2>2. CASE file[DirOf[p]] # Unreadable
    <3>1. file[DirOf[p]] \in [Slots -> Strings]
      BY <1>1, <2>2 DEF IInv, TypeOK, Configs
    <3>2. \A s \in Slots : Opened(file[DirOf[p]][s]) \in Strings
      BY <1>1, <2>2, <3>1, ClearIsOpened, TextFacts DEF IInv, CipherInv, Decryptable
    <3>3. OpenedConfig(file[DirOf[p]]) # Unreadable
      BY <1>1, <3>2 DEF OpenedConfig, Configs
    <3> QED
      BY <1>1, <2>2, <3>3, Mapped DEF Load, IInv, TypeOK, InTheClear
  <2> QED
    BY <2>1, <2>2
<1> QED
  BY <1>2, <1>3, <1>4, <1>5 DEF Plain!Open

\* The user changes what the process holds.
LEMMA EditIsEdit ==
    ASSUME IInv, IInv', NEW p \in Procs, Edit(p) PROVE Plain!Edit(p)
<1>1. OpenedConfig(config'[p]) \in [Slots -> Texts]
  <2>1. \A s \in Slots : Opened(config[p][s]) \in Texts
    BY ClearIsOpened DEF IInv, TypeOK, Configs, CipherInv, OpensAll
  <2>2. \A t \in Texts : Opened(t) = t
    BY TextFacts DEF Opened
  <2> QED
    BY <2>1, <2>2, Editing DEF IInv, OpenedConfig
<1>2. Holds' = [Holds EXCEPT ![p] = OpenedConfig(config'[p])]
  BY Mapped, MappedNext, Editing DEF IInv
<1>3. Stored' = Stored /\ Running' = Running /\ p \in Running
  BY Mapped, MappedNext DEF Edit, Running
<1> QED
  BY <1>1, <1>2, <1>3 DEF Plain!Edit

\* Between truncation and the end of the write there is nothing readable; what
\* is then read is what the process holds.
LEMMA SaveIsStore ==
    ASSUME IInv, IInv', NEW p \in Procs, TruncateConfig(p) \/ WriteConfig(p) PROVE Plain!Store(p)
<1>1. p \in Running /\ Running' = Running /\ Holds' = Holds
  <2>1. p \in Running /\ Running' = Running
    BY DEF TruncateConfig, WriteConfig, Goto, Running, IInv, TypeOK
  <2>2. config' = config
    BY DEF TruncateConfig, WriteConfig
  <2> QED
    BY <2>1, <2>2, Mapped, MappedNext
<1>2. PICK c \in {copy[p], Unreadable} :
        /\ file' = [file EXCEPT ![DirOf[p]] = c]
        /\ c = copy[p] => pc[p] = "write" \/ c = Unreadable
  BY DEF TruncateConfig, WriteConfig
<1>3. copy[p] # Unreadable
  BY UnreadableAssumption DEF IInv, TypeOK
<1>4. CASE c = Unreadable
  <2>1. Stored' = [Stored EXCEPT ![DirOf[p]] = Unreadable]
    BY <1>2, <1>4, Mapped, MappedNext DEF InTheClear, IInv, TypeOK
  <2> QED
    BY <1>1, <2>1 DEF Plain!Store
<1>5. CASE c = copy[p]
  <2>1. OpenedConfig(copy[p]) = OpenedConfig(config[p])
    BY <1>2, <1>3, <1>5 DEF OpenedConfig, IInv, CopyAgrees, Saving
  <2>2. Stored' = [Stored EXCEPT ![DirOf[p]] = OpenedConfig(config[p])]
    BY <1>2, <1>3, <1>5, <2>1, Mapped, MappedNext DEF InTheClear, IInv, TypeOK
  <2>3. Holds[p] = OpenedConfig(config[p])
    BY Mapped
  <2> QED
    BY <1>1, <2>2, <2>3 DEF Plain!Store
<1> QED
  BY <1>2, <1>4, <1>5

\* The user leaves, or the process dies.
LEMMA StopIsClose ==
    ASSUME IInv, IInv', NEW p \in Procs, Stop(p) PROVE Plain!Close(p)
<1>1. OpenedConfig(Blank) = Blank
  BY DEF OpenedConfig, Opened, Blank, None
<1>2. Holds' = [Holds EXCEPT ![p] = Blank]
  BY <1>1, Mapped, MappedNext DEF Stop, IInv, TypeOK
<1>3. Stored' = Stored
  BY Mapped, MappedNext DEF Stop
<1>4. p \in Running /\ Running' = Running \ {p}
  BY DEF Stop, Goto, Running, IInv, TypeOK
<1> QED
  BY <1>2, <1>3, <1>4 DEF Plain!Close

\* Opening one password does not change what the process holds.
LEMMA DecryptStutters ==
    ASSUME IInv, IInv', NEW p \in Procs, Decrypt(p) PROVE UNCHANGED Plain!vars
<1>1. file' = file /\ Running' = Running
  BY DEF Decrypt, Goto, Running, IInv, TypeOK
<1>2. CASE Opens(config[p][at[p]], at[p])
  <2>1. Opened(config'[p][at[p]]) = Opened(config[p][at[p]])
    BY <1>2, Opening, TextIsText DEF Opened, Opens, IInv
  <2>2. \A q \in Procs, s \in Slots : Opened(config'[q][s]) = Opened(config[q][s])
    BY <1>2, <2>1, Opening DEF IInv
  <2> QED
    BY <1>1, <2>2, Stutter DEF OpenedConfig
<1>3. CASE ~Opens(config[p][at[p]], at[p])
  BY <1>1, <1>3, Stutter DEF Decrypt
<1> QED
  BY <1>2, <1>3

\* The other steps are between the key file and the process's own memory.
LEMMA OthersStutter ==
    ASSUME IInv, IInv', NEW p \in Procs,
           \/ SkipDecrypt(p) \/ Loaded(p) \/ BeginSave(p) \/ SkipEncrypt(p)
           \/ Encrypt(p) \/ CreateKey(p) \/ WriteKey(p) \/ SaveFails(p)
    PROVE  UNCHANGED Plain!vars
<1>1. file' = file /\ config' = config
  BY DEF SkipDecrypt, Loaded, BeginSave, SkipEncrypt, Encrypt, CreateKey, WriteKey, SaveFails
<1>2. Running' = Running
  BY DEF SkipDecrypt, Loaded, BeginSave, SkipEncrypt, Encrypt, CreateKey, WriteKey, SaveFails,
     Goto, Running, IInv, TypeOK
<1> QED
  BY <1>1, <1>2, Stutter

\* Keys, ciphertexts and their races, even a resource that is updated
\* meanwhile, are invisible to who only loads and saves.
THEOREM StoreIsPlain == Spec => IsPlainStore
<1>1. Init => Plain!Init
  <2> SUFFICES ASSUME Init PROVE Plain!Init
    OBVIOUS
  <2>1. Holds = [p \in Procs |-> Blank]
    BY Initially, Mapped DEF Init, OpenedConfig, Opened, Blank, None
  <2>2. Stored = [d \in Dirs |-> Unreadable] /\ Running = {}
    BY DEF Init, Stored, Running
  <2> QED
    BY <2>1, <2>2 DEF Plain!Init
<1>2. IInv /\ IInv' /\ [Next]_vars => [Plain!Next]_(Plain!vars)
  <2> SUFFICES ASSUME IInv, IInv', [Next]_vars PROVE Plain!Next \/ UNCHANGED Plain!vars
    OBVIOUS
  <2>1. ASSUME NEW p \in Procs, Process(p) PROVE Plain!Next \/ UNCHANGED Plain!vars
    BY <2>1, LoadIsOpen, EditIsEdit, SaveIsStore, StopIsClose, DecryptStutters, OthersStutter
    DEF Process, Plain!Next
  <2>2. CASE (\E d \in Dirs : UpdateInterface(d)) \/ UNCHANGED vars
    BY <2>2, Stutter DEF UpdateInterface, vars, Running
  <2> QED
    BY <2>1, <2>2 DEF Next
<1> QED
  BY <1>1, <1>2, Invariance, PTL DEF Spec, IsPlainStore, Plain!Spec
=============================================================================
