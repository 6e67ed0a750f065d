--------------------------- MODULE KeychainProofs ---------------------------
(***************************************************************************)
(* The file of an item: what is written to it is read back as it was, in   *)
(* both directions, for any contents, however long, any number of apps and *)
(* any clock.  The stored times advance with each save, unless they come   *)
(* to the limit of timestamps.                                             *)
(*                                                                         *)
(* The files with the master key: their types, and that a vault has one    *)
(* master key.  The invariant that is inductive adds that there is no key  *)
(* unless all folders exist: that is how a command that comes second       *)
(* notices the first.                                                      *)
(***************************************************************************)
EXTENDS Keychain, TLAPS

-----------------------------------------------------------------------------
(* A sequence is the function of its elements.                            *)
LEMMA ElementsOfSequence == ASSUME NEW S, NEW s \in Seq(S) PROVE s = [i \in 1 .. Len(s) |-> s[i]]
OBVIOUS

(* BiDiMap: a code that is in the map is found again from its key, and a   *)
(* key from its code if the codes are different.                           *)
LEMMA CodesRoundTrip ==
    ASSUME NEW map, NEW code \in Codes(map)
    PROVE Get2(map, code) \in DOMAIN map /\ Get(map, Get2(map, code)) = code
<1>1. PICK key \in DOMAIN map : map[key] = code
  BY DEF Codes
<1>2. Get2(map, code) = CHOOSE k \in DOMAIN map : map[k] = code
  BY DEF Get2
<1>3. Get2(map, code) \in DOMAIN map /\ map[Get2(map, code)] = code
  BY <1>1, <1>2
<1> QED
  BY <1>3 DEF Get

LEMMA KeysRoundTrip ==
    ASSUME NEW map, NEW key \in DOMAIN map,
           \A k \in DOMAIN map : map[k] = map[key] => k = key
    PROVE Get(map, key) \in Codes(map) /\ Get2(map, Get(map, key)) = key
<1>1. Get(map, key) = map[key] /\ map[key] \in Codes(map)
  BY DEF Get, Codes
<1>2. Get2(map, map[key]) = CHOOSE k \in DOMAIN map : map[k] = map[key]
  BY <1>1 DEF Get2
<1> QED
  BY <1>1, <1>2

LEMMA MapsAreInjective ==
    /\ DOMAIN fieldKindMap = FieldType
    /\ \A k, l \in FieldType : fieldKindMap[k] = fieldKindMap[l] => k = l
    /\ DOMAIN fieldTypeCodeMap = FormFieldType
    /\ \A k, l \in FormFieldType : fieldTypeCodeMap[k] = fieldTypeCodeMap[l] => k = l
<1>1. DOMAIN fieldKindMap = FieldType
  BY DEF fieldKindMap, FieldType
<1>2. \A k, l \in FieldType : fieldKindMap[k] = fieldKindMap[l] => k = l
  BY DEF fieldKindMap, FieldType
<1>3. DOMAIN fieldTypeCodeMap = FormFieldType
  BY DEF fieldTypeCodeMap, FormFieldType
<1>4. \A k, l \in FormFieldType : fieldTypeCodeMap[k] = fieldTypeCodeMap[l] => k = l
  BY DEF fieldTypeCodeMap, FormFieldType
<1> QED
  BY <1>1, <1>2, <1>3, <1>4

-----------------------------------------------------------------------------
(* What other clients write is written again as it was read.               *)
LEMMA FieldIsRewritten ==
    ASSUME NEW f \in KeychainField
    PROVE fromAgileKeychainField(f) \in Field
          /\ toAgileKeychainField(fromAgileKeychainField(f)) = f
<1>1. Get2(fieldKindMap, f.k) \in FieldType /\ Get(fieldKindMap, Get2(fieldKindMap, f.k)) = f.k
  BY CodesRoundTrip, MapsAreInjective DEF KeychainField
<1> QED
  BY <1>1 DEF KeychainField, Field, fromAgileKeychainField, toAgileKeychainField

LEMMA FormFieldIsRewritten ==
    ASSUME NEW f \in KeychainFormField
    PROVE fromAgileKeychainFormField(f) \in FormField
          /\ toAgileKeychainFormField(fromAgileKeychainFormField(f)) = f
<1>1. /\ Get2(fieldTypeCodeMap, f.type) \in FormFieldType
      /\ Get(fieldTypeCodeMap, Get2(fieldTypeCodeMap, f.type)) = f.type
  BY CodesRoundTrip, MapsAreInjective DEF KeychainFormField
<1> QED
  BY <1>1 DEF KeychainFormField, FormField, fromAgileKeychainFormField, toAgileKeychainFormField

LEMMA SectionIsRewritten ==
    ASSUME NEW s \in KeychainSection
    PROVE fromAgileKeychainSection(s) \in Section
          /\ toAgileKeychainSection(fromAgileKeychainSection(s)) = s
<1> DEFINE read == fromAgileKeychainSection(s)
<1>1. s.fields \in Seq(KeychainField) /\ s.title \in Texts /\ Len(s.fields) \in Nat
  BY DEF KeychainSection
<1>2. \A i \in 1 .. Len(s.fields) : s.fields[i] \in KeychainField
  BY <1>1
<1>3. /\ read.title = s.title
      /\ read.fields = [i \in 1 .. Len(s.fields) |-> fromAgileKeychainField(s.fields[i])]
  BY DEF fromAgileKeychainSection
<1>4. read.fields \in Seq(Field) /\ Len(read.fields) = Len(s.fields)
  BY <1>1, <1>2, <1>3, FieldIsRewritten
<1>5. \A i \in 1 .. Len(s.fields) : toAgileKeychainField(read.fields[i]) = s.fields[i]
  BY <1>2, <1>3, FieldIsRewritten
<1>6. toAgileKeychainSection(read).fields = s.fields
  BY <1>1, <1>4, <1>5 DEF toAgileKeychainSection
<1> QED
  BY <1>1, <1>3, <1>4, <1>6 DEF KeychainSection, Section, fromAgileKeychainSection, toAgileKeychainSection

(* The content that a client has written is one the program can have, and  *)
(* it is written again as it was (agile_keychain.ts 158-281).              *)
THEOREM ContentIsRewritten ==
    ASSUME NEW k \in KeychainContent
    PROVE fromAgileKeychainContent(k) \in Content
          /\ toAgileKeychainContent(fromAgileKeychainContent(k)) = k
<1> DEFINE read == fromAgileKeychainContent(k)
<1>1. /\ k.sections \in Seq(KeychainSection) /\ k.fields \in Seq(KeychainFormField)
      /\ k.URLs \in Seq(Texts) /\ k.notesPlain \in Texts /\ k.html \in Texts
      /\ Len(k.sections) \in Nat /\ Len(k.fields) \in Nat
  BY DEF KeychainContent
<1>2. /\ \A i \in 1 .. Len(k.sections) : k.sections[i] \in KeychainSection
      /\ \A i \in 1 .. Len(k.fields) : k.fields[i] \in KeychainFormField
  BY <1>1
<1>3. /\ read.urls = k.URLs /\ read.notes = k.notesPlain /\ read.html = k.html
      /\ read.sections = [i \in 1 .. Len(k.sections) |-> fromAgileKeychainSection(k.sections[i])]
      /\ read.formFields = [i \in 1 .. Len(k.fields) |-> fromAgileKeychainFormField(k.fields[i])]
  BY DEF fromAgileKeychainContent
<1>4. read.sections \in Seq(Section) /\ Len(read.sections) = Len(k.sections)
  BY <1>1, <1>2, <1>3, SectionIsRewritten
<1>5. read.formFields \in Seq(FormField) /\ Len(read.formFields) = Len(k.fields)
  BY <1>1, <1>2, <1>3, FormFieldIsRewritten
<1>6. read \in Content
  BY <1>1, <1>3, <1>4, <1>5 DEF Content, fromAgileKeychainContent
<1>7. \A i \in 1 .. Len(k.sections) : toAgileKeychainSection(read.sections[i]) = k.sections[i]
  BY <1>2, <1>3, SectionIsRewritten
<1>8. toAgileKeychainContent(read).sections = k.sections
  <2>1. toAgileKeychainContent(read).sections
          = [i \in 1 .. Len(read.sections) |-> toAgileKeychainSection(read.sections[i])]
    BY DEF toAgileKeychainContent
  <2>2. toAgileKeychainContent(read).sections = [i \in 1 .. Len(k.sections) |-> k.sections[i]]
    BY <1>4, <1>7, <2>1
  <2>3. k.sections = [i \in 1 .. Len(k.sections) |-> k.sections[i]]
    BY <1>1, ElementsOfSequence
  <2> QED
    BY <2>2, <2>3
<1>9. \A i \in 1 .. Len(k.fields) : toAgileKeychainFormField(read.formFields[i]) = k.fields[i]
  BY <1>2, <1>3, FormFieldIsRewritten
<1>10. toAgileKeychainContent(read).fields = k.fields
  <2>1. toAgileKeychainContent(read).fields
          = [i \in 1 .. Len(read.formFields) |-> toAgileKeychainFormField(read.formFields[i])]
    BY DEF toAgileKeychainContent
  <2>2. toAgileKeychainContent(read).fields = [i \in 1 .. Len(k.fields) |-> k.fields[i]]
    BY <1>5, <1>9, <2>1
  <2>3. k.fields = [i \in 1 .. Len(k.fields) |-> k.fields[i]]
    BY <1>1, ElementsOfSequence
  <2> QED
    BY <2>2, <2>3
<1> HIDE DEF read
<1>11. toAgileKeychainContent(read) = k
  BY <1>3, <1>8, <1>10 DEF KeychainContent, toAgileKeychainContent
<1> QED
  BY <1>6, <1>11 DEF read

-----------------------------------------------------------------------------
(* What the program writes is read again as it was.                        *)
LEMMA FieldIsReadBack ==
    ASSUME NEW f \in Field
    PROVE toAgileKeychainField(f) \in KeychainField
          /\ fromAgileKeychainField(toAgileKeychainField(f)) = f
<1>1. f.kind \in FieldType
  BY DEF Field
<1>2. \A l \in DOMAIN fieldKindMap : fieldKindMap[l] = fieldKindMap[f.kind] => l = f.kind
  BY <1>1, MapsAreInjective
<1>3. /\ Get(fieldKindMap, f.kind) \in Codes(fieldKindMap)
      /\ Get2(fieldKindMap, Get(fieldKindMap, f.kind)) = f.kind
  BY <1>1, <1>2, KeysRoundTrip, MapsAreInjective
<1> QED
  BY <1>3 DEF KeychainField, Field, fromAgileKeychainField, toAgileKeychainField

LEMMA FormFieldIsReadBack ==
    ASSUME NEW f \in FormField
    PROVE toAgileKeychainFormField(f) \in KeychainFormField
          /\ fromAgileKeychainFormField(toAgileKeychainFormField(f)) = f
<1>1. f.type \in FormFieldType
  BY DEF FormField
<1>2. \A l \in DOMAIN fieldTypeCodeMap : fieldTypeCodeMap[l] = fieldTypeCodeMap[f.type] => l = f.type
  BY <1>1, MapsAreInjective
<1>3. /\ Get(fieldTypeCodeMap, f.type) \in Codes(fieldTypeCodeMap)
      /\ Get2(fieldTypeCodeMap, Get(fieldTypeCodeMap, f.type)) = f.type
  BY <1>1, <1>2, KeysRoundTrip, MapsAreInjective
<1> QED
  BY <1>3 DEF KeychainFormField, FormField, fromAgileKeychainFormField, toAgileKeychainFormField

LEMMA SectionIsReadBack ==
    ASSUME NEW s \in Section
    PROVE toAgileKeychainSection(s) \in KeychainSection
          /\ fromAgileKeychainSection(toAgileKeychainSection(s)) = s
<1> DEFINE written == toAgileKeychainSection(s)
<1>1. s.fields \in Seq(Field) /\ s.title \in Texts /\ Len(s.fields) \in Nat
  BY DEF Section
<1>2. \A i \in 1 .. Len(s.fields) : s.fields[i] \in Field
  BY <1>1
<1>3. /\ written.title = s.title
      /\ written.fields = [i \in 1 .. Len(s.fields) |-> toAgileKeychainField(s.fields[i])]
  BY DEF toAgileKeychainSection
<1>4. written.fields \in Seq(KeychainField) /\ Len(written.fields) = Len(s.fields)
  BY <1>1, <1>2, <1>3, FieldIsReadBack
<1>5. \A i \in 1 .. Len(s.fields) : fromAgileKeychainField(written.fields[i]) = s.fields[i]
  BY <1>2, <1>3, FieldIsReadBack
<1>6. fromAgileKeychainSection(written).fields = s.fields
  BY <1>1, <1>4, <1>5 DEF fromAgileKeychainSection
<1> QED
  BY <1>1, <1>3, <1>4, <1>6 DEF KeychainSection, Section, fromAgileKeychainSection, toAgileKeychainSection

(* The content that the program writes is read by any client as it was     *)
(* entered (agile_keychain.ts 158-281).                                    *)
THEOREM ContentIsReadBack ==
    ASSUME NEW c \in Content
    PROVE toAgileKeychainContent(c) \in KeychainContent
          /\ fromAgileKeychainContent(toAgileKeychainContent(c)) = c
<1> DEFINE written == toAgileKeychainContent(c)
<1>1. /\ c.sections \in Seq(Section) /\ c.formFields \in Seq(FormField)
      /\ c.urls \in Seq(Texts) /\ c.notes \in Texts /\ c.html \in Texts
      /\ Len(c.sections) \in Nat /\ Len(c.formFields) \in Nat
  BY DEF Content
<1>2. /\ \A i \in 1 .. Len(c.sections) : c.sections[i] \in Section
      /\ \A i \in 1 .. Len(c.formFields) : c.formFields[i] \in FormField
  BY <1>1
<1>3. /\ written.URLs = c.urls /\ written.notesPlain = c.notes /\ written.html = c.html
      /\ written.sections = [i \in 1 .. Len(c.sections) |-> toAgileKeychainSection(c.sections[i])]
      /\ written.fields = [i \in 1 .. Len(c.formFields) |-> toAgileKeychainFormField(c.formFields[i])]
  BY DEF toAgileKeychainContent
<1>4. written.sections \in Seq(KeychainSection) /\ Len(written.sections) = Len(c.sections)
  BY <1>1, <1>2, <1>3, SectionIsReadBack
<1>5. written.fields \in Seq(KeychainFormField) /\ Len(written.fields) = Len(c.formFields)
  BY <1>1, <1>2, <1>3, FormFieldIsReadBack
<1>6. written \in KeychainContent
  BY <1>1, <1>3, <1>4, <1>5 DEF KeychainContent, toAgileKeychainContent
<1>7. \A i \in 1 .. Len(c.sections) : fromAgileKeychainSection(written.sections[i]) = c.sections[i]
  BY <1>2, <1>3, SectionIsReadBack
<1>8. fromAgileKeychainContent(written).sections = c.sections
  <2>1. fromAgileKeychainContent(written).sections
          = [i \in 1 .. Len(written.sections) |-> fromAgileKeychainSection(written.sections[i])]
    BY DEF fromAgileKeychainContent
  <2>2. fromAgileKeychainContent(written).sections = [i \in 1 .. Len(c.sections) |-> c.sections[i]]
    BY <1>4, <1>7, <2>1
  <2>3. c.sections = [i \in 1 .. Len(c.sections) |-> c.sections[i]]
    BY <1>1, ElementsOfSequence
  <2> QED
    BY <2>2, <2>3
<1>9. \A i \in 1 .. Len(c.formFields) : fromAgileKeychainFormField(written.fields[i]) = c.formFields[i]
  BY <1>2, <1>3, FormFieldIsReadBack
<1>10. fromAgileKeychainContent(written).formFields = c.formFields
  <2>1. fromAgileKeychainContent(written).formFields
          = [i \in 1 .. Len(written.fields) |-> fromAgileKeychainFormField(written.fields[i])]
    BY DEF fromAgileKeychainContent
  <2>2. fromAgileKeychainContent(written).formFields = [i \in 1 .. Len(c.formFields) |-> c.formFields[i]]
    BY <1>5, <1>9, <2>1
  <2>3. c.formFields = [i \in 1 .. Len(c.formFields) |-> c.formFields[i]]
    BY <1>1, ElementsOfSequence
  <2> QED
    BY <2>2, <2>3
<1> HIDE DEF written
<1>11. fromAgileKeychainContent(written) = c
  BY <1>3, <1>8, <1>10 DEF Content, fromAgileKeychainContent
<1> QED
  BY <1>6, <1>11 DEF written

-----------------------------------------------------------------------------
(* The inductive invariant: the contents that are around can be written,   *)
(* and an app that is about to write has an overview that shows what it    *)
(* writes, which is what it has read of the file unless it has a content   *)
(* of its own.                                                             *)
ObjectFields == {"revision", "updatedAt", "folder", "trashed", "locations", "account", "content",
                 "saving", "asked"}

FileInv == file.content \in KeychainContent /\ file.revision \in Nat

ObjectInv(o) ==
    LET item == objects[o] IN
    /\ DOMAIN item = ObjectFields
    /\ item.content # <<>> => Head(item.content) \in Content
    /\ item.saving # <<>> =>
          LET saving == Head(item.saving) IN
          /\ saving.content \in Content /\ saving.read \in Nat /\ saving.read <= file.revision
          /\ item.locations = saving.content.urls /\ item.account = Account(saving.content)
          /\ item.content = <<>> /\ saving.read = file.revision =>
                saving.content = fromAgileKeychainContent(file.content)

IInv ==
    /\ FileInv
    /\ DOMAIN objects = Apps
    /\ \A o \in Apps : ObjectInv(o)

LEMMA LoadedObjects ==
    ASSUME NEW f
    PROVE /\ DOMAIN fromAgileKeychainItem(f) = ObjectFields
          /\ fromAgileKeychainItem(f).content = <<>> /\ fromAgileKeychainItem(f).saving = <<>>
BY DEF fromAgileKeychainItem, ObjectFields

LEMMA InitIInv == Init => IInv
<1> SUFFICES ASSUME Init PROVE IInv
  OBVIOUS
<1>1. FileInv
  BY ContentsAssumption DEF Init, FileInv
<1>2. objects = [o \in Apps |-> fromAgileKeychainItem(file)]
  BY DEF Init
<1> QED
  BY <1>1, <1>2, LoadedObjects DEF IInv, ObjectInv

(* An app that starts to save, with the object as its caller has changed   *)
(* it.                                                                     *)
LEMMA SaveItemIInv ==
    ASSUME IInv, NEW o \in Apps, NEW item, SaveItem(o, item), UNCHANGED file,
           DOMAIN item = ObjectFields,
           item.content # <<>> => Head(item.content) \in Content
    PROVE IInv' /\ objects'[o].saving # <<>>
          /\ \A p \in Apps \ {o} : objects'[p] = objects[p]
<1> DEFINE content == GetContent(item)
           saved == objects'[o]
<1>1. content \in Content
  BY ContentIsRewritten DEF GetContent, IInv, FileInv
<1>2. /\ DOMAIN objects' = Apps
      /\ \A p \in Apps \ {o} : objects'[p] = objects[p]
  BY DEF SaveItem, IInv
<1>3. saved = [updateOverviewFromContent([item EXCEPT !.updatedAt = Later(@, clock)], content)
                 EXCEPT !.saving = <<[content |-> content, read |-> file.revision]>>, !.asked = FALSE]
  BY DEF SaveItem, IInv
<1>4. /\ DOMAIN saved = ObjectFields
      /\ saved.content = item.content
      /\ saved.saving = <<[content |-> content, read |-> file.revision]>>
      /\ saved.locations = content.urls /\ saved.account = Account(content)
  <2> HIDE DEF content
  <2> QED
    BY <1>3 DEF updateOverviewFromContent, ObjectFields
<1>5. item.content = <<>> => content = fromAgileKeychainContent(file.content)
  BY DEF GetContent
<1>6. ObjectInv(o)'
  <2> HIDE DEF content, saved
  <2>1. Head(saved.saving).content = content /\ Head(saved.saving).read = file.revision
    BY <1>4
  <2>2. file.revision \in Nat
    BY DEF IInv, FileInv
  <2> QED
    BY <1>1, <1>4, <1>5, <2>1, <2>2 DEF ObjectInv, saved
<1>7. \A p \in Apps \ {o} : ObjectInv(p)'
  BY <1>2 DEF IInv, ObjectInv
<1> QED
  BY <1>2, <1>4, <1>6, <1>7 DEF IInv, FileInv

(* A file that is written: what the other apps have read is of an older    *)
(* revision now.                                                           *)
LEMMA WrittenFileIInv ==
    ASSUME IInv, FileInv', file'.revision = file.revision + 1,
           NEW o \in Apps, UNCHANGED objects[o]
    PROVE ObjectInv(o)'
<1>1. file.revision \in Nat
  BY DEF IInv, FileInv
<1>2. CASE objects[o].saving = <<>>
  BY <1>2 DEF IInv, ObjectInv
<1>3. CASE objects[o].saving # <<>>
  <2>1. /\ Head(objects[o].saving).read \in Nat
        /\ Head(objects[o].saving).read <= file.revision
    BY <1>3 DEF IInv, ObjectInv
  <2>2. /\ Head(objects[o].saving).read <= file'.revision
        /\ Head(objects[o].saving).read # file'.revision
    BY <1>1, <2>1
  <2> QED
    BY <1>3, <2>1, <2>2 DEF IInv, ObjectInv
<1> QED
  BY <1>2, <1>3

(* The file as an app writes it.                                           *)
LEMMA WriteFileIInv ==
    ASSUME IInv, NEW o \in Apps, WriteFile(o)
    PROVE IInv' /\ objects'[o].saving = <<>>
          /\ \A p \in Apps \ {o} : objects'[p] = objects[p]
<1> DEFINE item == objects[o]
           content == Head(item.saving).content
           revision == file.revision + 1
<1>1. /\ DOMAIN item = ObjectFields
      /\ item.content # <<>> => Head(item.content) \in Content
      /\ content \in Content
  BY DEF IInv, ObjectInv, WriteFile
<1>2. file' = toAgileKeychainItem(item, content, revision)
  BY DEF WriteFile
<1>3. file'.content = toAgileKeychainContent(content) /\ file'.revision = file.revision + 1
  BY <1>2 DEF toAgileKeychainItem
<1>4. FileInv'
  <2>1. file.revision + 1 \in Nat
    BY DEF IInv, FileInv
  <2> QED
    BY <1>1, <1>3, <2>1, ContentIsReadBack DEF FileInv
<1>5. /\ DOMAIN objects' = Apps
      /\ objects'[o] = [item EXCEPT !.revision = revision, !.saving = <<>>]
      /\ \A p \in Apps \ {o} : objects'[p] = objects[p]
  BY DEF WriteFile, IInv
<1>6. /\ DOMAIN objects'[o] = ObjectFields /\ objects'[o].content = item.content
      /\ objects'[o].saving = <<>>
  <2> HIDE DEF item, revision
  <2> QED
    BY <1>1, <1>5 DEF ObjectFields
<1>7. ObjectInv(o)'
  BY <1>1, <1>6 DEF ObjectInv
<1>8. \A p \in Apps \ {o} : ObjectInv(p)'
  BY <1>3, <1>4, <1>5, WrittenFileIInv
<1> QED
  BY <1>4, <1>5, <1>6, <1>7, <1>8 DEF IInv

LEMMA ForeignSaveIInv ==
    ASSUME IInv, NEW k \in ForeignContents, NEW location, NEW folder, ForeignSave(k, location, folder)
    PROVE IInv'
<1>1. file'.content = k /\ file'.revision = file.revision + 1 /\ UNCHANGED objects
  BY DEF ForeignSave
<1>2. FileInv'
  BY <1>1, ContentsAssumption DEF IInv, FileInv
<1> QED
  BY <1>1, <1>2, WrittenFileIInv DEF IInv

(* The steps of an app that do not write the file.                         *)
LEMMA LoadItemIInv ==
    ASSUME IInv, NEW o \in Apps, LoadItem(o)
    PROVE IInv' /\ UNCHANGED file /\ objects'[o].saving = <<>> /\ objects[o].saving = <<>>
          /\ \A p \in Apps \ {o} : objects'[p] = objects[p]
<1>1. /\ DOMAIN objects' = Apps /\ objects'[o] = fromAgileKeychainItem(file) /\ UNCHANGED file
      /\ \A p \in Apps \ {o} : objects'[p] = objects[p]
  BY DEF LoadItem, IInv
<1>2. objects[o].saving = <<>>
  BY DEF LoadItem, Busy
<1> QED
  BY <1>1, <1>2, LoadedObjects DEF IInv, ObjectInv, FileInv

LEMMA RepairItemIInv ==
    ASSUME IInv, NEW o \in Apps, RepairItem(o)
    PROVE IInv' /\ UNCHANGED file /\ objects'[o].saving = <<>> /\ objects[o].saving = <<>>
          /\ \A p \in Apps \ {o} : objects'[p] = objects[p]
<1> DEFINE urls == GetContent(objects[o]).urls
<1>1. objects[o].saving = <<>>
  BY DEF RepairItem, Busy
<1>2. /\ DOMAIN objects' = Apps /\ UNCHANGED file
      /\ objects'[o] = [objects[o] EXCEPT !.locations = urls, !.asked = TRUE]
      /\ \A p \in Apps \ {o} : objects'[p] = objects[p]
  BY DEF RepairItem, IInv
<1>3. DOMAIN objects[o] = ObjectFields /\ (objects[o].content # <<>> => Head(objects[o].content) \in Content)
  BY DEF IInv, ObjectInv
<1> HIDE DEF urls
<1>4. /\ DOMAIN objects'[o] = ObjectFields /\ objects'[o].saving = <<>>
      /\ objects'[o].content = objects[o].content
  BY <1>1, <1>2, <1>3 DEF ObjectFields
<1> QED
  BY <1>1, <1>2, <1>3, <1>4 DEF IInv, ObjectInv, FileInv

LEMMA EditItemIInv ==
    ASSUME IInv, NEW o \in Apps, NEW content \in Contents, EditItem(o, content)
    PROVE IInv' /\ UNCHANGED file /\ objects'[o].saving # <<>>
          /\ \A p \in Apps \ {o} : objects'[p] = objects[p]
<1> DEFINE item == [objects[o] EXCEPT !.content = <<content>>]
<1>1. SaveItem(o, item) /\ UNCHANGED file
  BY DEF EditItem
<1>2. DOMAIN objects[o] = ObjectFields
  BY DEF IInv, ObjectInv
<1>3. DOMAIN item = ObjectFields /\ item.content = <<content>>
  BY <1>2 DEF ObjectFields
<1>4. content \in Content
  BY ContentsAssumption
<1> HIDE DEF item
<1> QED
  BY <1>1, <1>3, <1>4, SaveItemIInv

LEMMA TrashItemIInv ==
    ASSUME IInv, NEW o \in Apps, NEW trash, TrashItem(o, trash)
    PROVE IInv' /\ UNCHANGED file /\ objects'[o].saving # <<>>
          /\ \A p \in Apps \ {o} : objects'[p] = objects[p]
<1> DEFINE item == [objects[o] EXCEPT !.trashed = trash]
<1>1. SaveItem(o, item) /\ UNCHANGED file
  BY DEF TrashItem
<1>2. DOMAIN objects[o] = ObjectFields /\ (objects[o].content # <<>> => Head(objects[o].content) \in Content)
  BY DEF IInv, ObjectInv
<1>3. DOMAIN item = ObjectFields /\ item.content = objects[o].content
  BY <1>2 DEF ObjectFields
<1> HIDE DEF item
<1> QED
  BY <1>1, <1>2, <1>3, SaveItemIInv

LEMMA AnswerRepairIInv ==
    ASSUME IInv, NEW o \in Apps, NEW doRepair, AnswerRepair(o, doRepair)
    PROVE IInv' /\ UNCHANGED file
          /\ (objects'[o].saving # <<>> \/ objects[o].saving = <<>>)
          /\ \A p \in Apps \ {o} : objects'[p] = objects[p]
<1>1. DOMAIN objects[o] = ObjectFields /\ (objects[o].content # <<>> => Head(objects[o].content) \in Content)
  BY DEF IInv, ObjectInv
<1>2. CASE doRepair
  BY <1>1, <1>2, SaveItemIInv DEF AnswerRepair
<1>3. CASE ~doRepair
  <2>1. objects' = [objects EXCEPT ![o].asked = FALSE] /\ UNCHANGED file
    BY <1>3 DEF AnswerRepair
  <2>2. DOMAIN objects' = Apps
        /\ objects'[o] = [objects[o] EXCEPT !.asked = FALSE]
        /\ \A p \in Apps \ {o} : objects'[p] = objects[p]
    BY <2>1 DEF IInv
  <2>3. /\ DOMAIN objects'[o] = ObjectFields /\ objects'[o].saving = objects[o].saving
        /\ objects'[o].content = objects[o].content /\ objects'[o].locations = objects[o].locations
        /\ objects'[o].account = objects[o].account
    BY <1>1, <2>2 DEF ObjectFields
  <2>4. ObjectInv(o)'
    BY <2>1, <2>3 DEF IInv, ObjectInv
  <2>5. \A p \in Apps \ {o} : ObjectInv(p)'
    BY <2>1, <2>2 DEF IInv, ObjectInv
  <2> QED
    BY <2>1, <2>2, <2>3, <2>4, <2>5 DEF IInv, FileInv
<1> QED
  BY <1>2, <1>3

(* A step keeps the invariant, and only WriteFile ends a save.             *)
LEMMA StepIInv ==
    ASSUME IInv, Next
    PROVE IInv' /\ \A o \in Apps : Writes(o) => WriteFile(o)
<1>1. CASE Tick
  BY <1>1 DEF Tick, IInv, ObjectInv, FileInv, Writes
<1>2. ASSUME NEW k \in ForeignContents, NEW location \in Texts, NEW folder \in Folders,
             ForeignSave(k, location, folder)
      PROVE IInv' /\ \A o \in Apps : Writes(o) => WriteFile(o)
  <2>1. UNCHANGED objects
    BY <1>2 DEF ForeignSave
  <2> QED
    BY <1>2, <2>1, ForeignSaveIInv DEF Writes
<1>3. ASSUME NEW p \in Apps, AppStep(p)
      PROVE IInv' /\ \A o \in Apps : Writes(o) => WriteFile(o)
  <2>1. CASE LoadItem(p)
    BY <2>1, LoadItemIInv DEF Writes
  <2>2. CASE RepairItem(p)
    BY <2>2, RepairItemIInv DEF Writes
  <2>3. CASE WriteFile(p)
    BY <2>3, WriteFileIInv DEF Writes
  <2>4. ASSUME NEW content \in Contents, EditItem(p, content)
        PROVE IInv' /\ \A o \in Apps : Writes(o) => WriteFile(o)
    BY <2>4, EditItemIInv DEF Writes
  <2>5. ASSUME NEW answer \in BOOLEAN, TrashItem(p, answer)
        PROVE IInv' /\ \A o \in Apps : Writes(o) => WriteFile(o)
    BY <2>5, TrashItemIInv DEF Writes
  <2>6. ASSUME NEW answer \in BOOLEAN, AnswerRepair(p, answer)
        PROVE IInv' /\ \A o \in Apps : Writes(o) => WriteFile(o)
    BY <2>6, AnswerRepairIInv DEF Writes
  <2> QED
    BY <1>3, <2>1, <2>2, <2>3, <2>4, <2>5, <2>6 DEF AppStep
<1> QED
  BY <1>1, <1>2, <1>3 DEF Next

LEMMA StutterIInv == IInv /\ UNCHANGED vars => IInv'
BY DEF IInv, ObjectInv, FileInv, vars

THEOREM Invariant == Spec => []IInv
<1>1. IInv /\ [Next]_vars => IInv'
  BY StepIInv, StutterIInv
<1> QED
  BY <1>1, InitIInv, PTL DEF Spec

(* An app that saves an item without having changed its content leaves the *)
(* content as it was written by whichever client, for every content with   *)
(* kinds of fields that the maps have (agile_keychain.ts 463-505).         *)
THEOREM ContentsAreKept == Spec => RewritesKeepContent
<1> DEFINE Kept(o) == Writes(o) /\ objects[o].content = <<>> /\ WrittenContent(o).read = file.revision
                        => file'.content = file.content
<1>1. ASSUME IInv, Next, NEW o \in Apps PROVE Kept(o)
  <2> SUFFICES ASSUME Writes(o), objects[o].content = <<>>, WrittenContent(o).read = file.revision
               PROVE file'.content = file.content
    OBVIOUS
  <2>1. WriteFile(o)
    BY <1>1, StepIInv
  <2>2. file'.content = toAgileKeychainContent(Head(objects[o].saving).content)
    BY <2>1 DEF WriteFile, toAgileKeychainItem
  <2>3. Head(objects[o].saving).content = fromAgileKeychainContent(file.content)
    BY <1>1 DEF IInv, ObjectInv, Writes, WrittenContent
  <2> QED
    BY <1>1, <2>2, <2>3, ContentIsRewritten DEF IInv, FileInv
<1>2. IInv /\ [Next]_vars => [\A o \in Apps : Kept(o)]_vars
  BY <1>1
<1> QED
  BY <1>2, Invariant, PTL DEF Spec, RewritesKeepContent

(* What is written is read back as it was entered, and the object that was *)
(* saved and the file show the URLs and the user name of that content      *)
(* (item_store.ts 464-486).                                                *)
THEOREM ContentsAreReadBack == Spec => SavesAreReadBack
<1> DEFINE ReadBack(o) ==
             LET content == WrittenContent(o).content IN
             Writes(o) =>
                /\ fromAgileKeychainContent(file'.content) = content
                /\ file'.location = PrimaryLocation(content.urls)
                /\ objects'[o].locations = content.urls /\ objects'[o].account = Account(content)
<1>1. ASSUME IInv, Next, NEW o \in Apps, Writes(o) PROVE ReadBack(o)
  <2> DEFINE item == objects[o]
             content == Head(item.saving).content
             revision == file.revision + 1
  <2>1. WriteFile(o)
    BY <1>1, StepIInv
  <2>2. /\ content \in Content /\ item.locations = content.urls /\ item.account = Account(content)
        /\ DOMAIN item = ObjectFields
    BY <1>1 DEF IInv, ObjectInv, Writes
  <2>3. file' = toAgileKeychainItem(item, content, revision)
    BY <2>1 DEF WriteFile
  <2>4. file'.content = toAgileKeychainContent(content) /\ file'.location = PrimaryLocation(item.locations)
    BY <2>3 DEF toAgileKeychainItem
  <2>5. objects'[o] = [item EXCEPT !.revision = revision, !.saving = <<>>]
    BY <1>1, <2>1 DEF WriteFile, IInv
  <2>6. objects'[o].locations = item.locations /\ objects'[o].account = item.account
    <3> HIDE DEF item, revision
    <3> QED
      BY <2>2, <2>5 DEF ObjectFields
  <2>7. fromAgileKeychainContent(file'.content) = content
    BY <2>2, <2>4, ContentIsReadBack
  <2> QED
    BY <2>2, <2>4, <2>6, <2>7 DEF WrittenContent
<1>2. IInv /\ [Next]_vars => [\A o \in Apps : ReadBack(o)]_vars
  BY <1>1
<1> QED
  BY <1>2, Invariant, PTL DEF Spec, SavesAreReadBack

-----------------------------------------------------------------------------
(* The stored times.  Dates have a finer resolution than the timestamps    *)
(* that are stored, so the invariant is about the seconds of a date: those *)
(* of an object are at least those of the file that it is of, and more as  *)
(* soon as the object is being saved.  The clock may be set back, so a     *)
(* stored time may be ahead of it, by a second for each write at most:     *)
(* that is what keeps it below the limit of timestamps.                    *)
NoWrap == MaxClock \div TicksPerSecond + MaxRevisions < TimestampLimit

Seconds(date) == date \div TicksPerSecond

FileTime ==
    /\ clock \in 0 .. MaxClock
    /\ file.revision \in 0 .. MaxRevisions
    /\ file.updatedAt \in Nat /\ file.updatedAt <= Seconds(MaxClock) + file.revision

ObjectTime(o) ==
    LET item == objects[o] IN
    /\ item.updatedAt \in Nat
    /\ item.revision \in Nat /\ item.revision <= file.revision
    /\ item.asked => item.saving = <<>>
    /\ item.saving = <<>> =>
          /\ Seconds(item.updatedAt) <= Seconds(MaxClock) + file.revision
          /\ item.revision = file.revision => Seconds(item.updatedAt) >= file.updatedAt
    /\ item.saving # <<>> =>
          /\ Seconds(item.updatedAt) <= Seconds(MaxClock) + file.revision + 1
          /\ item.revision = file.revision => Seconds(item.updatedAt) > file.updatedAt

TimesInv ==
    /\ IInv
    /\ FileTime
    /\ \A o \in Apps : ObjectTime(o)

(* Dates in seconds.                                                       *)
LEMMA SecondsAreCounted ==
    ASSUME NEW date \in Nat
    PROVE /\ Seconds(date) \in Nat
          /\ Seconds(date + TicksPerSecond) = Seconds(date) + 1
          /\ dateFromUnixTimestamp(date) \in Nat /\ Seconds(dateFromUnixTimestamp(date)) = date
<1>1. TicksPerSecond \in Nat \ {0}
  BY ClockAssumption
<1>2. date \div TicksPerSecond \in Nat
  BY <1>1
<1>3. (date + TicksPerSecond) \div TicksPerSecond = date \div TicksPerSecond + 1
  BY <1>1
<1>4. (date * TicksPerSecond) \div TicksPerSecond = date
  BY <1>1
<1>5. date * TicksPerSecond \in Nat
  BY <1>1
<1> QED
  BY <1>2, <1>3, <1>4, <1>5 DEF Seconds, dateFromUnixTimestamp

LEMMA SecondsAreMonotonic ==
    ASSUME NEW date \in Nat, NEW later \in Nat, date <= later
    PROVE Seconds(date) <= Seconds(later)
<1>1. TicksPerSecond \in Nat \ {0}
  BY ClockAssumption
<1>2. date \div TicksPerSecond <= later \div TicksPerSecond
  BY <1>1
<1> QED
  BY <1>2 DEF Seconds

(* A timestamp below the limit is stored as it is.                         *)
LEMMA TimestampsAreStored ==
    ASSUME NEW date \in Nat, Seconds(date) < TimestampLimit
    PROVE unixTimestampFromDate(date) = Seconds(date)
<1> DEFINE n == Seconds(date)
<1>1. n \in Nat
  BY SecondsAreCounted
<1>2. TimestampLimit \in Nat
  BY ClockAssumption
<1> HIDE DEF n
<1>3. n < TimestampLimit
  BY DEF n
<1>4. ((n + TimestampLimit) % (2 * TimestampLimit)) - TimestampLimit = n
  BY <1>1, <1>2, <1>3
<1> QED
  BY <1>4 DEF n, Seconds, unixTimestampFromDate, Wrapped

(* updateTimestamps: a second more at least, and not ahead of both the     *)
(* clock and that second.                                                  *)
LEMMA LaterIsASecondLater ==
    ASSUME NEW date \in Nat, clock \in 0 .. MaxClock
    PROVE LET later == Later(date, clock) IN
          /\ later \in Nat /\ Seconds(later) >= Seconds(date) + 1
          /\ Seconds(later) <= Seconds(date) + 1 \/ Seconds(later) <= Seconds(MaxClock)
<1>1. TicksPerSecond \in Nat \ {0} /\ MaxClock \in Nat /\ clock \in Nat
  BY ClockAssumption
<1>2. /\ Seconds(date) \in Nat /\ Seconds(date + TicksPerSecond) = Seconds(date) + 1
      /\ Seconds(clock) \in Nat
  BY <1>1, SecondsAreCounted
<1>3. CASE clock - date < TicksPerSecond
  <2>1. Later(date, clock) = date + TicksPerSecond
    BY <1>3 DEF Later
  <2>2. date + TicksPerSecond \in Nat
    BY <1>1
  <2> QED
    BY <1>2, <2>1, <2>2
<1>4. CASE ~(clock - date < TicksPerSecond)
  <2>1. Later(date, clock) = clock
    BY <1>4 DEF Later
  <2>2. date + TicksPerSecond \in Nat /\ date + TicksPerSecond <= clock /\ clock <= MaxClock
    BY <1>1, <1>4
  <2>3. Seconds(clock) >= Seconds(date + TicksPerSecond) /\ Seconds(clock) <= Seconds(MaxClock)
    BY <1>1, <2>2, SecondsAreMonotonic
  <2> QED
    BY <1>1, <1>2, <2>1, <2>3
<1> QED
  BY <1>3, <1>4

LEMMA InitTimes == Init => TimesInv
<1> SUFFICES ASSUME Init PROVE TimesInv
  OBVIOUS
<1>1. clock = 0 /\ file.updatedAt = 0 /\ file.revision = 0
  BY DEF Init
<1>2. MaxClock \in Nat /\ MaxRevisions \in Nat
  BY ClockAssumption
<1>3. Seconds(MaxClock) \in Nat
  BY <1>2, SecondsAreCounted
<1>4. FileTime
  BY <1>1, <1>2, <1>3 DEF FileTime
<1>5. ASSUME NEW o \in Apps PROVE ObjectTime(o)
  <2>1. objects[o] = fromAgileKeychainItem(file)
    BY <1>5 DEF Init
  <2> QED
    BY <1>1, <1>3, <2>1, SecondsAreCounted DEF fromAgileKeychainItem, ObjectTime
<1> QED
  BY <1>4, <1>5, InitIInv DEF TimesInv

(* An object that its caller saves is of the same revision as before, and  *)
(* later.                                                                  *)
LEMMA SaveItemTime ==
    ASSUME TimesInv, NEW o \in Apps, NEW item, SaveItem(o, item), UNCHANGED file,
           DOMAIN item = ObjectFields, objects[o].saving = <<>>,
           item.updatedAt = objects[o].updatedAt, item.revision = objects[o].revision
    PROVE ObjectTime(o)'
<1> DEFINE content == GetContent(item)
           saved == objects'[o]
           later == Later(item.updatedAt, clock)
<1>1. saved = [updateOverviewFromContent([item EXCEPT !.updatedAt = Later(@, clock)], content)
                 EXCEPT !.saving = <<[content |-> content, read |-> file.revision]>>, !.asked = FALSE]
  BY DEF SaveItem, TimesInv, IInv
<1>2. saved.updatedAt = later /\ saved.revision = item.revision /\ saved.saving # <<>> /\ ~saved.asked
  <2> HIDE DEF content
  <2> QED
    BY <1>1 DEF updateOverviewFromContent, ObjectFields
<1>3. /\ item.updatedAt \in Nat /\ item.revision \in Nat /\ item.revision <= file.revision
      /\ Seconds(item.updatedAt) <= Seconds(MaxClock) + file.revision
      /\ item.revision = file.revision => Seconds(item.updatedAt) >= file.updatedAt
  BY DEF TimesInv, ObjectTime
<1>4. /\ clock \in 0 .. MaxClock /\ file.updatedAt \in Nat /\ file.revision \in Nat
      /\ MaxClock \in Nat
  BY ClockAssumption DEF TimesInv, FileTime
<1>5. /\ later \in Nat /\ Seconds(later) >= Seconds(item.updatedAt) + 1
      /\ Seconds(later) <= Seconds(item.updatedAt) + 1 \/ Seconds(later) <= Seconds(MaxClock)
  BY <1>3, <1>4, LaterIsASecondLater
<1> HIDE DEF later, saved
<1>6. Seconds(MaxClock) \in Nat /\ Seconds(later) \in Nat /\ Seconds(item.updatedAt) \in Nat
  BY <1>3, <1>4, <1>5, SecondsAreCounted
<1>7. Seconds(later) <= Seconds(MaxClock) + file.revision + 1
  BY <1>3, <1>4, <1>5, <1>6
<1>8. item.revision = file.revision => Seconds(later) > file.updatedAt
  BY <1>3, <1>4, <1>5, <1>6
<1> QED
  BY <1>2, <1>3, <1>5, <1>7, <1>8 DEF ObjectTime, saved

(* The objects of other apps when a step leaves the file as it is, or      *)
(* makes it one of a later revision.                                       *)
LEMMA OtherTimes ==
    ASSUME TimesInv, NEW o \in Apps, UNCHANGED objects[o],
           UNCHANGED file \/ file'.revision = file.revision + 1
    PROVE ObjectTime(o)'
<1>1. CASE UNCHANGED file
  BY <1>1 DEF TimesInv, ObjectTime
<1>2. CASE file'.revision = file.revision + 1
  <2>1. file.revision \in Nat /\ MaxClock \in Nat /\ objects[o].updatedAt \in Nat
    BY ClockAssumption DEF TimesInv, FileTime, ObjectTime
  <2>2. Seconds(MaxClock) \in Nat /\ Seconds(objects[o].updatedAt) \in Nat
    BY <2>1, SecondsAreCounted
  <2> QED
    BY <1>2, <2>1, <2>2 DEF TimesInv, ObjectTime
<1> QED
  BY <1>1, <1>2

(* What an app writes: the seconds of its object, which are more than the  *)
(* file has if the object is of the same revision.                         *)
LEMMA WriteFileTimes ==
    ASSUME NoWrap, TimesInv, NEW o \in Apps, WriteFile(o)
    PROVE /\ TimesInv'
          /\ objects[o].revision = file.revision => file'.updatedAt > file.updatedAt
<1> DEFINE item == objects[o]
           content == Head(item.saving).content
           revision == file.revision + 1
<1>1. /\ IInv' /\ objects'[o].saving = <<>>
      /\ \A p \in Apps \ {o} : objects'[p] = objects[p]
  BY WriteFileIInv DEF TimesInv
<1>2. /\ item.updatedAt \in Nat /\ ~item.asked
      /\ Seconds(item.updatedAt) <= Seconds(MaxClock) + file.revision + 1
      /\ item.revision = file.revision => Seconds(item.updatedAt) > file.updatedAt
  BY DEF TimesInv, ObjectTime, WriteFile
<1>3. /\ file.revision \in Nat /\ file.revision < MaxRevisions /\ UNCHANGED clock
      /\ MaxClock \in Nat /\ MaxRevisions \in Nat /\ TimestampLimit \in Nat
  BY ClockAssumption DEF TimesInv, FileTime, WriteFile
<1>4. Seconds(MaxClock) \in Nat /\ Seconds(item.updatedAt) \in Nat
  BY <1>2, <1>3, SecondsAreCounted
<1>5. Seconds(item.updatedAt) < TimestampLimit
  BY <1>2, <1>3, <1>4 DEF NoWrap, Seconds
<1>6. unixTimestampFromDate(item.updatedAt) = Seconds(item.updatedAt)
  BY <1>2, <1>5, TimestampsAreStored
<1>7. file' = toAgileKeychainItem(item, content, revision)
  BY DEF WriteFile
<1>8. file'.updatedAt = Seconds(item.updatedAt) /\ file'.revision = file.revision + 1
  BY <1>6, <1>7 DEF toAgileKeychainItem
<1>9. FileTime'
  BY <1>2, <1>3, <1>4, <1>8 DEF TimesInv, FileTime
<1>10. objects'[o] = [item EXCEPT !.revision = revision, !.saving = <<>>]
  BY DEF WriteFile, TimesInv, IInv
<1>11. /\ objects'[o].updatedAt = item.updatedAt /\ objects'[o].revision = file.revision + 1
  <2> DOMAIN item = ObjectFields
    BY DEF TimesInv, IInv, ObjectInv
  <2> HIDE DEF item
  <2> QED
    BY <1>10 DEF ObjectFields
<1>12. ObjectTime(o)'
  <2>1. /\ Seconds(objects'[o].updatedAt) <= Seconds(MaxClock) + file'.revision
        /\ Seconds(objects'[o].updatedAt) >= file'.updatedAt
    BY <1>2, <1>3, <1>4, <1>8, <1>11
  <2> QED
    BY <1>1, <1>2, <1>3, <1>8, <1>11, <2>1 DEF ObjectTime
<1>13. \A p \in Apps \ {o} : ObjectTime(p)'
  BY <1>1, <1>8, OtherTimes
<1> QED
  BY <1>1, <1>2, <1>8, <1>9, <1>12, <1>13 DEF TimesInv

(* The file of another client, which has no object of it.                  *)
LEMMA ForeignSaveTimes ==
    ASSUME NoWrap, TimesInv, NEW k \in ForeignContents, NEW location, NEW folder,
           ForeignSave(k, location, folder)
    PROVE TimesInv'
<1>1. /\ IInv' /\ UNCHANGED <<clock, objects>> /\ file'.revision = file.revision + 1
      /\ file.revision < MaxRevisions
      /\ file'.updatedAt = unixTimestampFromDate(clock)
  BY ForeignSaveIInv DEF TimesInv, ForeignSave
<1>2. /\ clock \in 0 .. MaxClock /\ clock \in Nat /\ clock <= MaxClock /\ MaxClock \in Nat
      /\ file.revision \in Nat /\ MaxRevisions \in Nat /\ TimestampLimit \in Nat
  BY ClockAssumption DEF TimesInv, FileTime
<1>3. /\ Seconds(clock) \in Nat /\ Seconds(MaxClock) \in Nat
      /\ Seconds(clock) <= Seconds(MaxClock)
  BY <1>2, SecondsAreCounted, SecondsAreMonotonic
<1>4. Seconds(clock) < TimestampLimit
  BY <1>2, <1>3 DEF NoWrap, Seconds
<1>5. file'.updatedAt = Seconds(clock)
  BY <1>1, <1>2, <1>4, TimestampsAreStored
<1>6. FileTime'
  BY <1>1, <1>2, <1>3, <1>5 DEF FileTime
<1> QED
  BY <1>1, <1>6, OtherTimes DEF TimesInv

(* The steps of an app that leave the file as it is.                       *)
LEMMA FileTimeKept == FileTime /\ UNCHANGED <<clock, file>> => FileTime'
BY DEF FileTime

LEMMA LoadItemTimes ==
    ASSUME TimesInv, NEW o \in Apps, LoadItem(o)
    PROVE TimesInv'
<1>1. /\ IInv' /\ UNCHANGED <<clock, file>>
      /\ \A p \in Apps \ {o} : objects'[p] = objects[p]
      /\ objects'[o] = fromAgileKeychainItem(file)
  BY LoadItemIInv DEF LoadItem, TimesInv, IInv
<1>2. /\ objects'[o].updatedAt = dateFromUnixTimestamp(file.updatedAt)
      /\ objects'[o].revision = file.revision /\ objects'[o].saving = <<>> /\ ~objects'[o].asked
  BY <1>1 DEF fromAgileKeychainItem
<1>3. /\ file.updatedAt \in Nat /\ file.updatedAt <= Seconds(MaxClock) + file.revision
      /\ file.revision \in Nat
  BY ClockAssumption DEF TimesInv, FileTime
<1>4. /\ objects'[o].updatedAt \in Nat /\ Seconds(objects'[o].updatedAt) = file.updatedAt
  BY <1>2, <1>3, SecondsAreCounted
<1>5. ObjectTime(o)'
  BY <1>1, <1>2, <1>3, <1>4 DEF ObjectTime
<1> QED
  BY <1>1, <1>5, OtherTimes, FileTimeKept DEF TimesInv

(* The user is asked, or answers that the item is not to be repaired.      *)
LEMMA NotSavedTime ==
    ASSUME TimesInv, NEW o \in Apps, UNCHANGED file,
           objects[o].saving = <<>>, objects'[o].saving = <<>>,
           objects'[o].updatedAt = objects[o].updatedAt, objects'[o].revision = objects[o].revision
    PROVE ObjectTime(o)'
BY DEF TimesInv, ObjectTime

LEMMA RepairItemTimes ==
    ASSUME TimesInv, NEW o \in Apps, RepairItem(o)
    PROVE TimesInv'
<1> DEFINE urls == GetContent(objects[o]).urls
<1>1. /\ IInv' /\ UNCHANGED <<clock, file>> /\ objects'[o].saving = <<>> /\ objects[o].saving = <<>>
      /\ \A p \in Apps \ {o} : objects'[p] = objects[p]
  BY RepairItemIInv DEF RepairItem, TimesInv
<1>2. objects'[o] = [objects[o] EXCEPT !.locations = urls, !.asked = TRUE]
  BY DEF RepairItem, TimesInv, IInv
<1>3. DOMAIN objects[o] = ObjectFields
  BY DEF TimesInv, IInv, ObjectInv
<1> HIDE DEF urls
<1>4. objects'[o].updatedAt = objects[o].updatedAt /\ objects'[o].revision = objects[o].revision
  BY <1>2, <1>3 DEF ObjectFields
<1>5. ObjectTime(o)'
  BY <1>1, <1>4, NotSavedTime
<1> QED
  BY <1>1, <1>5, OtherTimes, FileTimeKept DEF TimesInv

LEMMA EditItemTimes ==
    ASSUME TimesInv, NEW o \in Apps, NEW content \in Contents, EditItem(o, content)
    PROVE TimesInv'
<1> DEFINE item == [objects[o] EXCEPT !.content = <<content>>]
<1>1. SaveItem(o, item) /\ UNCHANGED <<clock, file>> /\ objects[o].saving = <<>>
  BY DEF EditItem, Busy
<1>2. DOMAIN objects[o] = ObjectFields
  BY DEF TimesInv, IInv, ObjectInv
<1>3. /\ DOMAIN item = ObjectFields
      /\ item.updatedAt = objects[o].updatedAt /\ item.revision = objects[o].revision
  BY <1>2 DEF ObjectFields
<1>4. IInv' /\ \A p \in Apps \ {o} : objects'[p] = objects[p]
  BY EditItemIInv DEF TimesInv
<1> HIDE DEF item
<1>5. ObjectTime(o)'
  BY <1>1, <1>3, SaveItemTime
<1> QED
  BY <1>1, <1>4, <1>5, OtherTimes, FileTimeKept DEF TimesInv

LEMMA TrashItemTimes ==
    ASSUME TimesInv, NEW o \in Apps, NEW trash, TrashItem(o, trash)
    PROVE TimesInv'
<1> DEFINE item == [objects[o] EXCEPT !.trashed = trash]
<1>1. SaveItem(o, item) /\ UNCHANGED <<clock, file>> /\ objects[o].saving = <<>>
  BY DEF TrashItem, Busy
<1>2. DOMAIN objects[o] = ObjectFields
  BY DEF TimesInv, IInv, ObjectInv
<1>3. /\ DOMAIN item = ObjectFields
      /\ item.updatedAt = objects[o].updatedAt /\ item.revision = objects[o].revision
  BY <1>2 DEF ObjectFields
<1>4. IInv' /\ \A p \in Apps \ {o} : objects'[p] = objects[p]
  BY TrashItemIInv DEF TimesInv
<1> HIDE DEF item
<1>5. ObjectTime(o)'
  BY <1>1, <1>3, SaveItemTime
<1> QED
  BY <1>1, <1>4, <1>5, OtherTimes, FileTimeKept DEF TimesInv

LEMMA AnswerRepairTimes ==
    ASSUME TimesInv, NEW o \in Apps, NEW doRepair, AnswerRepair(o, doRepair)
    PROVE TimesInv'
<1>1. IInv' /\ UNCHANGED <<clock, file>> /\ \A p \in Apps \ {o} : objects'[p] = objects[p]
  BY AnswerRepairIInv DEF AnswerRepair, TimesInv
<1>2. objects[o].saving = <<>> /\ DOMAIN objects[o] = ObjectFields
  BY DEF AnswerRepair, TimesInv, IInv, ObjectInv, ObjectTime
<1>3. CASE doRepair
  BY <1>1, <1>2, <1>3, SaveItemTime, OtherTimes, FileTimeKept DEF AnswerRepair, TimesInv
<1>4. CASE ~doRepair
  <2>1. objects'[o] = [objects[o] EXCEPT !.asked = FALSE]
    BY <1>4 DEF AnswerRepair, TimesInv, IInv
  <2>2. /\ objects'[o].saving = <<>>
        /\ objects'[o].updatedAt = objects[o].updatedAt /\ objects'[o].revision = objects[o].revision
    BY <1>2, <2>1 DEF ObjectFields
  <2>3. ObjectTime(o)'
    BY <1>1, <1>2, <2>2, NotSavedTime
  <2> QED
    BY <1>1, <2>3, OtherTimes, FileTimeKept DEF TimesInv
<1> QED
  BY <1>3, <1>4

LEMMA TickTimes == ASSUME TimesInv, Tick PROVE TimesInv'
<1>1. clock' \in 0 .. MaxClock /\ UNCHANGED <<file, objects>>
  BY DEF Tick
<1>2. FileTime'
  BY <1>1 DEF TimesInv, FileTime
<1>3. IInv'
  BY StepIInv DEF Next, TimesInv
<1> QED
  BY <1>1, <1>2, <1>3, OtherTimes DEF TimesInv

LEMMA StepTimes == ASSUME NoWrap, TimesInv, Next PROVE TimesInv'
<1>1. ASSUME NEW o \in Apps, AppStep(o) PROVE TimesInv'
  BY <1>1, LoadItemTimes, RepairItemTimes, WriteFileTimes, EditItemTimes, TrashItemTimes,
     AnswerRepairTimes DEF AppStep
<1>2. ASSUME NEW k \in ForeignContents, NEW location \in Texts, NEW folder \in Folders,
             ForeignSave(k, location, folder)
      PROVE TimesInv'
  BY <1>2, ForeignSaveTimes
<1> QED
  BY <1>1, <1>2, TickTimes DEF Next

LEMMA StutterTimes == TimesInv /\ UNCHANGED vars => TimesInv'
BY StutterIInv DEF TimesInv, FileTime, ObjectTime, vars

(* As long as the time and the writes that can be ahead of it are below    *)
(* the limit of timestamps, an app that saves an object which is up to     *)
(* date stores a later time than the file has, though the clock may be set *)
(* back and a Date has a finer resolution (item_store.ts 438-462).         *)
THEOREM StoredTimesIncrease == NoWrap => (Spec => StoredTimesAdvance)
<1> SUFFICES ASSUME NoWrap PROVE Spec => StoredTimesAdvance
  OBVIOUS
<1> DEFINE Advances(o) == Writes(o) /\ objects[o].revision = file.revision => file'.updatedAt > file.updatedAt
<1>1. TimesInv /\ [Next]_vars => TimesInv'
  BY StepTimes, StutterTimes
<1>2. ASSUME TimesInv, Next, NEW o \in Apps PROVE Advances(o)
  <2> SUFFICES ASSUME Writes(o), objects[o].revision = file.revision
               PROVE file'.updatedAt > file.updatedAt
    OBVIOUS
  <2>1. WriteFile(o)
    BY <1>2, StepIInv DEF TimesInv
  <2> QED
    BY <1>2, <2>1, WriteFileTimes
<1>3. TimesInv /\ [Next]_vars => [\A o \in Apps : Advances(o)]_vars
  BY <1>2
<1> QED
  BY <1>1, <1>3, InitTimes, PTL DEF Spec, StoredTimesAdvance

-----------------------------------------------------------------------------
KeysNeedFolders == MasterKeys # {} => folders = Depth

KeyInv == OneMasterKey /\ KeysNeedFolders

(* The commands keep their type when one of them is changed.               *)
LEMMA CommandsType ==
    ASSUME KeysTypeOK, NEW c \in Commands, NEW r \in Command,
           commands' = [commands EXCEPT ![c] = r]
    PROVE  commands' \in [Commands -> Command]
BY DEF KeysTypeOK

(* Type correctness: no command ever gets at a key that is not there,     *)
(* since no password decrypts an empty file (cli.ts, agile_keychain.ts).   *)
THEOREM KeysTypeCorrect == KeysSpec => []KeysTypeOK
<1>1. KeysInit => KeysTypeOK
  <2> SUFFICES ASSUME KeysInit PROVE KeysTypeOK
    OBVIOUS
  <2> DEFINE S == [kind : KindsOn(backend), level : {Depth}, step : {"not run"}, keys : {NoEntry},
                   new : Passwords, writes : {{}}, open : {{}}]
  <2>0. Depth \in 1 .. Depth /\ 0 \in 0 .. Depth /\ 0 \in 0 .. MaxFaults
    BY MasterKeysAssumption
  <2>1. ASSUME NEW r \in S PROVE r \in Command
    <3>1. /\ r.kind \in Kinds /\ r.new \in Passwords
          /\ r.level = Depth /\ r.step = "not run" /\ r.keys = NoEntry
          /\ r.writes = {} /\ r.open = {}
      BY DEF KindsOn, Kinds
    <3>2. r = [kind |-> r.kind, level |-> r.level, step |-> r.step, keys |-> r.keys,
               new |-> r.new, writes |-> r.writes, open |-> r.open]
      OBVIOUS
    <3>3. QED
      BY <2>0, <3>1, <3>2 DEF Command, Steps
  <2>2. commands \in [Commands -> S]
    BY DEF KeysInit
  <2>3. commands \in [Commands -> Command]
    <3> HIDE DEF S
    <3>1. QED
      BY <2>1, <2>2
  <2>4. QED
    <3>1. /\ backend \in Backends /\ folders = 0 /\ keyFile = NoEntry /\ hintFile = NoPassword
          /\ contentsFile = "none" /\ agent = {} /\ lastWriter = NoCommand /\ faults = 0
      BY Zenon DEF KeysInit
    <3>2. QED
      BY <2>0, <2>3, <3>1 DEF KeysTypeOK
<1>2. KeysTypeOK /\ [KeysNext]_keyVars => KeysTypeOK'
  <2> SUFFICES ASSUME KeysTypeOK, [KeysNext]_keyVars PROVE KeysTypeOK'
    OBVIOUS
  <2>1. CASE UNCHANGED keyVars
    BY <2>1 DEF keyVars, files, KeysTypeOK
  <2>2. CASE Lock
    BY <2>2 DEF Lock, files, KeysTypeOK
  <2>3. ASSUME NEW c \in Commands, NEW step \in Steps, Goto(c, step)
        PROVE  commands' \in [Commands -> Command]
    <3>1. commands[c] \in Command
      BY DEF KeysTypeOK
    <3>2. [commands[c] EXCEPT !.step = step] \in Command
      BY <3>1 DEF Command
    <3>3. commands' = [commands EXCEPT ![c] = [commands[c] EXCEPT !.step = step]]
      BY <2>3 DEF Goto
    <3>4. QED
      BY <3>2, <3>3, CommandsType
  <2>4. ASSUME NEW c \in Commands, NEW entry \in Entry, NEW writes \in SUBSET Files,
               StartWriting(c, entry, writes)
        PROVE  commands' \in [Commands -> Command] /\ lastWriter' \in Commands
    <3> DEFINE r == [commands[c] EXCEPT !.step = "write", !.keys = entry, !.writes = writes]
    <3>1. commands[c] \in Command
      BY DEF KeysTypeOK
    <3>2. r \in Command
      BY <3>1 DEF Command, Steps
    <3>3. commands' = [commands EXCEPT ![c] = r] /\ lastWriter' = c
      BY <2>4 DEF StartWriting
    <3>4. QED
      BY <3>2, <3>3, CommandsType
  <2>5. ASSUME NEW c \in Commands, FoldersMade(c)
        PROVE  commands' \in [Commands -> Command] /\ lastWriter' \in Commands
    <3>1. commands[c].new \in Passwords
      BY DEF KeysTypeOK, Command
    <3>2. NewKey(c, commands[c].new) \in Entry
      BY <3>1 DEF NewKey, Entry
    <3>3. QED
      BY <2>4, <2>5, <3>2 DEF FoldersMade
  <2>6. ASSUME NEW c \in Commands, NewVault(c) PROVE KeysTypeOK'
    BY <2>3, <2>6 DEF NewVault, files, KeysTypeOK, Steps, Ended
  <2>7. ASSUME NEW c \in Commands, NEW level \in 1 .. Depth,
               commands' = [commands EXCEPT ![c].level = level]
        PROVE  commands' \in [Commands -> Command]
    <3>1. commands[c] \in Command
      BY DEF KeysTypeOK
    <3>2. [commands[c] EXCEPT !.level = level] \in Command
      BY <3>1 DEF Command
    <3>3. commands' = [commands EXCEPT ![c] = [commands[c] EXCEPT !.level = level]]
      BY <2>7
    <3>4. QED
      BY <3>2, <3>3, CommandsType
  <2>8. ASSUME NEW c \in Commands, MakeFolder(c) PROVE KeysTypeOK'
    <3> DEFINE level == commands[c].level
    <3>1. level \in 1 .. Depth
      BY DEF KeysTypeOK, Command
    <3>2. /\ commands' \in [Commands -> Command] /\ folders' \in 0 .. Depth
          /\ lastWriter' \in Commands \union {NoCommand}
      <4>1. CASE folders' = level /\ level = Depth /\ FoldersMade(c)
        BY <2>5, <3>1, <4>1, MasterKeysAssumption
      <4>2. CASE /\ folders' = level \/ folders' = folders
                 /\ level # Depth /\ commands' = [commands EXCEPT ![c].level = level + 1]
                 /\ lastWriter' = lastWriter
        <5>1. level + 1 \in 1 .. Depth /\ level \in 0 .. Depth
          BY <3>1, <4>2, MasterKeysAssumption
        <5>2. commands' \in [Commands -> Command]
          BY <2>7, <4>2, <5>1
        <5>3. QED
          BY <4>2, <5>1, <5>2 DEF KeysTypeOK
      <4>3. CASE /\ folders < level - 1 /\ folders' = folders /\ lastWriter' = lastWriter
                 /\ commands' = [commands EXCEPT ![c].level = level - 1]
        <5>1. level - 1 \in 1 .. Depth
          BY <3>1, <4>3, MasterKeysAssumption DEF KeysTypeOK
        <5>2. commands' \in [Commands -> Command]
          BY <2>7, <4>3, <5>1
        <5>3. QED
          BY <4>3, <5>2 DEF KeysTypeOK
      <4>4. CASE Goto(c, "failed") /\ folders' = folders /\ lastWriter' = lastWriter
        BY <2>3, <4>4 DEF Steps, Ended, KeysTypeOK
      <4>5. CASE level = Depth /\ folders' = folders /\ FoldersMade(c)
        BY <2>5, <4>5 DEF KeysTypeOK
      <4>6. QED
        BY <2>8, <4>1, <4>2, <4>3, <4>4, <4>5 DEF MakeFolder
    <3>3. QED
      BY <2>8, <3>2 DEF MakeFolder, KeysTypeOK
  <2>9. ASSUME NEW c \in Commands, MakeFolders(c) PROVE KeysTypeOK'
    <3>1. folders' \in 0 .. Depth
      BY <2>9, MasterKeysAssumption DEF MakeFolders
    <3>2. commands' \in [Commands -> Command] /\ lastWriter' \in Commands \union {NoCommand}
      BY <2>3, <2>5, <2>9 DEF MakeFolders, Steps, Ended, KeysTypeOK
    <3>3. QED
      BY <2>9, <3>1, <3>2 DEF MakeFolders, KeysTypeOK
  <2>10. ASSUME NEW c \in Commands, LoadKeys(c) PROVE KeysTypeOK'
    <3> DEFINE r(step) == [commands[c] EXCEPT !.keys = keyFile, !.step = step]
    <3>1. ASSUME NEW step \in Steps PROVE r(step) \in Command
      <4>1. commands[c] \in Command /\ keyFile \in Entry \union {NoEntry}
        BY DEF KeysTypeOK
      <4>2. QED
        BY <4>1 DEF Command
    <3>2. "password" \in Steps /\ FirstStep(c) \in Steps /\ "failed" \in Steps
      BY DEF Steps, Ended, FirstStep
    <3>3. CASE Goto(c, "failed")
      BY <2>3, <2>10, <3>2, <3>3 DEF LoadKeys, files, KeysTypeOK
    <3>4. CASE commands' = [commands EXCEPT ![c] = r(FirstStep(c))]
      BY <2>10, <3>1, <3>2, <3>4, CommandsType DEF LoadKeys, files, KeysTypeOK
    <3>5. CASE commands' = [commands EXCEPT ![c] = r("password")]
      BY <2>10, <3>1, <3>2, <3>5, CommandsType DEF LoadKeys, files, KeysTypeOK
    <3>6. QED
      BY <2>10, <3>3, <3>4, <3>5 DEF LoadKeys
  <2>12. ASSUME NEW c \in Commands, NEW password \in Passwords, Decrypts(password, commands[c].keys)
         PROVE  commands[c].keys \in Entry
    <3>1. commands[c].keys \in Entry \union {NoEntry}
      BY DEF KeysTypeOK, Command
    <3>2. commands[c].keys # NoEntry
      BY <2>12, MasterKeysAssumption DEF Decrypts, NoEntry
    <3>3. QED
      BY <3>1, <3>2
  <2>11. ASSUME NEW c \in Commands, Unlock(c) PROVE KeysTypeOK'
    <3>1. FirstStep(c) \in Steps /\ "failed" \in Steps
      BY DEF Steps, Ended, FirstStep
    <3>2. commands' \in [Commands -> Command]
      BY <2>3, <2>11, <3>1 DEF Unlock
    <3>3. agent' \in SUBSET Commands
      <4>1. ASSUME NEW password \in Passwords, Decrypts(password, commands[c].keys)
            PROVE  commands[c].keys.key \in Commands
        <5>1. commands[c].keys \in Entry
          BY <2>12, <4>1
        <5>2. QED
          BY <5>1 DEF Entry
      <4>2. agent' = agent \/ agent' = agent \union {commands[c].keys.key}
        BY <2>11 DEF Unlock
      <4>3. QED
        BY <2>11, <4>1, <4>2 DEF Unlock, KeysTypeOK
    <3>4. QED
      BY <2>11, <3>2, <3>3 DEF Unlock, files, KeysTypeOK
  <2>13. ASSUME NEW c \in Commands, ChangePassword(c) PROVE KeysTypeOK'
    <3>1. {"cancelled", "no exit code"} \subseteq Steps /\ {"keys", "hint"} \in SUBSET Files
      BY DEF Steps, Ended, Files
    <3>2. ASSUME commands[c].keys \in Entry
          PROVE  Reencrypted(commands[c].keys, commands[c].new) \in Entry
      <4>1. commands[c].new \in Passwords
        BY DEF KeysTypeOK, Command
      <4>2. QED
        BY <3>2, <4>1 DEF Reencrypted, Entry
    <3>3. commands' \in [Commands -> Command] /\ lastWriter' \in Commands \union {NoCommand}
      <4>1. CASE /\ Goto(c, "cancelled") \/ Goto(c, "no exit code")
                 /\ lastWriter' = lastWriter
        BY <2>3, <3>1, <4>1 DEF KeysTypeOK
      <4>2. CASE /\ commands[c].keys \in Entry
                 /\ StartWriting(c, Reencrypted(commands[c].keys, commands[c].new), {"keys", "hint"})
        BY <2>4, <3>1, <3>2, <4>2
      <4>3. QED
        BY <2>12, <2>13, <4>1, <4>2 DEF ChangePassword
    <3>4. QED
      BY <2>13, <3>3 DEF ChangePassword, files, KeysTypeOK
  <2>14. ASSUME NEW c \in Commands, NEW writes \in SUBSET Files, NEW open \in SUBSET Files,
                NEW step \in Steps,
                commands' = [commands EXCEPT ![c].writes = writes, ![c].open = open, ![c].step = step]
         PROVE  commands' \in [Commands -> Command]
    <3> DEFINE r == [commands[c] EXCEPT !.writes = writes, !.open = open, !.step = step]
    <3>1. commands[c] \in Command
      BY DEF KeysTypeOK
    <3>2. r \in Command
      BY <3>1 DEF Command
    <3>3. commands' = [commands EXCEPT ![c] = r]
      BY <2>14
    <3>4. QED
      BY <3>2, <3>3, CommandsType
  <2>15. ASSUME NEW c \in Commands, NEW f \in Files,
                \/ OpenFile(c, f) \/ FileWritten(c, f) \/ WriteFails(c, f)
                \/ Exit(c) \/ Crash(c)
         PROVE  KeysTypeOK'
    <3>1. /\ commands[c] \in Command /\ commands[c].step \in Steps
          /\ {"done", "failed", "no exit code"} \subseteq Steps
      BY DEF KeysTypeOK, Command, Steps, Ended
    <3>2. /\ commands[c].writes \in SUBSET Files /\ commands[c].open \in SUBSET Files
          /\ commands[c].keys \in Entry \union {NoEntry}
      BY <3>1 DEF Command
    <3>3. CASE OpenFile(c, f)
      <4>1. [commands[c] EXCEPT !.open = @ \union {f}] \in Command
        BY <3>1, <3>2 DEF Command
      <4>2. commands' \in [Commands -> Command]
        BY <3>3, <4>1, CommandsType DEF OpenFile
      <4>3. QED
        BY <3>3, <4>2 DEF OpenFile, SetFile, KeysTypeOK
    <3>4. CASE FileWritten(c, f)
      <4> DEFINE writes == commands[c].writes \ {f}
                 open == commands[c].open \ {f}
                 step == IF At(c, "write") /\ AllWritten(writes) THEN "done" ELSE commands[c].step
      <4>1. commands' = [commands EXCEPT ![c].writes = writes, ![c].open = open, ![c].step = step]
        BY <3>4 DEF FileWritten
      <4>2. writes \in SUBSET Files /\ open \in SUBSET Files /\ step \in Steps
        BY <3>1, <3>2
      <4>3. commands' \in [Commands -> Command]
        BY <2>14, <4>1, <4>2
      <4>4. commands[c].keys.password \in Passwords \union {NoPassword}
        BY <3>2 DEF Entry, NoEntry
      <4>5. /\ keyFile' \in {keyFile, commands[c].keys}
            /\ hintFile' \in {hintFile, commands[c].keys.password}
            /\ contentsFile' \in {contentsFile, "[]"}
            /\ UNCHANGED <<backend, folders, agent, lastWriter, faults>>
        BY <3>4 DEF FileWritten, SetFile
      <4>6. QED
        BY <3>2, <4>3, <4>4, <4>5 DEF KeysTypeOK
    <3>5. CASE WriteFails(c, f)
      <4>1. commands' \in [Commands -> Command]
        BY <2>14, <3>1, <3>2, <3>5 DEF WriteFails
      <4>2. /\ faults < MaxFaults /\ faults' = faults + 1
            /\ UNCHANGED <<files, agent, lastWriter>>
        BY <3>5 DEF WriteFails
      <4>3. faults' \in 0 .. MaxFaults
        BY <4>2, MasterKeysAssumption DEF KeysTypeOK
      <4>4. QED
        BY <4>1, <4>2, <4>3 DEF files, KeysTypeOK
    <3>6. CASE Crash(c)
      <4>1. commands' \in [Commands -> Command]
        BY <2>14, <3>1, <3>6 DEF Crash
      <4>2. /\ faults < MaxFaults /\ faults' = faults + 1
            /\ UNCHANGED <<files, agent, lastWriter>>
        BY <3>6 DEF Crash
      <4>3. faults' \in 0 .. MaxFaults
        BY <4>2, MasterKeysAssumption DEF KeysTypeOK
      <4>4. QED
        BY <4>1, <4>2, <4>3 DEF files, KeysTypeOK
    <3>7. CASE Exit(c)
      <4>1. [commands[c] EXCEPT !.writes = {}, !.open = {}] \in Command
        BY <3>1 DEF Command
      <4>2. commands' \in [Commands -> Command]
        BY <3>7, <4>1, CommandsType DEF Exit
      <4>3. QED
        BY <3>7, <4>2 DEF Exit, files, KeysTypeOK
    <3>8. QED
      BY <2>15, <3>3, <3>4, <3>5, <3>6, <3>7
  <2>16. ASSUME NEW c \in Commands, Exit(c) \/ Crash(c) PROVE KeysTypeOK'
    BY <2>15, <2>16 DEF Files
  <2>20. QED
    BY <2>1, <2>2, <2>6, <2>8, <2>9, <2>10, <2>11, <2>13, <2>15, <2>16 DEF KeysNext, Step
<1>3. QED
  BY <1>1, <1>2, PTL DEF KeysSpec

(* A step that brings no new key and removes no folder keeps the invariant.*)
LEMMA NoNewKey ==
    ASSUME KeyInv, folders = Depth => folders' = Depth,
           keyFile'.key \in MasterKeys \union {NoCommand},
           \A c \in Commands : commands'[c].keys.key \in MasterKeys \union {NoCommand},
           agent' \subseteq MasterKeys \union {NoCommand}
    PROVE  KeyInv'
<1>1. MasterKeys' \subseteq MasterKeys
  BY DEF MasterKeys
<1>2. QED
  BY <1>1 DEF KeyInv, OneMasterKey, KeysNeedFolders

(* The command that makes the last folder brings the only key.             *)
LEMMA FirstKey ==
    ASSUME KeysTypeOK, KeyInv, NEW c \in Commands, folders # Depth, folders' = Depth,
           FoldersMade(c), UNCHANGED <<keyFile, agent>>
    PROVE  KeyInv'
<1>1. MasterKeys = {}
  BY DEF KeyInv, KeysNeedFolders
<1>2. keyFile'.key = NoCommand /\ agent' \subseteq {NoCommand}
  BY <1>1 DEF MasterKeys
<1>3. \A d \in Commands : commands'[d].keys.key \in {NoCommand, c}
  <2> SUFFICES ASSUME NEW d \in Commands PROVE commands'[d].keys.key \in {NoCommand, c}
    OBVIOUS
  <2>1. CASE d = c
    <3>1. commands'[d].keys = NewKey(c, commands[c].new)
      BY <2>1 DEF FoldersMade, StartWriting, KeysTypeOK, Command
    <3>2. QED
      BY <3>1 DEF NewKey
  <2>2. CASE d # c
    <3>1. commands'[d] = commands[d]
      BY <2>2 DEF FoldersMade, StartWriting, KeysTypeOK
    <3>2. QED
      BY <1>1, <3>1 DEF MasterKeys
  <2>3. QED
    BY <2>1, <2>2
<1>4. MasterKeys' \subseteq {c}
  BY <1>2, <1>3 DEF MasterKeys
<1>5. QED
  BY <1>4 DEF KeyInv, OneMasterKey, KeysNeedFolders

(* The invariant of the keys.                                             *)
THEOREM KeysAreMade == KeysSpec => []KeyInv
<1>1. KeysInit => KeyInv
  <2> SUFFICES ASSUME KeysInit PROVE KeyInv
    OBVIOUS
  <2>1. keyFile.key = NoCommand /\ agent = {} /\ \A c \in Commands : commands[c].keys.key = NoCommand
    <3>1. keyFile = NoEntry /\ agent = {} /\ \A c \in Commands : commands[c].keys = NoEntry
      <4>1. keyFile = NoEntry /\ agent = {}
        BY Zenon DEF KeysInit
      <4>2. ASSUME NEW c \in Commands PROVE commands[c].keys = NoEntry
        <5>1. commands[c] \in [kind : KindsOn(backend), level : {Depth}, step : {"not run"}, keys : {NoEntry},
                               new : Passwords, writes : {{}}, open : {{}}]
          BY Zenon DEF KeysInit
        <5>2. QED
          BY <5>1
      <4>3. QED
        BY <4>1, <4>2
    <3>2. QED
      BY <3>1 DEF NoEntry
  <2>2. MasterKeys = {}
    BY <2>1 DEF MasterKeys
  <2>3. QED
    BY <2>2 DEF KeyInv, OneMasterKey, KeysNeedFolders
<1>2. KeysTypeOK /\ KeyInv /\ [KeysNext]_keyVars => KeyInv'
  <2> SUFFICES ASSUME KeysTypeOK, KeyInv, [KeysNext]_keyVars PROVE KeyInv'
    OBVIOUS
  <2>1. /\ keyFile.key \in MasterKeys \union {NoCommand}
        /\ \A c \in Commands : commands[c].keys.key \in MasterKeys \union {NoCommand}
        /\ agent \subseteq MasterKeys \union {NoCommand}
    BY DEF MasterKeys
  <2>2. CASE UNCHANGED keyVars
    BY <2>1, <2>2, NoNewKey DEF keyVars, files
  <2>3. CASE Lock
    BY <2>1, <2>3, NoNewKey DEF Lock, files
  <2>4. ASSUME NEW c \in Commands, NewVault(c) PROVE KeyInv'
    <3>1. \A d \in Commands : commands'[d].keys = commands[d].keys
      <4>1. ASSUME NEW next \in Steps, Goto(c, next)
            PROVE \A d \in Commands : commands'[d].keys = commands[d].keys
        BY <4>1 DEF Goto, KeysTypeOK, Command
      <4>2. QED
        BY <2>4, <4>1 DEF NewVault, Steps, Ended
    <3>2. QED
      BY <2>1, <2>4, <3>1, NoNewKey DEF NewVault, files
  <2>5. ASSUME NEW c \in Commands, MakeFolder(c) PROVE KeyInv'
    <3> DEFINE level == commands[c].level
    <3>1. level \in 1 .. Depth
      BY DEF KeysTypeOK, Command
    <3>2. CASE folders' = level /\ folders = level - 1 /\ level = Depth /\ FoldersMade(c)
      BY <2>5, <3>1, <3>2, FirstKey, MasterKeysAssumption DEF MakeFolder
    <3>3. CASE /\ folders = Depth => folders' = Depth
               /\ \A d \in Commands : commands'[d].keys = commands[d].keys
      BY <2>1, <2>5, <3>3, NoNewKey DEF MakeFolder
    <3>4. CASE /\ folders' = level /\ folders = level - 1 /\ level # Depth
               /\ commands' = [commands EXCEPT ![c].level = level + 1]
      <4>1. folders # Depth
        BY <3>1, <3>4, MasterKeysAssumption
      <4>2. \A d \in Commands : commands'[d].keys = commands[d].keys
        BY <3>4 DEF KeysTypeOK, Command
      <4>3. QED
        BY <3>3, <4>1, <4>2
    <3>5. CASE folders' = folders /\ \E l : commands' = [commands EXCEPT ![c].level = l]
      <4>1. \A d \in Commands : commands'[d].keys = commands[d].keys
        BY <3>5 DEF KeysTypeOK, Command
      <4>2. QED
        BY <3>3, <3>5, <4>1
    <3>6. CASE folders' = folders /\ Goto(c, "failed")
      <4>1. \A d \in Commands : commands'[d].keys = commands[d].keys
        BY <3>6 DEF Goto, KeysTypeOK, Command
      <4>2. QED
        BY <3>3, <3>6, <4>1
    <3>7. MayExist(level) => level # Depth
      BY <3>1, MasterKeysAssumption DEF MayExist
    <3>8. \/ folders' = level /\ folders = level - 1
          \/ folders' = folders /\ (MayExist(level) \/ commands' = [commands EXCEPT ![c].level = level - 1]
                                    \/ Goto(c, "failed"))
      BY <2>5 DEF MakeFolder
    <3>9. \/ level = Depth /\ FoldersMade(c)
          \/ level # Depth /\ commands' = [commands EXCEPT ![c].level = level + 1]
          \/ commands' = [commands EXCEPT ![c].level = level - 1] /\ folders' = folders
          \/ Goto(c, "failed") /\ folders' = folders
      BY <2>5, <3>1 DEF MakeFolder
    <3>10. QED
      BY <3>2, <3>4, <3>5, <3>6, <3>7, <3>8, <3>9
  <2>6. ASSUME NEW c \in Commands, MakeFolders(c) PROVE KeyInv'
    <3>1. CASE folders = Depth
      <4>1. \A d \in Commands : commands'[d].keys = commands[d].keys
        BY <2>6, <3>1 DEF MakeFolders, Goto, KeysTypeOK, Command
      <4>2. QED
        BY <2>1, <2>6, <3>1, <4>1, NoNewKey DEF MakeFolders
    <3>2. CASE folders # Depth
      BY <2>6, <3>2, FirstKey DEF MakeFolders
    <3>3. QED
      BY <3>1, <3>2
  <2>7. ASSUME NEW c \in Commands, LoadKeys(c) PROVE KeyInv'
    <3>1. \A d \in Commands : commands'[d].keys \in {commands[d].keys, keyFile}
      <4>1. CASE Goto(c, "failed")
        BY <4>1 DEF Goto, KeysTypeOK, Command
      <4>2. CASE \E step : commands' = [commands EXCEPT ![c].keys = keyFile, ![c].step = step]
        BY <4>2 DEF KeysTypeOK, Command
      <4>3. QED
        BY <2>7, <4>1, <4>2 DEF LoadKeys
    <3>2. UNCHANGED <<folders, keyFile, agent>>
      BY <2>7 DEF LoadKeys, files
    <3>3. QED
      BY <2>1, <3>1, <3>2, NoNewKey
  <2>8. ASSUME NEW c \in Commands, Unlock(c) PROVE KeyInv'
    <3>1. \A d \in Commands : commands'[d].keys = commands[d].keys
      BY <2>8 DEF Unlock, Goto, KeysTypeOK, Command
    <3>2. agent' \in {agent, agent \union {commands[c].keys.key}}
      BY <2>8 DEF Unlock
    <3>3. QED
      BY <2>1, <2>8, <3>1, <3>2, NoNewKey DEF Unlock, files
  <2>9. ASSUME NEW c \in Commands, ChangePassword(c) PROVE KeyInv'
    <3>1. \A d \in Commands : commands'[d].keys.key = commands[d].keys.key
      <4>1. CASE \E step : Goto(c, step)
        BY <4>1 DEF Goto, KeysTypeOK, Command
      <4>2. CASE StartWriting(c, Reencrypted(commands[c].keys, commands[c].new), {"keys", "hint"})
        <5>1. Reencrypted(commands[c].keys, commands[c].new).key = commands[c].keys.key
          BY DEF Reencrypted, KeysTypeOK, Command, Entry, NoEntry
        <5>2. QED
          BY <4>2, <5>1 DEF StartWriting, KeysTypeOK, Command
      <4>3. QED
        BY <2>9, <4>1, <4>2 DEF ChangePassword
    <3>2. QED
      BY <2>1, <2>9, <3>1, NoNewKey DEF ChangePassword, files
  <2>10. ASSUME NEW c \in Commands, NEW f \in Files,
                OpenFile(c, f) \/ FileWritten(c, f) \/ WriteFails(c, f)
         PROVE  KeyInv'
    <3>1. \A d \in Commands : commands'[d].keys = commands[d].keys
      <4>1. CASE WriteFails(c, f)
        <5>1. \E writes, open, step :
                 commands' = [commands EXCEPT ![c].writes = writes, ![c].open = open, ![c].step = step]
          BY <4>1 DEF WriteFails
        <5>2. QED
          BY <5>1 DEF KeysTypeOK, Command
      <4>2. CASE OpenFile(c, f) \/ FileWritten(c, f)
        BY <4>2 DEF OpenFile, FileWritten, KeysTypeOK, Command
      <4>3. QED
        BY <2>10, <4>1, <4>2
    <3>2. keyFile' \in {keyFile, NoEntry, commands[c].keys} /\ UNCHANGED <<folders, agent>>
      <4>1. CASE OpenFile(c, f)
        BY <4>1 DEF OpenFile, SetFile
      <4>2. CASE FileWritten(c, f)
        BY <4>2 DEF FileWritten, SetFile
      <4>3. CASE WriteFails(c, f)
        BY <4>3, Zenon DEF WriteFails, files
      <4>4. QED
        BY <2>10, <4>1, <4>2, <4>3
    <3>3. QED
      BY <2>1, <3>1, <3>2, NoNewKey DEF NoEntry
  <2>11. ASSUME NEW c \in Commands, Exit(c) \/ Crash(c) PROVE KeyInv'
    <3>1. \A d \in Commands : commands'[d].keys = commands[d].keys
      <4>1. CASE Exit(c)
        BY <4>1 DEF Exit, KeysTypeOK, Command
      <4>2. CASE Crash(c)
        BY <4>2 DEF Crash, KeysTypeOK, Command
      <4>3. QED
        BY <2>11, <4>1, <4>2
    <3>2. QED
      BY <2>1, <2>11, <3>1, NoNewKey DEF Exit, Crash, files
  <2>12. QED
    BY <2>2, <2>3, <2>4, <2>5, <2>6, <2>7, <2>8, <2>9, <2>10, <2>11 DEF KeysNext, Step
<1>3. QED
  BY <1>1, <1>2, KeysTypeCorrect, PTL DEF KeysSpec

(* A vault has one master key for good, whatever the commands do at the    *)
(* same time and whichever of them fail (agile_keychain.ts 757-864).       *)
THEOREM KeysAreOne == KeysSpec => []OneMasterKey
<1>1. KeyInv => OneMasterKey
  BY DEF KeyInv
<1>2. QED
  BY <1>1, KeysAreMade, PTL

-----------------------------------------------------------------------------
(* What commands have said of a vault                                      *)

(* Only the command that began to write last still writes.                 *)
OneWriter ==
    \A c \in Commands :
        /\ commands[c].writes # {} => lastWriter = c /\ commands[c].keys # NoEntry
        /\ commands[c].open \subseteq commands[c].writes

(* Which commands have which steps.                                        *)
StepsOfKinds ==
    \A c \in Commands :
        /\ At(c, "mkdir") => Is(c, "new-vault")
        /\ commands[c].step \in {"password", "passwords"} => ~Is(c, "new-vault")

(* Unless it has failed, each file is as it will be or is still to be      *)
(* written.                                                                *)
LastWriterInv ==
    LET last == commands[lastWriter]
    IN lastWriter # NoCommand =>
          /\ last.step \in {"write", "done", "failed", "no exit code"}
          /\ last.step = "done" => last.writes = {}
          /\ last.step \in {"write", "done"} =>
                /\ "keys" \notin last.writes => keyFile = last.keys
                /\ "hint" \notin last.writes => hintFile = last.keys.password
                /\ last.kind = "new-vault" /\ "contents" \notin last.writes => contentsFile = "[]"

(* As long as no call fails, a command has made the last folder and goes   *)
(* on, and only after that another one may have failed.                    *)
Creates(c) == Is(c, "new-vault") /\ commands[c].step \in {"write", "done"}
CreationInv ==
    faults = 0 =>
        /\ folders = Depth => \E c \in Commands : Creates(c)
        /\ \A c \in Commands : Is(c, "new-vault") /\ At(c, "failed") => folders = Depth

CommandsInv == OneWriter /\ StepsOfKinds /\ LastWriterInv /\ CreationInv

(* A step of a command that is not writing.                                *)
LEMMA OtherStep ==
    ASSUME KeysTypeOK, CommandsInv, NEW c \in Commands,
           commands[c].step \notin {"write", "done"}, c # lastWriter,
           commands' \in [Commands -> Command], \A d \in Commands \ {c} : commands'[d] = commands[d],
           commands'[c].kind = commands[c].kind,
           commands'[c].writes = commands[c].writes, commands'[c].open = commands[c].open,
           commands'[c].step = "mkdir" => Is(c, "new-vault"),
           commands'[c].step \in {"password", "passwords"} => ~Is(c, "new-vault"),
           commands'[c].step = "failed" /\ Is(c, "new-vault") => folders = Depth \/ At(c, "failed"),
           folders' = Depth <=> folders = Depth,
           UNCHANGED <<keyFile, hintFile, contentsFile, lastWriter, faults>>
    PROVE  CommandsInv'
<1>1. commands[c].writes = {} /\ commands[c].open = {}
  BY DEF CommandsInv, OneWriter
<1>2. OneWriter'
  BY <1>1 DEF CommandsInv, OneWriter
<1>3. StepsOfKinds'
  BY DEF CommandsInv, StepsOfKinds, At, Is
<1>4. LastWriterInv'
  <2>1. lastWriter # NoCommand => commands'[lastWriter] = commands[lastWriter]
    BY DEF KeysTypeOK
  <2>2. QED
    BY <2>1 DEF CommandsInv, LastWriterInv
<1>5. CreationInv'
  BY DEF CommandsInv, CreationInv, Creates, At, Is
<1>6. QED
  BY <1>2, <1>3, <1>4, <1>5 DEF CommandsInv

(* A command begins to write, and all others have ended to.                *)
LEMMA WritingStarts ==
    ASSUME KeysTypeOK, CommandsInv, NEW c \in Commands, NEW entry \in Entry, NEW writes,
           commands[c].step \notin {"write", "done"}, c # lastWriter,
           \A d \in Commands \ {c} : commands[d].writes = {},
           StartWriting(c, entry, writes), {"keys", "hint"} \subseteq writes,
           Is(c, "new-vault") => "contents" \in writes,
           folders' = Depth => folders = Depth \/ Is(c, "new-vault"),
           folders = Depth => folders' = Depth, faults' = faults
    PROVE  CommandsInv'
<1>1. /\ commands[c].writes = {} /\ commands[c].open = {}
      /\ \A d \in Commands \ {c} : commands[d].open = {}
  BY DEF CommandsInv, OneWriter
<1>2. /\ commands[c] \in Command /\ c # NoCommand /\ entry # NoEntry
      /\ \A d \in Commands \ {c} : commands'[d] = commands[d]
      /\ commands'[c] = [commands[c] EXCEPT !.step = "write", !.keys = entry, !.writes = writes]
      /\ lastWriter' = c
  BY MasterKeysAssumption DEF KeysTypeOK, StartWriting, Entry, NoEntry
<1>3. /\ commands'[c].step = "write" /\ commands'[c].keys = entry /\ commands'[c].writes = writes
      /\ commands'[c].open = {} /\ commands'[c].kind = commands[c].kind
  BY <1>1, <1>2 DEF Command
<1>4. OneWriter'
  BY <1>1, <1>2, <1>3 DEF OneWriter
<1>5. StepsOfKinds'
  BY <1>2, <1>3 DEF CommandsInv, StepsOfKinds, At, Is
<1>6. LastWriterInv'
  BY <1>2, <1>3 DEF LastWriterInv, Is
<1>7. CreationInv'
  BY <1>2, <1>3 DEF CommandsInv, CreationInv, Creates, At, Is
<1>8. QED
  BY <1>4, <1>5, <1>6, <1>7 DEF CommandsInv

(* The command that makes the last folder finds no command that writes,    *)
(* since none has a key.                                                   *)
LEMMA CreationStarts ==
    ASSUME KeysTypeOK, KeyInv, CommandsInv, NEW c \in Commands, At(c, "mkdir"),
           folders # Depth, FoldersMade(c), faults' = faults
    PROVE  CommandsInv'
<1>1. MasterKeys = {}
  BY DEF KeyInv, KeysNeedFolders
<1>2. ASSUME NEW d \in Commands PROVE commands[d].writes = {}
  <2>1. commands[d].keys \in Entry => commands[d].keys.key \in MasterKeys
    BY MasterKeysAssumption DEF MasterKeys, Entry
  <2>2. commands[d].keys = NoEntry
    BY <1>1, <2>1 DEF KeysTypeOK, Command
  <2>3. QED
    BY <2>2 DEF CommandsInv, OneWriter
<1>3. NewKey(c, commands[c].new) \in Entry
  BY DEF NewKey, Entry, KeysTypeOK, Command
<1>4. c # lastWriter /\ Is(c, "new-vault") /\ commands[c].step \notin {"write", "done"}
  BY MasterKeysAssumption DEF CommandsInv, LastWriterInv, StepsOfKinds, At
<1>5. QED
  BY <1>2, <1>3, <1>4, WritingStarts DEF FoldersMade, Files

(* A command that only moves on to another step.                           *)
LEMMA MovesOn ==
    ASSUME KeysTypeOK, CommandsInv, NEW c \in Commands, NEW step \in Steps, Goto(c, step),
           commands[c].step \notin {"write", "done", "failed", "no exit code"},
           step = "mkdir" => Is(c, "new-vault"),
           step \in {"password", "passwords"} => ~Is(c, "new-vault"),
           step = "failed" /\ Is(c, "new-vault") => folders = Depth,
           folders' = folders,
           UNCHANGED <<keyFile, hintFile, contentsFile, lastWriter, faults>>
    PROVE  CommandsInv'
<1>1. c # lastWriter
  BY MasterKeysAssumption DEF CommandsInv, LastWriterInv
<1>2. commands[c] \in Command
  BY DEF KeysTypeOK
<1>3. /\ \A d \in Commands \ {c} : commands'[d] = commands[d]
      /\ commands'[c] = [commands[c] EXCEPT !.step = step]
  BY DEF Goto, KeysTypeOK
<1>4. /\ commands'[c].kind = commands[c].kind /\ commands'[c].writes = commands[c].writes
      /\ commands'[c].open = commands[c].open /\ commands'[c].step = step
      /\ commands'[c] \in Command
  BY <1>2, <1>3 DEF Command
<1>5. commands' \in [Commands -> Command]
  BY <1>3, <1>4 DEF KeysTypeOK, Goto
<1>6. QED
  BY <1>1, <1>3, <1>4, <1>5, OtherStep

(* Making the folders.                                                     *)
LEMMA MakeFolderCommands ==
    ASSUME KeysTypeOK, KeyInv, CommandsInv, NEW c \in Commands, MakeFolder(c)
    PROVE  CommandsInv'
<1> DEFINE level == commands[c].level
<1>1. /\ level \in 1 .. Depth /\ folders \in 0 .. Depth /\ At(c, "mkdir") /\ faults' = faults
      /\ commands[c] \in Command /\ Depth \in Nat \ {0}
  BY MasterKeysAssumption DEF KeysTypeOK, Command, MakeFolder
<1>2. c # lastWriter /\ Is(c, "new-vault")
  BY <1>1, MasterKeysAssumption DEF CommandsInv, LastWriterInv, StepsOfKinds, At
<1>3. ASSUME NEW l \in 1 .. Depth, commands' = [commands EXCEPT ![c].level = l],
             folders' = Depth <=> folders = Depth, UNCHANGED lastWriter
      PROVE  CommandsInv'
  <2>1. /\ \A d \in Commands \ {c} : commands'[d] = commands[d]
        /\ commands'[c] = [commands[c] EXCEPT !.level = l]
    BY <1>3 DEF KeysTypeOK
  <2>2. /\ commands'[c].kind = commands[c].kind /\ commands'[c].writes = commands[c].writes
        /\ commands'[c].open = commands[c].open /\ commands'[c].step = "mkdir"
        /\ commands'[c] \in Command
    BY <1>1, <2>1 DEF Command, At
  <2>3. commands' \in [Commands -> Command]
    BY <1>3, <2>1, <2>2 DEF KeysTypeOK
  <2>4. UNCHANGED <<keyFile, hintFile, contentsFile, lastWriter, faults>>
    BY <1>3 DEF MakeFolder
  <2>5. QED
    BY <1>1, <1>2, <1>3, <2>1, <2>2, <2>3, <2>4, OtherStep DEF At
<1>4. CASE folders = level - 1 /\ folders' = level
  <2>1. CASE level = Depth
    <3>1. FoldersMade(c) /\ folders # Depth
      BY <1>1, <1>4, <2>1 DEF MakeFolder
    <3>2. QED
      BY <1>1, <3>1, CreationStarts
  <2>2. CASE level # Depth
    <3>1. commands' = [commands EXCEPT ![c].level = level + 1] /\ UNCHANGED lastWriter
      BY <1>1, <1>4, <2>2 DEF MakeFolder
    <3>2. level + 1 \in 1 .. Depth /\ folders' # Depth /\ folders # Depth
      BY <1>1, <1>4, <2>2
    <3>3. QED
      BY <1>3, <3>1, <3>2
  <2>3. QED
    BY <2>1, <2>2
<1>5. CASE folders < level - 1
  <2>1. /\ commands' = [commands EXCEPT ![c].level = level - 1] /\ UNCHANGED <<folders, lastWriter>>
        /\ level - 1 \in 1 .. Depth
    BY <1>1, <1>5 DEF MakeFolder
  <2>2. QED
    BY <1>3, <2>1
<1>6. CASE folders >= level
  <2>1. UNCHANGED folders
    BY <1>1, <1>6 DEF MakeFolder
  <2>2. CASE MayExist(level)
    <3>1. level # Depth /\ level + 1 \in 1 .. Depth
      BY <1>1, <2>2 DEF MayExist
    <3>2. commands' = [commands EXCEPT ![c].level = level + 1] /\ UNCHANGED lastWriter
      BY <1>1, <1>6, <2>2, <3>1 DEF MakeFolder
    <3>3. QED
      BY <1>3, <2>1, <3>1, <3>2
  <2>3. CASE ~MayExist(level)
    <3>1. folders = Depth
      BY <1>1, <1>6, <2>3 DEF MayExist
    <3>2. Goto(c, "failed") /\ UNCHANGED <<keyFile, hintFile, contentsFile, lastWriter, faults>>
      BY <1>1, <1>6, <2>3 DEF MakeFolder
    <3>3. "failed" \in Steps
      BY DEF Steps, Ended
    <3>4. QED
      BY <1>1, <2>1, <3>1, <3>2, <3>3, MovesOn DEF At
  <2>4. QED
    BY <2>2, <2>3
<1>7. QED
  BY <1>1, <1>4, <1>5, <1>6 DEF MakeFolder

LEMMA MakeFoldersCommands ==
    ASSUME KeysTypeOK, KeyInv, CommandsInv, NEW c \in Commands, MakeFolders(c)
    PROVE  CommandsInv'
<1>1. CASE folders = Depth
  <2>1. Goto(c, "failed") /\ folders' = folders /\ At(c, "mkdir")
        /\ UNCHANGED <<keyFile, hintFile, contentsFile, lastWriter, faults>>
    BY <1>1 DEF MakeFolders
  <2>2. "failed" \in Steps
    BY DEF Steps, Ended
  <2>3. QED
    BY <1>1, <2>1, <2>2, MovesOn DEF At
<1>2. CASE folders # Depth
  BY <1>2, CreationStarts DEF MakeFolders
<1>3. QED
  BY <1>1, <1>2

(* Deciding on a vault, and unlocking it.                                  *)
LEMMA UnlockCommands ==
    ASSUME KeysTypeOK, CommandsInv, NEW c \in Commands, NewVault(c) \/ LoadKeys(c) \/ Unlock(c)
    PROVE  CommandsInv'
<1>1. /\ {"mkdir", "cancelled", "failed", "done", "passwords", "password"} \subseteq Steps
      /\ FirstStep(c) \in {"done", "passwords"}
  BY DEF Steps, Ended, FirstStep
<1>2. /\ UNCHANGED <<folders, keyFile, hintFile, contentsFile, lastWriter, faults>>
      /\ commands[c].step \notin {"write", "done", "failed", "no exit code"}
  BY DEF NewVault, LoadKeys, Unlock, files, At
<1>3. CASE NewVault(c)
  BY <1>1, <1>2, <1>3, MovesOn DEF NewVault
<1>4. CASE Unlock(c)
  <2>1. ~Is(c, "new-vault")
    BY <1>4 DEF CommandsInv, StepsOfKinds, Unlock, At
  <2>2. \E step \in {"done", "passwords", "failed"} : Goto(c, step)
    BY <1>1, <1>4 DEF Unlock
  <2>3. QED
    BY <1>1, <1>2, <2>1, <2>2, MovesOn
<1>5. CASE LoadKeys(c)
  <2>1. ~Is(c, "new-vault") /\ c # lastWriter
    BY <1>2, <1>5, MasterKeysAssumption DEF LoadKeys, CommandsInv, LastWriterInv
  <2>2. CASE Goto(c, "failed")
    BY <1>1, <1>2, <2>1, <2>2, MovesOn
  <2>3. CASE \E step \in {"done", "passwords", "password"} :
                commands' = [commands EXCEPT ![c].keys = keyFile, ![c].step = step]
    <3>1. PICK step \in {"done", "passwords", "password"} :
                commands' = [commands EXCEPT ![c].keys = keyFile, ![c].step = step]
      BY <2>3
    <3>2. commands[c] \in Command /\ keyFile \in Entry \union {NoEntry}
      BY DEF KeysTypeOK
    <3>3. /\ \A d \in Commands \ {c} : commands'[d] = commands[d]
          /\ commands'[c] = [commands[c] EXCEPT !.keys = keyFile, !.step = step]
      BY <3>1 DEF KeysTypeOK
    <3>4. /\ commands'[c].kind = commands[c].kind /\ commands'[c].writes = commands[c].writes
          /\ commands'[c].open = commands[c].open /\ commands'[c].step = step
          /\ commands'[c] \in Command
      BY <1>1, <3>2, <3>3 DEF Command
    <3>5. commands' \in [Commands -> Command]
      BY <3>1, <3>3, <3>4 DEF KeysTypeOK
    <3>6. QED
      BY <1>2, <2>1, <3>3, <3>4, <3>5, OtherStep
  <2>4. QED
    BY <1>1, <1>5, <2>2, <2>3 DEF LoadKeys
<1>6. QED
  BY <1>3, <1>4, <1>5

(* Only one command at a time changes the password.                        *)
LEMMA ChangePasswordCommands ==
    ASSUME ~ChangesOverlap, KeysTypeOK, CommandsInv, NEW c \in Commands, ChangePassword(c)
    PROVE  CommandsInv'
<1>1. /\ UNCHANGED <<folders, keyFile, hintFile, contentsFile, faults>> /\ At(c, "passwords")
      /\ \A d \in Commands \ {c} : commands[d].writes = {}
  BY DEF ChangePassword, files, MayWrite
<1>2. ~Is(c, "new-vault") /\ c # lastWriter
  BY <1>1, MasterKeysAssumption DEF CommandsInv, StepsOfKinds, LastWriterInv, At
<1>3. {"cancelled", "no exit code"} \subseteq Steps
  BY DEF Steps, Ended
<1>4. ASSUME NEW step \in {"cancelled", "no exit code"}, Goto(c, step), UNCHANGED lastWriter
      PROVE  CommandsInv'
  BY <1>1, <1>2, <1>3, <1>4, MovesOn DEF At
<1>5. ASSUME NEW old \in Passwords, commands[c].keys.key \in agent, Decrypts(old, commands[c].keys),
             StartWriting(c, Reencrypted(commands[c].keys, commands[c].new), {"keys", "hint"})
      PROVE  CommandsInv'
  <2>1. commands[c].keys \in Entry /\ commands[c].new \in Passwords
    BY <1>5, MasterKeysAssumption DEF Decrypts, KeysTypeOK, Command, NoEntry
  <2>2. Reencrypted(commands[c].keys, commands[c].new) \in Entry
    BY <2>1 DEF Reencrypted, Entry
  <2>3. QED
    BY <1>1, <1>2, <1>5, <2>2, WritingStarts DEF At
<1>6. QED
  BY <1>4, <1>5 DEF ChangePassword

(* A step of the command that writes: what it says of the files is to be   *)
(* shown, the rest follows.                                                *)
LEMMA WriterStep ==
    ASSUME KeysTypeOK, CommandsInv, NEW c \in Commands, c = lastWriter,
           \A d \in Commands \ {c} : commands'[d] = commands[d],
           commands'[c].kind = commands[c].kind, commands'[c].keys = commands[c].keys,
           commands'[c].writes \subseteq commands[c].writes,
           commands'[c].open \subseteq commands'[c].writes,
           commands'[c].step \in {commands[c].step, "done", "failed", "no exit code"},
           UNCHANGED <<folders, lastWriter>>,
           faults' = 0 => faults = 0,
           commands'[c].step \in {"failed", "no exit code"} =>
               faults' # 0 \/ commands'[c].step = commands[c].step,
           commands'[c].step = "done" => commands'[c].writes = {} /\ commands[c].step \in {"write", "done"},
           commands'[c].step \in {"write", "done"} =>
                /\ "keys" \notin commands'[c].writes => keyFile' = commands[c].keys
                /\ "hint" \notin commands'[c].writes => hintFile' = commands[c].keys.password
                /\ commands[c].kind = "new-vault" /\ "contents" \notin commands'[c].writes =>
                       contentsFile' = "[]"
    PROVE  CommandsInv'
<1>1. commands[c] \in Command /\ c # NoCommand
  BY MasterKeysAssumption DEF KeysTypeOK
<1>2. commands[c].step \in {"write", "done", "failed", "no exit code"}
  BY <1>1 DEF CommandsInv, LastWriterInv
<1>3. OneWriter'
  BY DEF CommandsInv, OneWriter
<1>4. StepsOfKinds'
  <2>1. ASSUME NEW d \in Commands, commands'[d].step \in {"mkdir", "password", "passwords"}
        PROVE  commands'[d].step = commands[d].step /\ commands'[d].kind = commands[d].kind
    <3>1. CASE d = c
      BY <2>1, <3>1
    <3>2. CASE d # c
      BY <3>2
    <3>3. QED
      BY <3>1, <3>2
  <2>2. QED
    BY <2>1 DEF CommandsInv, StepsOfKinds, At, Is
<1>5. LastWriterInv'
  BY <1>2 DEF LastWriterInv
<1>6. CreationInv'
  <2> SUFFICES ASSUME faults' = 0 PROVE CreationInv'
    BY DEF CreationInv
  <2>1. \/ commands'[c].step = commands[c].step
        \/ commands[c].step \in {"write", "done"} /\ commands'[c].step = "done"
    OBVIOUS
  <2>2. \A d \in Commands : Creates(d) => Creates(d)'
    BY <2>1 DEF Creates, Is
  <2>3. \A d \in Commands : (Is(d, "new-vault") /\ At(d, "failed"))' => Is(d, "new-vault") /\ At(d, "failed")
    BY <2>1 DEF Is, At
  <2>4. QED
    BY <2>2, <2>3 DEF CommandsInv, CreationInv
<1>7. QED
  BY <1>3, <1>4, <1>5, <1>6 DEF CommandsInv

(* The command that writes is the last that has begun to, and what it says *)
(* of the files holds for those that it has written.                       *)
LEMMA WriterIsLast ==
    ASSUME KeysTypeOK, CommandsInv, NEW c \in Commands, commands[c].writes # {}
    PROVE  /\ c = lastWriter /\ c # NoCommand /\ commands[c].open \subseteq commands[c].writes
           /\ commands[c].step \in {"write", "failed", "no exit code"}
           /\ commands[c].step = "write" =>
                /\ "keys" \notin commands[c].writes => keyFile = commands[c].keys
                /\ "hint" \notin commands[c].writes => hintFile = commands[c].keys.password
                /\ commands[c].kind = "new-vault" /\ "contents" \notin commands[c].writes =>
                       contentsFile = "[]"
<1>1. c = lastWriter /\ c # NoCommand /\ commands[c].open \subseteq commands[c].writes
  BY MasterKeysAssumption DEF CommandsInv, OneWriter
<1>2. QED
  BY <1>1 DEF CommandsInv, LastWriterInv

LEMMA FaultCounted == ASSUME KeysTypeOK, faults' = faults + 1 PROVE faults' # 0
<1>1. faults \in Nat
  BY MasterKeysAssumption DEF KeysTypeOK
<1>2. QED
  BY <1>1

(* Opening a file.                                                         *)
LEMMA OpenFileCommands ==
    ASSUME KeysTypeOK, CommandsInv, NEW c \in Commands, NEW f \in Files, OpenFile(c, f)
    PROVE  CommandsInv'
<1>1. commands[c] \in Command /\ f \in commands[c].writes
  BY DEF KeysTypeOK, OpenFile
<1>2. /\ c = lastWriter /\ commands[c].open \subseteq commands[c].writes
      /\ commands[c].step \in {"write", "failed", "no exit code"}
      /\ commands[c].step = "write" =>
            /\ "keys" \notin commands[c].writes => keyFile = commands[c].keys
            /\ "hint" \notin commands[c].writes => hintFile = commands[c].keys.password
            /\ commands[c].kind = "new-vault" /\ "contents" \notin commands[c].writes =>
                   contentsFile = "[]"
  BY <1>1, WriterIsLast
<1>3. /\ \A d \in Commands \ {c} : commands'[d] = commands[d]
      /\ commands'[c] = [commands[c] EXCEPT !.open = @ \union {f}]
  BY DEF OpenFile, KeysTypeOK
<1>4. /\ commands'[c].kind = commands[c].kind /\ commands'[c].keys = commands[c].keys
      /\ commands'[c].writes = commands[c].writes /\ commands'[c].step = commands[c].step
      /\ commands'[c].open = commands[c].open \union {f}
  BY <1>1, <1>3 DEF Command
<1>5. /\ UNCHANGED <<folders, lastWriter, faults>>
      /\ f # "keys" => keyFile' = keyFile
      /\ f # "hint" => hintFile' = hintFile
      /\ f # "contents" => contentsFile' = contentsFile
  BY DEF OpenFile, SetFile
<1>6. QED
  BY <1>1, <1>2, <1>3, <1>4, <1>5, WriterStep

(* A file is written.                                                      *)
LEMMA FileWrittenCommands ==
    ASSUME KeysTypeOK, CommandsInv, NEW c \in Commands, NEW f \in Files, FileWritten(c, f)
    PROVE  CommandsInv'
<1>1. commands[c] \in Command /\ f \in commands[c].writes
  BY DEF KeysTypeOK, FileWritten, CommandsInv, OneWriter
<1>2. /\ c = lastWriter /\ commands[c].open \subseteq commands[c].writes
      /\ commands[c].step \in {"write", "failed", "no exit code"}
      /\ commands[c].step = "write" =>
            /\ "keys" \notin commands[c].writes => keyFile = commands[c].keys
            /\ "hint" \notin commands[c].writes => hintFile = commands[c].keys.password
            /\ commands[c].kind = "new-vault" /\ "contents" \notin commands[c].writes =>
                   contentsFile = "[]"
  BY <1>1, WriterIsLast
<1>3. PICK step \in {commands[c].step, "done"} :
        /\ step = "done" => commands[c].writes \ {f} = {} /\ commands[c].step = "write"
        /\ commands' = [commands EXCEPT ![c].writes = commands[c].writes \ {f},
                                        ![c].open = commands[c].open \ {f}, ![c].step = step]
  <2>1. CASE At(c, "write") /\ AllWritten(commands[c].writes \ {f})
    <3>1. commands' = [commands EXCEPT ![c].writes = commands[c].writes \ {f},
                                       ![c].open = commands[c].open \ {f}, ![c].step = "done"]
      BY <2>1 DEF FileWritten
    <3>2. QED
      BY <2>1, <3>1 DEF At, AllWritten
  <2>2. CASE ~(At(c, "write") /\ AllWritten(commands[c].writes \ {f}))
    <3>1. commands' = [commands EXCEPT ![c].writes = commands[c].writes \ {f},
                                       ![c].open = commands[c].open \ {f},
                                       ![c].step = commands[c].step]
      BY <2>2 DEF FileWritten
    <3>2. commands[c].step # "done"
      BY <1>2
    <3>3. QED
      BY <3>1, <3>2
  <2>3. QED
    BY <2>1, <2>2
<1>4. /\ \A d \in Commands \ {c} : commands'[d] = commands[d]
      /\ commands'[c] = [commands[c] EXCEPT !.writes = commands[c].writes \ {f},
                                            !.open = commands[c].open \ {f}, !.step = step]
  BY <1>3 DEF KeysTypeOK
<1>5. /\ commands'[c].kind = commands[c].kind /\ commands'[c].keys = commands[c].keys
      /\ commands'[c].writes = commands[c].writes \ {f} /\ commands'[c].step = step
      /\ commands'[c].open = commands[c].open \ {f}
  BY <1>1, <1>4 DEF Command
<1>6. /\ UNCHANGED <<folders, lastWriter, faults>>
      /\ keyFile' = IF f = "keys" THEN commands[c].keys ELSE keyFile
      /\ hintFile' = IF f = "hint" THEN commands[c].keys.password ELSE hintFile
      /\ contentsFile' = IF f = "contents" THEN "[]" ELSE contentsFile
  BY DEF FileWritten, SetFile
<1>7. QED
  BY <1>1, <1>2, <1>3, <1>4, <1>5, <1>6, WriterStep

(* A write that fails.                                                     *)
LEMMA WriteFailsCommands ==
    ASSUME KeysTypeOK, CommandsInv, NEW c \in Commands, NEW f \in Files, WriteFails(c, f)
    PROVE  CommandsInv'
<1>1. /\ commands[c] \in Command /\ f \in commands[c].writes
      /\ UNCHANGED <<folders, lastWriter>>
  BY DEF KeysTypeOK, WriteFails, files
<1>2. c = lastWriter /\ commands[c].open \subseteq commands[c].writes
  BY <1>1, WriterIsLast
<1>3. PICK step \in {"failed", "no exit code"} :
        commands' = [commands EXCEPT ![c].writes = commands[c].writes \ {f},
                                     ![c].open = commands[c].open \ {f}, ![c].step = step]
  BY DEF WriteFails
<1>4. /\ \A d \in Commands \ {c} : commands'[d] = commands[d]
      /\ commands'[c] = [commands[c] EXCEPT !.writes = commands[c].writes \ {f},
                                            !.open = commands[c].open \ {f}, !.step = step]
  BY <1>3 DEF KeysTypeOK
<1>5. /\ commands'[c].kind = commands[c].kind /\ commands'[c].keys = commands[c].keys
      /\ commands'[c].writes = commands[c].writes \ {f} /\ commands'[c].step = step
      /\ commands'[c].open = commands[c].open \ {f}
  BY <1>1, <1>4 DEF Command
<1>6. faults' # 0
  <2>1. faults' = faults + 1
    BY Zenon DEF WriteFails
  <2>2. QED
    BY <2>1, FaultCounted
<1>7. QED
  BY <1>1, <1>2, <1>3, <1>4, <1>5, <1>6, WriterStep

(* A command that has failed exits while it writes.                        *)
LEMMA ExitCommands ==
    ASSUME KeysTypeOK, CommandsInv, NEW c \in Commands, Exit(c)
    PROVE  CommandsInv'
<1>1. commands[c] \in Command /\ c = lastWriter /\ commands[c].step = "failed"
  BY WriterIsLast DEF KeysTypeOK, Exit, At
<1>2. /\ \A d \in Commands \ {c} : commands'[d] = commands[d]
      /\ commands'[c] = [commands[c] EXCEPT !.writes = {}, !.open = {}]
  BY DEF Exit, KeysTypeOK
<1>3. /\ commands'[c].kind = commands[c].kind /\ commands'[c].keys = commands[c].keys
      /\ commands'[c].writes = {} /\ commands'[c].step = commands[c].step
      /\ commands'[c].open = {}
  BY <1>1, <1>2 DEF Command
<1>4. UNCHANGED <<folders, lastWriter, faults>>
  BY DEF Exit, files
<1>5. QED
  BY <1>1, <1>2, <1>3, <1>4, WriterStep

(* A command that is killed makes no claim.                                *)
LEMMA CrashCommands ==
    ASSUME KeysTypeOK, CommandsInv, NEW c \in Commands, Crash(c) PROVE CommandsInv'
<1>1. UNCHANGED <<folders, keyFile, hintFile, contentsFile, lastWriter>>
  BY DEF Crash, files
<1>2. /\ \A d \in Commands \ {c} : commands'[d] = commands[d]
      /\ commands'[c].kind = commands[c].kind /\ commands'[c].keys = commands[c].keys
      /\ commands'[c].writes = {} /\ commands'[c].open = {} /\ commands'[c].step = "failed"
  <2>1. /\ commands[c] \in Command
        /\ \A d \in Commands \ {c} : commands'[d] = commands[d]
        /\ commands'[c] = [commands[c] EXCEPT !.writes = {}, !.open = {}, !.step = "failed"]
    BY DEF Crash, KeysTypeOK
  <2>2. QED
    BY <2>1 DEF Command
<1>3. OneWriter' /\ StepsOfKinds'
  BY <1>1, <1>2 DEF CommandsInv, OneWriter, StepsOfKinds, At, Is
<1>4. LastWriterInv'
  <2>1. CASE lastWriter = c \/ lastWriter = NoCommand
    BY <1>1, <1>2, <2>1 DEF LastWriterInv
  <2>2. CASE lastWriter # c /\ lastWriter # NoCommand
    <3>1. commands'[lastWriter] = commands[lastWriter]
      BY <1>2, <2>2 DEF KeysTypeOK
    <3>2. QED
      BY <1>1, <2>2, <3>1 DEF CommandsInv, LastWriterInv
  <2>3. QED
    BY <2>1, <2>2
<1>5. faults' # 0
  <2>1. faults' = faults + 1
    BY Zenon DEF Crash
  <2>2. QED
    BY <2>1, FaultCounted
<1>6. CreationInv'
  BY <1>5 DEF CreationInv
<1>7. QED
  BY <1>3, <1>4, <1>6 DEF CommandsInv

(* What the invariant says of the claims.                                  *)
LEMMA ClaimsHold ==
    ASSUME KeysTypeOK, CommandsInv PROVE CommandsAreTrue
<1>1. CreationsYieldToOne
  BY DEF CreationsYieldToOne, CommandsInv, CreationInv, Creates
<1>2. AcknowledgedChangesHold
  BY DEF AcknowledgedChangesHold, CommandsInv, LastWriterInv
<1>3. QED
  BY <1>1, <1>2 DEF CommandsAreTrue

(* If no two commands write the keys of a vault at the same time, what a   *)
(* command says of the vault is so, whatever the other ones do: a creation *)
(* gives way only to another one, and after a successful command the files *)
(* are what it has written, also when others fail or are killed.           *)
THEOREM CommandsTellTheTruth ==
    ASSUME ~ChangesOverlap PROVE KeysSpec => []CommandsAreTrue
<1>1. KeysInit => CommandsInv
  <2> SUFFICES ASSUME KeysInit PROVE CommandsInv
    OBVIOUS
  <2>1. \A c \in Commands : commands[c].step = "not run" /\ commands[c].writes = {} /\ commands[c].open = {}
    BY DEF KeysInit
  <2>2. lastWriter = NoCommand /\ folders # Depth
    BY MasterKeysAssumption DEF KeysInit
  <2>3. OneWriter /\ StepsOfKinds /\ LastWriterInv
    BY <2>1, <2>2 DEF OneWriter, StepsOfKinds, LastWriterInv, At
  <2>4. CreationInv
    BY <2>1, <2>2 DEF CreationInv, At
  <2>5. QED
    BY <2>3, <2>4 DEF CommandsInv
<1>2. KeysTypeOK /\ KeyInv /\ CommandsInv /\ [KeysNext]_keyVars => CommandsInv'
  <2> SUFFICES ASSUME KeysTypeOK, KeyInv, CommandsInv, [KeysNext]_keyVars PROVE CommandsInv'
    OBVIOUS
  <2>1. ASSUME UNCHANGED <<files, commands, lastWriter, faults>> PROVE CommandsInv'
    BY <2>1 DEF files, CommandsInv, OneWriter, StepsOfKinds, LastWriterInv, CreationInv, Creates, At, Is
  <2>2. CASE UNCHANGED keyVars \/ Lock
    BY <2>1, <2>2 DEF keyVars, Lock
  <2>3. ASSUME NEW c \in Commands, NEW f \in Files,
               OpenFile(c, f) \/ FileWritten(c, f) \/ WriteFails(c, f)
        PROVE  CommandsInv'
    BY <2>3, OpenFileCommands, FileWrittenCommands, WriteFailsCommands
  <2>4. ASSUME NEW c \in Commands, MakeFolder(c) \/ MakeFolders(c) PROVE CommandsInv'
    BY <2>4, MakeFolderCommands, MakeFoldersCommands
  <2>5. ASSUME NEW c \in Commands, NewVault(c) \/ LoadKeys(c) \/ Unlock(c) \/ ChangePassword(c)
        PROVE  CommandsInv'
    BY <2>5, UnlockCommands, ChangePasswordCommands
  <2>6. ASSUME NEW c \in Commands, Exit(c) \/ Crash(c) PROVE CommandsInv'
    BY <2>6, ExitCommands, CrashCommands
  <2>7. QED
    BY <2>2, <2>3, <2>4, <2>5, <2>6 DEF KeysNext, Step
<1>3. QED
  BY <1>1, <1>2, KeysTypeCorrect, KeysAreMade, ClaimsHold, PTL DEF KeysSpec
=============================================================================
