----------------------------- MODULE ItemFormat -----------------------------
(***************************************************************************)
(* One item in the Agile Keychain format (lib/agile_keychain.ts): the JSON *)
(* of its .1password file, the Item objects (lib/item_store.ts) that apps  *)
(* make of it, and what is lost or kept when one of them is saved again.   *)
(* A save writes the whole file.  An object that was loaded has no content *)
(* until some is set: what is saved with it is read from the file again.   *)
(*                                                                         *)
(* Texts stand for titles, names, labels and values; of the data that are  *)
(* only passed on (title, type, tags, ...) the folder stands for all.  An  *)
(* app waits for one save before the next; Vault has saves that overlap,   *)
(* contents.js and the removal of items.                                   *)
(***************************************************************************)
EXTENDS Integers, Sequences

CONSTANTS
    Texts,
    NoText,            \* ''
    Folders,           \* the uuids of folders, and NoText
    Apps,              \* those who have an object for the item
    Contents,          \* the contents that users enter
    ForeignContents,   \* the contents that other 1Password clients write
    TicksPerSecond,    \* the resolution of Date objects
    TimestampLimit,    \* 2^31, what a UNIX timestamp is less than
    MaxClock,          \* bound on the time
    MaxRevisions       \* bound on the writes of the file

VARIABLES
    clock,
    file,       \* the .1password file
    objects     \* app -> its Item object

vars == <<clock, file, objects>>

-----------------------------------------------------------------------------
(* Contents as the program has them.                                       *)
FieldType == {"Text", "Password", "Address", "Date", "MonthYear", "URL", "CreditCardType",
              "PhoneNumber", "Gender", "Email", "Menu"}
FormFieldType == {"Text", "Password", "Email", "Checkbox", "Input"}
Null == "null"

Field == [kind : FieldType, title : Texts, value : Texts]
Section == [title : Texts, fields : Seq(Field)]
FormField == [type : FormFieldType, designation : {"username", "password", "other"}, value : Texts]
Content == [sections : Seq(Section), urls : Seq(Texts), notes : Texts,
            formFields : Seq(FormField), html : Texts]

(* Contents as the file has them.  A part that is missing is read as an    *)
(* empty one.                                                              *)
fieldKindMap ==
    [Text |-> "string", Password |-> "concealed", Address |-> "address", Date |-> "date",
     MonthYear |-> "monthYear", URL |-> "URL", CreditCardType |-> "cctype",
     PhoneNumber |-> "phone", Gender |-> "gender", Email |-> "email", Menu |-> "menu"]
fieldTypeCodeMap ==
    [Text |-> "T", Password |-> "P", Email |-> "E", Checkbox |-> "C", Input |-> "I"]

Codes(map) == {map[key] : key \in DOMAIN map}

KeychainField == [k : Codes(fieldKindMap), t : Texts, v : Texts]
KeychainSection == [title : Texts, fields : Seq(KeychainField)]
KeychainFormField ==
    [type : Codes(fieldTypeCodeMap), designation : {"username", "password", "other"}, value : Texts]
KeychainContent == [sections : Seq(KeychainSection), URLs : Seq(Texts), notesPlain : Texts,
                    fields : Seq(KeychainFormField), html : Texts]

(* The contents that are assumed have known kinds of fields.               *)
ASSUME ContentsAssumption ==
    Contents \subseteq Content /\ ForeignContents \subseteq KeychainContent

ASSUME ClockAssumption ==
    /\ NoText \in Texts \cap Folders
    /\ TicksPerSecond \in Nat \ {0} /\ TimestampLimit \in Nat \ {0}
    /\ MaxClock \in Nat /\ MaxRevisions \in Nat

-----------------------------------------------------------------------------
(* BiDiMap                                                                 *)
Get(map, key) == IF key \in DOMAIN map THEN map[key] ELSE Null
Get2(map, code) == IF code \in Codes(map) THEN CHOOSE key \in DOMAIN map : map[key] = code ELSE Null

toAgileKeychainField(f) == [k |-> Get(fieldKindMap, f.kind), t |-> f.title, v |-> f.value]
fromAgileKeychainField(f) == [kind |-> Get2(fieldKindMap, f.k), title |-> f.t, value |-> f.v]

toAgileKeychainFormField(f) ==
    [type |-> Get(fieldTypeCodeMap, f.type), designation |-> f.designation, value |-> f.value]
fromAgileKeychainFormField(f) ==
    [type |-> Get2(fieldTypeCodeMap, f.type), designation |-> f.designation, value |-> f.value]

toAgileKeychainSection(s) ==
    [title |-> s.title, fields |-> [i \in 1 .. Len(s.fields) |-> toAgileKeychainField(s.fields[i])]]
fromAgileKeychainSection(s) ==
    [title |-> s.title, fields |-> [i \in 1 .. Len(s.fields) |-> fromAgileKeychainField(s.fields[i])]]

(* Faulty variant: the notes are not read.                                 *)
fromAgileKeychainContentNoNotes(k) ==
    [sections |-> [i \in 1 .. Len(k.sections) |-> fromAgileKeychainSection(k.sections[i])],
     urls |-> k.URLs, notes |-> NoText,
     formFields |-> [i \in 1 .. Len(k.fields) |-> fromAgileKeychainFormField(k.fields[i])],
     html |-> k.html]

toAgileKeychainContent(c) ==
    [sections |-> [i \in 1 .. Len(c.sections) |-> toAgileKeychainSection(c.sections[i])],
     URLs |-> c.urls, notesPlain |-> c.notes,
     fields |-> [i \in 1 .. Len(c.formFields) |-> toAgileKeychainFormField(c.formFields[i])],
     html |-> c.html]

fromAgileKeychainContent(k) ==
    [sections |-> [i \in 1 .. Len(k.sections) |-> fromAgileKeychainSection(k.sections[i])],
     urls |-> k.URLs, notes |-> k.notesPlain,
     formFields |-> [i \in 1 .. Len(k.fields) |-> fromAgileKeychainFormField(k.fields[i])],
     html |-> k.html]

(* The user name and the first URL of a content.                           *)
Account(c) ==
    LET names == SelectSeq(c.formFields, LAMBDA f : f.designation = "username")
    IN IF names = <<>> THEN NoText ELSE Head(names).value

PrimaryLocation(locations) == IF locations = <<>> THEN NoText ELSE Head(locations)

-----------------------------------------------------------------------------
(* Times.  A UNIX timestamp is made with `| 0', which wraps around.        *)
Wrapped(n) == ((n + TimestampLimit) % (2 * TimestampLimit)) - TimestampLimit
unixTimestampFromDate(date) == Wrapped(date \div TicksPerSecond)
dateFromUnixTimestamp(timestamp) == timestamp * TicksPerSecond

(* Faulty variant: the time is just that of the clock.                     *)
LaterIsNow(date, now) == now

(* updateTimestamps: a save is at least a second later than the one before.*)
Later(date, now) == IF now - date < TicksPerSecond THEN date + TicksPerSecond ELSE now

-----------------------------------------------------------------------------
(* Items and files                                                         *)
File == [updatedAt : Int, folder : Folders, trashed : BOOLEAN, location : Texts,
         content : KeychainContent, revision : 0 .. MaxRevisions]

(* An object: its overview, the content if one has been set, the content   *)
(* that it is being saved with and the revision of the file at that time,  *)
(* and whether the user is asked to have it repaired.                      *)
Object == [revision : 0 .. MaxRevisions, updatedAt : Int, folder : Folders,
           trashed : BOOLEAN, locations : Seq(Texts), account : Texts, content : Seq(Content),
           saving : Seq([content : Content, read : 0 .. MaxRevisions]), asked : BOOLEAN]

fromAgileKeychainItem(f) ==
    [revision |-> f.revision, updatedAt |-> dateFromUnixTimestamp(f.updatedAt),
     folder |-> f.folder, trashed |-> f.trashed,
     locations |-> IF f.location = NoText THEN <<>> ELSE <<f.location>>,
     account |-> NoText, content |-> <<>>, saving |-> <<>>, asked |-> FALSE]

toAgileKeychainItem(item, content, revision) ==
    [updatedAt |-> unixTimestampFromDate(item.updatedAt), folder |-> item.folder,
     trashed |-> item.trashed, location |-> PrimaryLocation(item.locations),
     content |-> toAgileKeychainContent(content), revision |-> revision]

GetContent(item) ==
    IF item.content # <<>> THEN Head(item.content) ELSE fromAgileKeychainContent(file.content)

(* Faulty variant: the overview stays as it is.                            *)
OverviewKept(item, content) == item

updateOverviewFromContent(item, content) ==
    [item EXCEPT !.locations = content.urls, !.account = Account(content)]

-----------------------------------------------------------------------------
Init ==
    /\ clock = 0
    /\ \E k \in ForeignContents :
          file = [updatedAt |-> 0, folder |-> NoText, trashed |-> FALSE,
                  location |-> PrimaryLocation(k.URLs), content |-> k, revision |-> 0]
    /\ objects = [o \in Apps |-> fromAgileKeychainItem(file)]

Busy(o) == objects[o].saving # <<>> \/ objects[o].asked

(* Time passes, or the clock is set.                                       *)
Tick ==
    /\ clock' \in 0 .. MaxClock
    /\ UNCHANGED <<file, objects>>

LoadItem(o) ==
    /\ ~Busy(o)
    /\ objects' = [objects EXCEPT ![o] = fromAgileKeychainItem(file)]
    /\ UNCHANGED <<clock, file>>

(* saveItem, until the content has been read: `item' is the object with    *)
(* what the caller has changed.                                            *)
SaveItem(o, item) ==
    LET content == GetContent(item)
        saved == updateOverviewFromContent([item EXCEPT !.updatedAt = Later(@, clock)], content)
    IN objects' = [objects EXCEPT ![o] =
                     [saved EXCEPT !.saving = <<[content |-> content, read |-> file.revision]>>,
                                   !.asked = FALSE]]

EditItem(o, content) ==
    /\ ~Busy(o)
    /\ SaveItem(o, [objects[o] EXCEPT !.content = <<content>>])
    /\ UNCHANGED <<clock, file>>

TrashItem(o, trash) ==
    /\ ~Busy(o)
    /\ SaveItem(o, [objects[o] EXCEPT !.trashed = trash])
    /\ UNCHANGED <<clock, file>>

(* repairItem: the locations of the object are those of its content, and   *)
(* the user is asked if the first of them was another.                     *)
RepairItem(o) ==
    LET content == GetContent(objects[o])
    IN /\ ~Busy(o)
       /\ PrimaryLocation(objects[o].locations) # PrimaryLocation(content.urls)
       /\ objects' = [objects EXCEPT ![o].locations = content.urls, ![o].asked = TRUE]
       /\ UNCHANGED <<clock, file>>

AnswerRepair(o, doRepair) ==
    /\ objects[o].asked
    /\ IF doRepair THEN SaveItem(o, objects[o]) ELSE objects' = [objects EXCEPT ![o].asked = FALSE]
    /\ UNCHANGED <<clock, file>>

(* The file is written, whatever it has become meanwhile.                  *)
WriteFile(o) ==
    LET item == objects[o]
        revision == file.revision + 1
    IN /\ item.saving # <<>> /\ file.revision < MaxRevisions
       /\ file' = toAgileKeychainItem(item, Head(item.saving).content, revision)
       /\ objects' = [objects EXCEPT ![o].revision = revision, ![o].saving = <<>>]
       /\ UNCHANGED clock

(* Another 1Password client writes the item, and need not have made it the *)
(* overview from the content.                                              *)
ForeignSave(k, location, folder) ==
    /\ file.revision < MaxRevisions
    /\ file' = [updatedAt |-> unixTimestampFromDate(clock), folder |-> folder, trashed |-> file.trashed,
                location |-> location, content |-> k, revision |-> file.revision + 1]
    /\ UNCHANGED <<clock, objects>>

AppStep(o) ==
    \/ LoadItem(o) \/ RepairItem(o) \/ WriteFile(o)
    \/ \E content \in Contents : EditItem(o, content)
    \/ \E answer \in BOOLEAN : TrashItem(o, answer) \/ AnswerRepair(o, answer)

Next ==
    \/ Tick
    \/ \E o \in Apps : AppStep(o)
    \/ \E k \in ForeignContents, location \in Texts, folder \in Folders :
          ForeignSave(k, location, folder)

Spec == Init /\ [][Next]_vars

-----------------------------------------------------------------------------
TypeOK ==
    /\ clock \in 0 .. MaxClock
    /\ file \in File
    /\ objects \in [Apps -> Object]

(* Whether an app writes the file in a step, and with what.                *)
Writes(o) == objects[o].saving # <<>> /\ objects'[o].saving = <<>>
WrittenContent(o) == Head(objects[o].saving)

(* An app that saves an item without having changed its content leaves the *)
(* content in the file as it is, whoever has written it, as long as the    *)
(* kinds of its fields are known; and if nobody has written the file since *)
(* it was read (agile_keychain.ts 103-281).                                *)
RewritesKeepContent ==
    [][\A o \in Apps :
          Writes(o) /\ objects[o].content = <<>> /\ WrittenContent(o).read = file.revision =>
             file'.content = file.content]_vars

(* What an app has written is read by any other as it was entered, and its *)
(* own object shows what the file has: the first URL, all URLs and the     *)
(* user name are those of the content, also when the overview was out of   *)
(* date before (item_store.ts 464-486, item_repair.ts).                    *)
SavesAreReadBack ==
    [][\A o \in Apps :
          LET content == WrittenContent(o).content IN
          Writes(o) =>
             /\ fromAgileKeychainContent(file'.content) = content
             /\ file'.location = PrimaryLocation(content.urls)
             /\ objects'[o].locations = content.urls /\ objects'[o].account = Account(content)]_vars

(* The stored time of an item advances with each save of an object that is *)
(* up to date, though it has a resolution of a second and the clock may be *)
(* set back (item_store.ts 438-462).  Beyond TimestampLimit it does not.    *)
StoredTimesAdvance ==
    [][\A o \in Apps :
          Writes(o) /\ objects[o].revision = file.revision => file'.updatedAt > file.updatedAt]_vars
=============================================================================
