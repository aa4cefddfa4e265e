--------------------------- MODULE RegistryActions ---------------------------
(***************************************************************************)
(* The actions on the registry of an asset (services/samba_based/registry) *)
(* from connecting to the last call.  What an action sees of the asset is  *)
(* one key: whether it is there, the names of its subkeys and its values,  *)
(* each a name and a text.                                                 *)
(***************************************************************************)
EXTENDS ActionAnswers

CONSTANTS Asked,      \* the name of the value that is asked for
          Empty       \* an empty text

Listings == {"enumerate_key", "enumerate_values"}
RegistryOp == Listings \cup {"key_exists", "value_exists", "query_value"}

(* nm: the name the last call returned.                                    *)
RegistryFresh == [i |-> 0, num_subkeys |-> 0, num_values |-> 0, nm |-> None,
                  sub_keys |-> <<>>, values |-> <<>>]

BeginRegistry(o) == Begin(o, BOOLEAN, "connect", RegistryFresh)

-----------------------------------------------------------------------------
(* A pipe that is busy is worth another try.                               *)
connect ==
    /\ In(RegistryOp, "connect")
    /\ \/ Goes("open", work) /\ Fine
       \/ Returns("POSTPONED", AssetSays("pipe_busy")) /\ Trouble
       \/ Returns("FAILED", AssetSays("werror")) /\ Trouble

AfterOpen ==
    CASE op \in Listings -> Goes("info", work)
      [] op = "key_exists" -> Succeeds("True")
      [] OTHER -> Goes("get", work)

(* Fault: any failure is taken for an answer.                              *)
FaultTellsFalse(werror) ==
    CASE op \in {"key_exists", "value_exists"} -> Succeeds("False")
      [] op \in Listings -> Returns("SUCCEEDED", AssetSays(werror))
      [] OTHER -> Returns("FAILED", AssetSays(werror))
NotOpened(werror) ==
    CASE op \in {"key_exists", "value_exists"} /\ werror = "file_not_found" -> Succeeds("False")
      [] op \in Listings -> Returns("SUCCEEDED", AssetSays(werror))
      [] OTHER -> Returns("FAILED", AssetSays(werror))

open_key ==
    /\ In(RegistryOp, "open")
    /\ \/ asset.present /\ AfterOpen /\ Fine
       \/ ~asset.present /\ NotOpened("file_not_found") /\ Fine
       \/ NotOpened("werror") /\ Trouble

-----------------------------------------------------------------------------
(* enumerate_key and enumerate_key_values                                  *)

key_get_info ==
    /\ In(Listings, "info")
    /\ \/ /\ asset.present
          /\ Goes(IF op = "enumerate_key" THEN "subkeys" ELSE "values",
                  [work EXCEPT !.num_subkeys = Len(asset.subkeys), !.num_values = Len(asset.values)])
          /\ Fine
       \/ Returns("SUCCEEDED", AssetSays("werror")) /\ Trouble

(* The result of the call is not looked at: when it fails, nm is what it   *)
(* was, and a string made from no name at all throws.                      *)
get_subkey ==
    /\ In(Listings, "subkeys")
    /\ work.i < work.num_subkeys
    /\ LET listed(nm) == Goes("subkeys", [work EXCEPT !.i = work.i + 1, !.nm = nm,
                                                      !.sub_keys = Append(work.sub_keys, nm)])
       IN \/ asset.present /\ work.i < Len(asset.subkeys)
             /\ listed(asset.subkeys[work.i + 1]) /\ Fine
          \/ IF work.nm = None THEN Throws /\ Trouble ELSE listed(work.nm) /\ Trouble

subkeys_listed ==
    /\ In(Listings, "subkeys")
    /\ work.i = work.num_subkeys
    /\ Goes("values", [work EXCEPT !.i = 0]) /\ Fine

(* Nor is that of this one; the name is then what lies where it should be: *)
(* that of the value before, nothing, or no string at all.                 *)
get_value ==
    /\ In(Listings, "values")
    /\ work.i < work.num_values
    /\ LET listed(v) == Goes("values", [work EXCEPT !.i = work.i + 1,
                                                    !.values = Append(work.values, v)])
       IN \/ asset.present /\ work.i < Len(asset.values)
             /\ listed(asset.values[work.i + 1]) /\ Fine
          \/ /\ \/ listed([name |-> IF work.values = <<>> THEN None ELSE Last(work.values).name,
                           text |-> Empty])
                \/ Throws
                \/ Dies
             /\ Trouble

(* Fault: the values are missing in the answer.                            *)
FaultWithoutValues(w) == <<w.sub_keys>>
Content(w) ==
    IF op = "enumerate_key" THEN <<w.sub_keys, w.values>> ELSE <<w.values>>

(* enumerate_values sets the result and leaves the codes as they are.      *)
values_listed ==
    /\ In(Listings, "values")
    /\ work.i = work.num_values
    /\ IF op = "enumerate_key" THEN Succeeds(Content(work))
       ELSE Returns("SUCCEEDED", [answer EXCEPT !.res = [content |-> Content(work)]])
    /\ Fine

-----------------------------------------------------------------------------
(* query_value and value_exists                                            *)

AskedValues(a) == {k \in DOMAIN a.values : a.present /\ a.values[k].name = Asked}
Text(a) == a.values[CHOOSE k \in AskedValues(a) : TRUE].text

key_get_value_by_name ==
    /\ In({"value_exists", "query_value"}, "get")
    /\ \/ /\ AskedValues(asset) # {} /\ Fine
          /\ CASE op = "value_exists" -> Succeeds("True")
               [] op = "query_value" /\ Text(asset) = Empty ->
                      Returns("SUCCEEDED", set_response_for_error("VALUE_IS_EMPTY"))
               [] OTHER -> Succeeds(Text(asset))
       \/ /\ AskedValues(asset) = {} /\ Fine
          /\ IF op = "value_exists" THEN Succeeds("False") ELSE Fails("VALUE_IS_EMPTY")
       \/ /\ Trouble
          /\ IF op = "value_exists" THEN Returns("FAILED", AssetSays("werror"))
             ELSE Fails("VALUE_IS_EMPTY")

RegistryStep ==
    \/ connect \/ open_key \/ key_get_info \/ get_subkey \/ subkeys_listed \/ get_value
    \/ values_listed \/ key_get_value_by_name

RegistryNext == (\E o \in RegistryOp : BeginRegistry(o)) \/ RegistryStep

-----------------------------------------------------------------------------
(* What an action says of an asset a that stays as it is, when no call     *)
(* fails.                                                                  *)
RegistryTruth(o, a) ==
    CASE o = "key_exists" -> Says(a.present)
      [] o = "value_exists" -> Says(AskedValues(a) # {})
      [] o \in Listings \cup {"query_value"} /\ ~a.present -> AssetSays("file_not_found")
      [] o = "query_value" /\ a.present ->
             IF AskedValues(a) = {} \/ Text(a) = Empty THEN set_response_for_error("VALUE_IS_EMPTY")
             ELSE set_response_for_success(Text(a))
      [] o = "enumerate_key" /\ a.present -> set_response_for_success(<<a.subkeys, a.values>>)
      [] o = "enumerate_values" /\ a.present -> [result_msg EXCEPT !.res = [content |-> <<a.values>>]]
=============================================================================
