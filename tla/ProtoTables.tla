----------------------------- MODULE ProtoTables -----------------------------
(***************************************************************************)
(* The message classes of src/proto, as tables.  Every class is the same   *)
(* code over its own fields, and that code has four parts which have to    *)
(* agree and which are four tables here, each read off its own part:       *)
(*                                                                         *)
(*   X_Merge      MergePartialFromCodedStream: for every case of the       *)
(*                switch the field number, the field, how it is read, and  *)
(*                the tag ExpectTag looks for before it jumps to the next  *)
(*                case (0: ExpectAtEnd)                                    *)
(*   X_Serialize  SerializeWithCachedSizes and ...ToArray: the fields in   *)
(*                the order they are written, each with its number and     *)
(*                type                                                     *)
(*   X_Copy       ByteSize, MergeFrom and IsInitialized: the mask of the   *)
(*                required fields, as the set of its bits, and the fields  *)
(*                counted and copied                                       *)
(*   X_Has        the accessors in the header: the bit of _has_bits_[0]    *)
(*                that set_has_f, clear_has_f and has_f use                *)
(*                                                                         *)
(* A class is the four together with the classes of those of its fields    *)
(* that are messages themselves; such a field has the name of its class    *)
(* for a type.                                                             *)
(***************************************************************************)

F(number, field, type, expect) ==
  [num |-> number, field |-> field, type |-> type, expect |-> expect]

W(field, number, type) == [field |-> field, num |-> number, type |-> type]

C(mask, fields) == [mask |-> mask, fields |-> fields]

Class(merge, serialize, copy, bits, sub) ==
  [merge |-> merge, serialize |-> serialize, mask |-> copy.mask, fields |-> copy.fields,
   bit |-> bits, sub |-> sub]

NoMessages == <<>>

----------------------------------------------------------------------------
(* ReplyRequest *)

ReplyRequest_Merge == <<F(1, "cid", "string", 18), F(2, "type", "string", 24),
  F(3, "expiry", "int64", 34), F(4, "topic_id", "string", 42),
  F(5, "sign", "string", 50), F(6, "v", "string", 58),
  F(7, "platform", "string", 66), F(8, "device_id", "string", 74),
  F(9, "authorization", "string", 82), F(10, "data", "bytes", 0)>>

ReplyRequest_Serialize == <<W("cid", 1, "string"), W("type", 2, "string"),
  W("expiry", 3, "int64"), W("topic_id", 4, "string"), W("sign", 5, "string"),
  W("v", 6, "string"), W("platform", 7, "string"),
  W("device_id", 8, "string"), W("authorization", 9, "string"),
  W("data", 10, "bytes")>>

ReplyRequest_Copy == C({}, <<"cid", "type", "expiry", "topic_id", "sign", "v",
  "platform", "device_id", "authorization", "data">>)

ReplyRequest_Has == [cid |-> 1, type |-> 2, expiry |-> 4, topic_id |-> 8,
  sign |-> 16, v |-> 32, platform |-> 64, device_id |-> 128,
  authorization |-> 256, data |-> 512]

ReplyRequest == Class(ReplyRequest_Merge, ReplyRequest_Serialize,
  ReplyRequest_Copy, ReplyRequest_Has, NoMessages)

----------------------------------------------------------------------------
(* ReplyResponse *)

ReplyResponse_Merge == <<F(1, "cid", "string", 18),
  F(2, "type", "string", 26), F(3, "data", "bytes", 0)>>

ReplyResponse_Serialize == <<W("cid", 1, "string"), W("type", 2, "string"),
  W("data", 3, "bytes")>>

ReplyResponse_Copy == C({}, <<"cid", "type", "data">>)

ReplyResponse_Has == [cid |-> 1, type |-> 2, data |-> 4]

ReplyResponse == Class(ReplyResponse_Merge, ReplyResponse_Serialize,
  ReplyResponse_Copy, ReplyResponse_Has, NoMessages)

----------------------------------------------------------------------------
(* PostTopicRequest *)

PostTopicRequest_Merge == <<F(1, "cid", "string", 18),
  F(2, "type", "string", 24), F(3, "expiry", "int64", 34),
  F(4, "forum_id", "string", 42), F(5, "sign", "string", 50),
  F(6, "v", "string", 58), F(7, "platform", "string", 66),
  F(8, "device_id", "string", 74), F(9, "authorization", "string", 82),
  F(10, "data", "bytes", 0)>>

PostTopicRequest_Serialize == <<W("cid", 1, "string"), W("type", 2, "string"),
  W("expiry", 3, "int64"), W("forum_id", 4, "string"), W("sign", 5, "string"),
  W("v", 6, "string"), W("platform", 7, "string"),
  W("device_id", 8, "string"), W("authorization", 9, "string"),
  W("data", 10, "bytes")>>

PostTopicRequest_Copy == C({}, <<"cid", "type", "expiry", "forum_id", "sign",
  "v", "platform", "device_id", "authorization", "data">>)

PostTopicRequest_Has == [cid |-> 1, type |-> 2, expiry |-> 4, forum_id |-> 8,
  sign |-> 16, v |-> 32, platform |-> 64, device_id |-> 128,
  authorization |-> 256, data |-> 512]

PostTopicRequest == Class(PostTopicRequest_Merge, PostTopicRequest_Serialize,
  PostTopicRequest_Copy, PostTopicRequest_Has, NoMessages)

----------------------------------------------------------------------------
(* PostTopicResponse *)

PostTopicResponse_Merge == <<F(1, "cid", "string", 18),
  F(2, "type", "string", 26), F(3, "data", "bytes", 0)>>

PostTopicResponse_Serialize == <<W("cid", 1, "string"),
  W("type", 2, "string"), W("data", 3, "bytes")>>

PostTopicResponse_Copy == C({}, <<"cid", "type", "data">>)

PostTopicResponse_Has == [cid |-> 1, type |-> 2, data |-> 4]

PostTopicResponse == Class(PostTopicResponse_Merge,
  PostTopicResponse_Serialize, PostTopicResponse_Copy, PostTopicResponse_Has,
  NoMessages)

----------------------------------------------------------------------------
(* PublicServiceRequest *)

PublicServiceRequest_Merge == <<F(1, "cid", "string", 18),
  F(2, "service_id", "string", 26), F(3, "data", "string", 0)>>

PublicServiceRequest_Serialize == <<W("cid", 1, "string"),
  W("service_id", 2, "string"), W("data", 3, "string")>>

PublicServiceRequest_Copy == C({}, <<"cid", "service_id", "data">>)

PublicServiceRequest_Has == [cid |-> 1, service_id |-> 2, data |-> 4]

PublicServiceRequest == Class(PublicServiceRequest_Merge,
  PublicServiceRequest_Serialize, PublicServiceRequest_Copy,
  PublicServiceRequest_Has, NoMessages)

----------------------------------------------------------------------------
(* PublicServiceResponse *)

PublicServiceResponse_Merge == <<F(1, "cid", "string", 18),
  F(2, "service_id", "string", 26), F(3, "data", "string", 32),
  F(4, "time", "int64", 0)>>

PublicServiceResponse_Serialize == <<W("cid", 1, "string"),
  W("service_id", 2, "string"), W("data", 3, "string"),
  W("time", 4, "int64")>>

PublicServiceResponse_Copy == C({}, <<"cid", "service_id", "data", "time">>)

PublicServiceResponse_Has == [cid |-> 1, service_id |-> 2, data |-> 4,
  time |-> 8]

PublicServiceResponse == Class(PublicServiceResponse_Merge,
  PublicServiceResponse_Serialize, PublicServiceResponse_Copy,
  PublicServiceResponse_Has, NoMessages)

----------------------------------------------------------------------------
(* GroupLBSNearRequest *)

GroupLBSNearRequest_Merge == <<F(1, "cid", "string", 17),
  F(2, "lat", "double", 25), F(3, "long_", "double", 32),
  F(4, "start", "int32", 40), F(5, "limit", "int32", 48),
  F(6, "max_distance", "int32", 0)>>

GroupLBSNearRequest_Serialize == <<W("cid", 1, "string"),
  W("lat", 2, "double"), W("long_", 3, "double"), W("start", 4, "int32"),
  W("limit", 5, "int32"), W("max_distance", 6, "int32")>>

GroupLBSNearRequest_Copy == C({}, <<"cid", "lat", "long_", "start", "limit",
  "max_distance">>)

GroupLBSNearRequest_Has == [cid |-> 1, lat |-> 2, long_ |-> 4, start |-> 8,
  limit |-> 16, max_distance |-> 32]

GroupLBSNearRequest == Class(GroupLBSNearRequest_Merge,
  GroupLBSNearRequest_Serialize, GroupLBSNearRequest_Copy,
  GroupLBSNearRequest_Has, NoMessages)

----------------------------------------------------------------------------
(* GroupLBSNearResponse *)

GroupLBSNearResponse_Merge == <<F(1, "cid", "string", 16),
  F(2, "status", "int32", 26), F(3, "data", "string", 0)>>

GroupLBSNearResponse_Serialize == <<W("cid", 1, "string"),
  W("status", 2, "int32"), W("data", 3, "string")>>

GroupLBSNearResponse_Copy == C({}, <<"cid", "status", "data">>)

GroupLBSNearResponse_Has == [cid |-> 1, status |-> 2, data |-> 4]

GroupLBSNearResponse == Class(GroupLBSNearResponse_Merge,
  GroupLBSNearResponse_Serialize, GroupLBSNearResponse_Copy,
  GroupLBSNearResponse_Has, NoMessages)

----------------------------------------------------------------------------
(* GroupCityRequest *)

GroupCityRequest_Merge == <<F(1, "cid", "string", 18),
  F(2, "city", "string", 24), F(3, "start", "int32", 32),
  F(4, "limit", "int32", 0)>>

GroupCityRequest_Serialize == <<W("cid", 1, "string"), W("city", 2, "string"),
  W("start", 3, "int32"), W("limit", 4, "int32")>>

GroupCityRequest_Copy == C({}, <<"cid", "city", "start", "limit">>)

GroupCityRequest_Has == [cid |-> 1, city |-> 2, start |-> 4, limit |-> 8]

GroupCityRequest == Class(GroupCityRequest_Merge, GroupCityRequest_Serialize,
  GroupCityRequest_Copy, GroupCityRequest_Has, NoMessages)

----------------------------------------------------------------------------
(* GroupCityResponse *)

GroupCityResponse_Merge == <<F(1, "cid", "string", 16),
  F(2, "status", "int32", 26), F(3, "data", "string", 0)>>

GroupCityResponse_Serialize == <<W("cid", 1, "string"),
  W("status", 2, "int32"), W("data", 3, "string")>>

GroupCityResponse_Copy == C({}, <<"cid", "status", "data">>)

GroupCityResponse_Has == [cid |-> 1, status |-> 2, data |-> 4]

GroupCityResponse == Class(GroupCityResponse_Merge,
  GroupCityResponse_Serialize, GroupCityResponse_Copy, GroupCityResponse_Has,
  NoMessages)

----------------------------------------------------------------------------
(* PythonCoreRequest *)

PythonCoreRequest_Merge == <<F(1, "cid", "string", 18),
  F(2, "json_request", "string", 26), F(3, "module_name", "string", 34),
  F(4, "function_name", "string", 0)>>

PythonCoreRequest_Serialize == <<W("cid", 1, "string"),
  W("json_request", 2, "string"), W("module_name", 3, "string"),
  W("function_name", 4, "string")>>

PythonCoreRequest_Copy == C({}, <<"cid", "json_request", "module_name",
  "function_name">>)

PythonCoreRequest_Has == [cid |-> 1, json_request |-> 2, module_name |-> 4,
  function_name |-> 8]

PythonCoreRequest == Class(PythonCoreRequest_Merge,
  PythonCoreRequest_Serialize, PythonCoreRequest_Copy, PythonCoreRequest_Has,
  NoMessages)

----------------------------------------------------------------------------
(* PythonCoreResponse *)

PythonCoreResponse_Merge == <<F(1, "cid", "string", 18),
  F(2, "json_response", "string", 24), F(3, "status", "int32", 0)>>

PythonCoreResponse_Serialize == <<W("cid", 1, "string"),
  W("json_response", 2, "string"), W("status", 3, "int32")>>

PythonCoreResponse_Copy == C({}, <<"cid", "json_response", "status">>)

PythonCoreResponse_Has == [cid |-> 1, json_response |-> 2, status |-> 4]

PythonCoreResponse == Class(PythonCoreResponse_Merge,
  PythonCoreResponse_Serialize, PythonCoreResponse_Copy,
  PythonCoreResponse_Has, NoMessages)

----------------------------------------------------------------------------
(* ServicePacket *)

ServicePacket_Merge == <<F(1, "type", "int32", 18),
  F(2, "reply_request", "ReplyRequest", 26),
  F(3, "reply_response", "ReplyResponse", 34),
  F(4, "post_topic_request", "PostTopicRequest", 42),
  F(5, "post_topic_response", "PostTopicResponse", 50),
  F(6, "public_service_request", "PublicServiceRequest", 58),
  F(7, "public_service_response", "PublicServiceResponse", 66),
  F(8, "group_lbs_near_request", "GroupLBSNearRequest", 74),
  F(9, "group_lbs_near_response", "GroupLBSNearResponse", 82),
  F(10, "group_city_request", "GroupCityRequest", 90),
  F(11, "group_city_response", "GroupCityResponse", 98),
  F(12, "python_core_request", "PythonCoreRequest", 106),
  F(13, "python_core_response", "PythonCoreResponse", 0)>>

ServicePacket_Serialize == <<W("type", 1, "int32"),
  W("reply_request", 2, "ReplyRequest"),
  W("reply_response", 3, "ReplyResponse"),
  W("post_topic_request", 4, "PostTopicRequest"),
  W("post_topic_response", 5, "PostTopicResponse"),
  W("public_service_request", 6, "PublicServiceRequest"),
  W("public_service_response", 7, "PublicServiceResponse"),
  W("group_lbs_near_request", 8, "GroupLBSNearRequest"),
  W("group_lbs_near_response", 9, "GroupLBSNearResponse"),
  W("group_city_request", 10, "GroupCityRequest"),
  W("group_city_response", 11, "GroupCityResponse"),
  W("python_core_request", 12, "PythonCoreRequest"),
  W("python_core_response", 13, "PythonCoreResponse")>>

ServicePacket_Copy == C({1}, <<"type", "reply_request", "reply_response",
  "post_topic_request", "post_topic_response", "public_service_request",
  "public_service_response", "group_lbs_near_request",
  "group_lbs_near_response", "group_city_request", "group_city_response",
  "python_core_request", "python_core_response">>)

ServicePacket_Has == [type |-> 1, reply_request |-> 2, reply_response |-> 4,
  post_topic_request |-> 8, post_topic_response |-> 16,
  public_service_request |-> 32, public_service_response |-> 64,
  group_lbs_near_request |-> 128, group_lbs_near_response |-> 256,
  group_city_request |-> 512, group_city_response |-> 1024,
  python_core_request |-> 2048, python_core_response |-> 4096]

ServicePacket == Class(ServicePacket_Merge, ServicePacket_Serialize, ServicePacket_Copy, ServicePacket_Has,
  [reply_request |-> ReplyRequest, reply_response |-> ReplyResponse,
   post_topic_request |-> PostTopicRequest,
   post_topic_response |-> PostTopicResponse,
   public_service_request |-> PublicServiceRequest,
   public_service_response |-> PublicServiceResponse,
   group_lbs_near_request |-> GroupLBSNearRequest,
   group_lbs_near_response |-> GroupLBSNearResponse,
   group_city_request |-> GroupCityRequest,
   group_city_response |-> GroupCityResponse,
   python_core_request |-> PythonCoreRequest,
   python_core_response |-> PythonCoreResponse])

----------------------------------------------------------------------------
(* LoginRequest *)

LoginRequest_Merge == <<F(1, "cid", "string", 16),
  F(2, "device_type", "int32", 0)>>

LoginRequest_Serialize == <<W("cid", 1, "string"),
  W("device_type", 2, "int32")>>

LoginRequest_Copy == C({1}, <<"cid", "device_type">>)

LoginRequest_Has == [cid |-> 1, device_type |-> 2]

LoginRequest == Class(LoginRequest_Merge, LoginRequest_Serialize,
  LoginRequest_Copy, LoginRequest_Has, NoMessages)

----------------------------------------------------------------------------
(* LoginResponse *)

LoginResponse_Merge == <<F(1, "status", "int32", 18),
  F(2, "sessid", "string", 0)>>

LoginResponse_Serialize == <<W("status", 1, "int32"),
  W("sessid", 2, "string")>>

LoginResponse_Copy == C({1}, <<"status", "sessid">>)

LoginResponse_Has == [status |-> 1, sessid |-> 2]

LoginResponse == Class(LoginResponse_Merge, LoginResponse_Serialize,
  LoginResponse_Copy, LoginResponse_Has, NoMessages)

----------------------------------------------------------------------------
(* ServiceRequest *)

ServiceRequest_Merge == <<F(1, "sessid", "string", 16),
  F(2, "service_type", "int32", 26), F(3, "sn", "string", 34),
  F(4, "payload", "bytes", 0)>>

ServiceRequest_Serialize == <<W("sessid", 1, "string"),
  W("service_type", 2, "int32"), W("sn", 3, "string"),
  W("payload", 4, "bytes")>>

\* Fault: payload is neither counted nor copied.
ServiceRequest_CopyShort == C({1, 2, 4}, <<"sessid", "service_type", "sn">>)

ServiceRequest_Copy == C({1, 2, 4}, <<"sessid", "service_type", "sn", "payload">>)

ServiceRequest_Has == [sessid |-> 1, service_type |-> 2, sn |-> 4,
  payload |-> 8]

ServiceRequest == Class(ServiceRequest_Merge, ServiceRequest_Serialize,
  ServiceRequest_Copy, ServiceRequest_Has, NoMessages)

----------------------------------------------------------------------------
(* ServiceResponse *)

ServiceResponse_Merge == <<F(1, "sessid", "string", 16),
  F(2, "service_type", "int32", 26), F(3, "sn", "string", 32),
  F(4, "status", "int32", 42), F(5, "payload", "bytes", 0)>>

ServiceResponse_Serialize == <<W("sessid", 1, "string"),
  W("service_type", 2, "int32"), W("sn", 3, "string"),
  W("status", 4, "int32"), W("payload", 5, "bytes")>>

ServiceResponse_Copy == C({1, 2, 4, 8}, <<"sessid", "service_type", "sn", "status",
  "payload">>)

ServiceResponse_Has == [sessid |-> 1, service_type |-> 2, sn |-> 4,
  status |-> 8, payload |-> 16]

ServiceResponse == Class(ServiceResponse_Merge, ServiceResponse_Serialize,
  ServiceResponse_Copy, ServiceResponse_Has, NoMessages)

----------------------------------------------------------------------------
(* SvRegRequest *)

SvRegRequest_Merge == <<F(1, "service_type", "int32", 0)>>

SvRegRequest_Serialize == <<W("service_type", 1, "int32")>>

SvRegRequest_Copy == C({1}, <<"service_type">>)

SvRegRequest_Has == [service_type |-> 1]

SvRegRequest == Class(SvRegRequest_Merge, SvRegRequest_Serialize,
  SvRegRequest_Copy, SvRegRequest_Has, NoMessages)

----------------------------------------------------------------------------
(* SvRegResponse *)

SvRegResponse_Merge == <<F(1, "status", "int32", 0)>>

SvRegResponse_Serialize == <<W("status", 1, "int32")>>

SvRegResponse_Copy == C({1}, <<"status">>)

SvRegResponse_Has == [status |-> 1]

SvRegResponse == Class(SvRegResponse_Merge, SvRegResponse_Serialize,
  SvRegResponse_Copy, SvRegResponse_Has, NoMessages)

----------------------------------------------------------------------------
(* KickCliRequest *)

KickCliRequest_Merge == <<F(1, "reason", "bytes", 0)>>

KickCliRequest_Serialize == <<W("reason", 1, "bytes")>>

KickCliRequest_Copy == C({}, <<"reason">>)

KickCliRequest_Has == [reason |-> 1]

KickCliRequest == Class(KickCliRequest_Merge, KickCliRequest_Serialize,
  KickCliRequest_Copy, KickCliRequest_Has, NoMessages)

----------------------------------------------------------------------------
(* The classes by their names. *)

ClassOf == [ReplyRequest |-> ReplyRequest, ReplyResponse |-> ReplyResponse,
  PostTopicRequest |-> PostTopicRequest,
  PostTopicResponse |-> PostTopicResponse,
  PublicServiceRequest |-> PublicServiceRequest,
  PublicServiceResponse |-> PublicServiceResponse,
  GroupLBSNearRequest |-> GroupLBSNearRequest,
  GroupLBSNearResponse |-> GroupLBSNearResponse,
  GroupCityRequest |-> GroupCityRequest,
  GroupCityResponse |-> GroupCityResponse,
  PythonCoreRequest |-> PythonCoreRequest,
  PythonCoreResponse |-> PythonCoreResponse, ServicePacket |-> ServicePacket,
  LoginRequest |-> LoginRequest, LoginResponse |-> LoginResponse,
  ServiceRequest |-> ServiceRequest, ServiceResponse |-> ServiceResponse,
  SvRegRequest |-> SvRegRequest, SvRegResponse |-> SvRegResponse,
  KickCliRequest |-> KickCliRequest]

Classes == DOMAIN ClassOf
==============================================================================
