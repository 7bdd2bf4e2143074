----------------------------- MODULE AccessPolicy -----------------------------
(***************************************************************************)
(* internal/auth: access classes, roles, and who may do what.              *)
(***************************************************************************)
EXTENDS Integers

Levels == 0 .. 3     \* LevelAnonymous .. LevelAdministrator
Roles == {"Administrator", "Operator", "User", "Extended"}
AccessClasses ==
    {"PreAuth", "ReadSystem", "ReadSystemSensitive", "ReadSystemSecret", "WriteSystem",
     "Unrecoverable", "ReadMedia", "Actuate"}

\* RoleLevel: a role that is not known counts for nothing in principalLevel.
RoleLevel(role) ==
    CASE role = "Administrator" -> 3
      [] role = "Operator" -> 2
      [] role = "User" -> 1
      [] OTHER -> 0

\* Table 7 of the ONVIF core specification, as tableAllow has it.
TableAllow(level, class) ==
    \/ level = 3
    \/ class = "PreAuth"
    \/ class \in {"ReadSystem", "ReadMedia"} /\ level >= 1
    \/ class \in {"ReadSystemSensitive", "Actuate"} /\ level >= 2

\* principalLevel: the best of the roles decides, that is, one that suffices suffices.
Allow(roles, class) ==
    TableAllow(0, class) \/ \E role \in roles : TableAllow(RoleLevel(role), class)

\* DeviceOperationClasses, EventOperationClasses, MediaOperationClasses; an operation in
\* none of them writes the system.
DeviceClass(name) ==
    CASE name \in {"GetEndpointReference", "GetServices", "GetServiceCapabilities",
                   "GetCapabilities", "GetWsdlUrl", "GetSystemDateAndTime", "GetHostname"}
             -> "PreAuth"
      [] name \in {"GetDeviceInformation", "GetNetworkInterfaces", "GetNetworkProtocols",
                   "GetNetworkDefaultGateway", "GetDNS", "GetNTP", "GetScopes",
                   "GetDiscoveryMode", "GetGeoLocation"}
             -> "ReadSystem"
      [] name \in {"GetUsers", "GetUserRoles", "GetAccessPolicy", "GetCertificates",
                   "GetRemoteUser"}
             -> "ReadSystemSensitive"
      [] name \in {"GetSystemLog", "GetSystemBackup", "GetSystemSupportInformation"}
             -> "ReadSystemSecret"
      [] name \in {"SetSystemFactoryDefault", "UpgradeFirmware", "StartFirmwareUpgrade",
                   "StartSystemRestore", "RestoreSystem", "SystemReboot"}
             -> "Unrecoverable"
      [] name \in {"SendAuxiliaryCommand", "SetRelayOutputState"} -> "Actuate"
      [] OTHER -> "WriteSystem"

EventClass(name) ==
    CASE name = "GetServiceCapabilities" -> "PreAuth"
      [] name = "GetEventProperties" -> "ReadSystem"
      [] name \in {"CreatePullPointSubscription", "Subscribe", "PullMessages",
                   "SetSynchronizationPoint", "Renew", "Unsubscribe"}
             -> "Actuate"
      [] OTHER -> "WriteSystem"

MediaClass(name) ==
    CASE name = "GetServiceCapabilities" -> "PreAuth"
      [] name \in {"GetProfiles", "GetProfile", "GetVideoSources",
                   "GetVideoSourceConfigurations", "GetVideoSourceConfiguration",
                   "GetVideoEncoderConfigurations", "GetVideoEncoderConfiguration",
                   "GetCompatibleVideoSourceConfigurations",
                   "GetCompatibleVideoEncoderConfigurations",
                   "GetVideoSourceConfigurationOptions",
                   "GetVideoEncoderConfigurationOptions", "GetStreamUri", "GetSnapshotUri",
                   "GetGuaranteedNumberOfVideoEncoderInstances",
                   "GetMetadataConfigurations", "GetMetadataConfiguration",
                   "GetCompatibleMetadataConfigurations", "GetMetadataConfigurationOptions"}
             -> "ReadMedia"
      [] name \in {"CreateProfile", "DeleteProfile", "AddVideoSourceConfiguration",
                   "RemoveVideoSourceConfiguration", "AddVideoEncoderConfiguration",
                   "RemoveVideoEncoderConfiguration", "SetVideoSourceConfiguration",
                   "SetVideoEncoderConfiguration", "AddMetadataConfiguration",
                   "RemoveMetadataConfiguration", "SetMetadataConfiguration"}
             -> "Actuate"
      [] OTHER -> "WriteSystem"
=============================================================================
