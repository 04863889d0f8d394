------------------------------ MODULE SchemaV1 ------------------------------
(***************************************************************************)
(* The conversions between v1 and the internal version. The v1 types       *)
(* themselves are a library of cert-manager, laid out as the internal      *)
(* ones.                                                                   *)
(***************************************************************************)
EXTENDS Layouts

ACMERenewalWindowMoves ==
       "ACMERenewalWindow" :> Moves({}, {"Start", "End"}, {})
    @@ "CAIssuer" :> Moves({"SecretName"}, {"CRLDistributionPoints", "OCSPServers",
            "IssuingCertificateURLs"}, {})
    @@ "Certificate" :> Moves({"ObjectMeta"}, {}, {"Spec", "Status"})
    @@ "CertificateACMEARIStatus" :> Moves({"ExplanationURL", "LastError"}, {"SuggestedWindow",
            "LastChecked", "NextCheck"}, {})
    @@ "CertificateACMEStatus" :> Moves({}, {"ARI"}, {})
    @@ "CertificateAdditionalOutputFormat" :> Moves({"Type"}, {}, {})

CertificateConditionMoves ==
       "CertificateCondition" :> Moves({"Type", "Status", "Reason", "Message",
            "ObservedGeneration"}, {"LastTransitionTime"}, {})
    @@ "CertificateKeystores" :> Moves({}, {}, {"JKS", "PKCS12"})
    @@ "CertificateList" :> Moves({"ListMeta"}, {}, {"Items"})

CertificatePrivateKeyMoves ==
       "CertificatePrivateKey" :> Moves({"RotationPolicy", "Encoding", "Algorithm", "Size"}, {}, {})
    @@ "CertificateRenewal" :> Moves({"Policy"}, {"Windows"}, {})
    @@ "CertificateRenewalWindows" :> Moves({"Timezone", "Cron"}, {"WindowDuration"}, {})
    @@ "CertificateRequest" :> Moves({"ObjectMeta"}, {}, {"Spec", "Status"})
    @@ "CertificateRequestCondition" :> Moves({"Type", "Status", "Reason", "Message"},
            {"LastTransitionTime"}, {})

CertificateRequestListMoves ==
       "CertificateRequestList" :> Moves({"ListMeta"}, {}, {"Items"})
    @@ "CertificateRequestSpec" :> Moves({"IsCA", "Username", "UID"}, {"Duration", "Request",
            "Usages", "Groups", "Extra"}, {"IssuerRef"})
    @@ "CertificateRequestStatus" :> Moves({}, {"Conditions", "Certificate", "CA", "FailureTime"},
            {})
    @@ "CertificateSecretTemplate" :> Moves({}, {"Annotations", "Labels"}, {})

CertificateSpecMoves ==
       "CertificateSpec" :> Moves({"LiteralSubject", "CommonName", "SecretName", "IsCA",
            "SignatureAlgorithm"}, {"Subject", "Duration", "RenewBefore", "RenewBeforePercentage",
            "Renewal", "DNSNames", "IPAddresses", "URIs", "OtherNames", "EmailAddresses",
            "SecretTemplate", "Usages", "PrivateKey", "EncodeUsagesInRequest",
            "RevisionHistoryLimit", "AdditionalOutputFormats", "NameConstraints"}, {"Keystores",
            "IssuerRef"})
    @@ "CertificateStatus" :> Moves({}, {"Conditions", "LastFailureTime", "NotBefore", "NotAfter",
            "RenewalTime", "Revision", "NextPrivateKeySecretName", "FailedIssuanceAttempts",
            "ACME"}, {})

ClusterIssuerMoves ==
       "ClusterIssuer" :> Moves({"ObjectMeta"}, {}, {"Spec", "Status"})
    @@ "ClusterIssuerList" :> Moves({"ListMeta"}, {}, {"Items"})
    @@ "Issuer" :> Moves({"ObjectMeta"}, {}, {"Spec", "Status"})
    @@ "IssuerCondition" :> Moves({"Type", "Status", "Reason", "Message", "ObservedGeneration"},
            {"LastTransitionTime"}, {})

IssuerConfigMoves ==
       "IssuerConfig" :> Moves({}, {"CA", "SelfSigned"}, {"ACME", "Vault", "Venafi"})
    @@ "IssuerList" :> Moves({"ListMeta"}, {}, {"Items"})
    @@ "IssuerSpec" :> Moves({}, {}, {"IssuerConfig"})

IssuerStatusMoves ==
       "IssuerStatus" :> Moves({}, {"Conditions", "ACME"}, {})
    @@ "JKSKeystore" :> Moves({"Create"}, {"Alias", "Password"}, {"PasswordSecretRef"})
    @@ "NameConstraintItem" :> Moves({}, {"DNSDomains", "IPRanges", "EmailAddresses", "URIDomains"},
            {})
    @@ "NameConstraints" :> Moves({"Critical"}, {"Permitted", "Excluded"}, {})
    @@ "OtherName" :> Moves({"OID", "UTF8Value"}, {}, {})

PKCS12KeystoreMoves ==
       "PKCS12Keystore" :> Moves({"Create", "Profile"}, {"Password"}, {"PasswordSecretRef"})
    @@ "SelfSignedIssuer" :> Moves({}, {"CRLDistributionPoints"}, {})
    @@ "ServiceAccountRef" :> Moves({"Name"}, {"TokenAudiences"}, {})
    @@ "VaultAWSAuth" :> Moves({"MountPath", "Role", "Region", "IAMRoleARN", "VaultHeaderValue"},
            {"ServiceAccountRef"}, {})
    @@ "VaultAppRole" :> Moves({"Path", "RoleId"}, {}, {"SecretRef"})

VaultAuthMoves ==
       "VaultAuth" :> Moves({}, {"ClientCertificate", "AWS"}, {"TokenSecretRef", "AppRole",
            "Kubernetes"})
    @@ "VaultClientCertificateAuth" :> Moves({"Path", "SecretName", "Name"}, {}, {})

VaultIssuerMoves ==
       "VaultIssuer" :> Moves({"Server", "ServerName", "Path", "Namespace"}, {"CABundle"}, {"Auth",
            "CABundleSecretRef", "ClientCertSecretRef", "ClientKeySecretRef"})
    @@ "VaultKubernetesAuth" :> Moves({"Path", "Role"}, {"ServiceAccountRef"}, {"SecretRef"})
    @@ "VenafiCloud" :> Moves({"URL"}, {}, {"APITokenSecretRef"})

VenafiIssuerMoves ==
       "VenafiIssuer" :> Moves({"Zone"}, {}, {"TPP", "Cloud", "NGTS"})
    @@ "VenafiNGTS" :> Moves({"URL", "TokenEndpoint", "TSGID"}, {}, {"CredentialsRef"})
    @@ "VenafiTPP" :> Moves({"URL"}, {"CABundle"}, {"CredentialsRef", "CABundleSecretRef"})

X509SubjectMoves ==
       "X509Subject" :> Moves({"SerialNumber"}, {"Organizations", "Countries",
            "OrganizationalUnits", "Localities", "Provinces", "StreetAddresses", "PostalCodes"}, {})

ACMEAuthorizationMoves ==
       "ACMEAuthorization" :> Moves({"URL", "Identifier", "InitialState"}, {"Wildcard",
            "Challenges"}, {})
    @@ "ACMEChallenge" :> Moves({"URL", "Token", "Type"}, {}, {})
    @@ "ACMEChallengeSolver" :> Moves({}, {"Selector", "HTTP01", "WaitInsteadOfSelfCheck"},
            {"DNS01"})

ACMEChallengeSolverDNS01Moves ==
       "ACMEChallengeSolverDNS01" :> Moves({"CNAMEStrategy"}, {"Webhook"}, {"Akamai", "CloudDNS",
            "Cloudflare", "Route53", "AzureDNS", "DigitalOcean", "AcmeDNS", "RFC2136"})

ACMEChallengeSolverHTTP01Moves ==
       "ACMEChallengeSolverHTTP01" :> Moves({}, {"Ingress", "GatewayHTTPRoute"}, {})
    @@ "ACMEChallengeSolverHTTP01GatewayHTTPRoute" :> Moves({"ServiceType"}, {"Labels",
            "ParentRefs", "PodTemplate"}, {})
    @@ "ACMEChallengeSolverHTTP01Ingress" :> Moves({"ServiceType", "Name"}, {"IngressClassName",
            "Class", "PodTemplate", "IngressTemplate"}, {})
    @@ "ACMEChallengeSolverHTTP01IngressObjectMeta" :> Moves({}, {"Annotations", "Labels"}, {})
    @@ "ACMEChallengeSolverHTTP01IngressPodObjectMeta" :> Moves({}, {"Annotations", "Labels"}, {})
    @@ "ACMEChallengeSolverHTTP01IngressPodResources" :> Moves({}, {"Limits", "Requests"}, {})

ACMEChallengeSolverHTTP01IngressPodSecurityContextMoves ==
       "ACMEChallengeSolverHTTP01IngressPodSecurityContext" :> Moves({}, {"SELinuxOptions",
            "RunAsUser", "RunAsGroup", "RunAsNonRoot", "SupplementalGroups", "FSGroup", "Sysctls",
            "FSGroupChangePolicy", "SeccompProfile"}, {})
    @@ "ACMEChallengeSolverHTTP01IngressPodSpec" :> Moves({"PriorityClassName",
            "ServiceAccountName"}, {"NodeSelector", "Affinity", "Tolerations", "ImagePullSecrets",
            "SecurityContext", "Resources"}, {})
    @@ "ACMEChallengeSolverHTTP01IngressPodTemplate" :> Moves({}, {},
            {"ACMEChallengeSolverHTTP01IngressPodObjectMeta", "Spec"})
    @@ "ACMEChallengeSolverHTTP01IngressTemplate" :> Moves({}, {},
            {"ACMEChallengeSolverHTTP01IngressObjectMeta"})

ACMEExternalAccountBindingMoves ==
       "ACMEExternalAccountBinding" :> Moves({"KeyID", "KeyAlgorithm"}, {}, {"Key"})
    @@ "ACMEIssuer" :> Moves({"Email", "Server", "PreferredChain", "SkipTLSVerify",
            "DisableAccountKeyGeneration", "EnableDurationFeature", "Profile"}, {"CABundle"},
            {"ExternalAccountBinding", "PrivateKey", "Solvers"})
    @@ "ACMEIssuerDNS01ProviderAcmeDNS" :> Moves({"Host"}, {}, {"AccountSecret"})

ACMEIssuerDNS01ProviderAkamaiMoves ==
       "ACMEIssuerDNS01ProviderAkamai" :> Moves({"ServiceConsumerDomain"}, {}, {"ClientToken",
            "ClientSecret", "AccessToken"})
    @@ "ACMEIssuerDNS01ProviderAzureDNS" :> Moves({"ClientID", "SubscriptionID", "TenantID",
            "ResourceGroupName", "HostedZoneName", "Environment", "ZoneType"}, {"ManagedIdentity"},
            {"ClientSecret"})
    @@ "ACMEIssuerDNS01ProviderCloudDNS" :> Moves({"Project", "HostedZoneName"}, {},
            {"ServiceAccount"})

ACMEIssuerDNS01ProviderCloudflareMoves ==
       "ACMEIssuerDNS01ProviderCloudflare" :> Moves({"Email"}, {}, {"APIKey", "APIToken"})
    @@ "ACMEIssuerDNS01ProviderDigitalOcean" :> Moves({}, {}, {"Token"})
    @@ "ACMEIssuerDNS01ProviderRFC2136" :> Moves({"Nameserver", "TSIGKeyName", "TSIGAlgorithm",
            "Protocol"}, {}, {"TSIGSecret"})

ACMEIssuerDNS01ProviderRoute53Moves ==
       "ACMEIssuerDNS01ProviderRoute53" :> Moves({"AccessKeyID", "Role", "HostedZoneID", "Region"},
            {"Auth"}, {"SecretAccessKeyID", "SecretAccessKey"})
    @@ "ACMEIssuerDNS01ProviderWebhook" :> Moves({"GroupName", "SolverName"}, {"Config"}, {})
    @@ "ACMEIssuerStatus" :> Moves({"URI", "LastRegisteredEmail", "LastPrivateKeyHash"}, {}, {})
    @@ "AzureManagedIdentity" :> Moves({"ClientID", "ResourceID", "TenantID"}, {}, {})
    @@ "CertificateDNSNameSelector" :> Moves({}, {"MatchLabels", "DNSNames", "DNSZones"}, {})

ChallengeMoves ==
       "Challenge" :> Moves({"ObjectMeta"}, {}, {"Spec", "Status"})
    @@ "ChallengeList" :> Moves({"ListMeta"}, {}, {"Items"})
    @@ "ChallengeSpec" :> Moves({"URL", "AuthorizationURL", "DNSName", "Wildcard", "Type", "Token",
            "Key"}, {}, {"Solver", "IssuerRef"})
    @@ "ChallengeStatus" :> Moves({"Processing", "Presented", "Reason", "State"}, {"PresentedAt"},
            {})

OrderMoves ==
       "Order" :> Moves({"ObjectMeta"}, {}, {"Spec", "Status"})
    @@ "OrderList" :> Moves({"ListMeta"}, {}, {"Items"})
    @@ "OrderSpec" :> Moves({"CommonName", "Profile", "Replaces"}, {"Request", "DNSNames",
            "IPAddresses", "Duration"}, {"IssuerRef"})
    @@ "OrderStatus" :> Moves({"URL", "FinalizeURL", "State", "Reason"}, {"Authorizations",
            "Certificate", "FailureTime"}, {})

Route53AuthMoves ==
       "Route53Auth" :> Moves({}, {"Kubernetes"}, {})
    @@ "Route53KubernetesAuth" :> Moves({}, {"ServiceAccountRef"}, {})
    @@ "ServiceAccountRef" :> Moves({"Name"}, {"TokenAudiences"}, {})

\* The generated conversions that are registered, struct by struct.
CertManagerConversions ==
    ACMERenewalWindowMoves @@ CertificateConditionMoves @@ CertificatePrivateKeyMoves @@
    CertificateRequestListMoves @@ CertificateSpecMoves @@ ClusterIssuerMoves @@
    IssuerConfigMoves @@ IssuerStatusMoves @@ PKCS12KeystoreMoves @@ VaultAuthMoves @@
    VaultIssuerMoves @@ VenafiIssuerMoves @@ X509SubjectMoves

\* Those of the acme group.
ACMEConversions ==
    ACMEAuthorizationMoves @@ ACMEChallengeSolverDNS01Moves @@ ACMEChallengeSolverHTTP01Moves @@
    ACMEChallengeSolverHTTP01IngressPodSecurityContextMoves @@ ACMEExternalAccountBindingMoves
    @@ ACMEIssuerDNS01ProviderAkamaiMoves @@ ACMEIssuerDNS01ProviderCloudflareMoves @@
    ACMEIssuerDNS01ProviderRoute53Moves @@ ChallengeMoves @@ OrderMoves @@ Route53AuthMoves
=============================================================================
